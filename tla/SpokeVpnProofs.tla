--------------------------- MODULE SpokeVpnProofs ---------------------------
(***************************************************************************)
(* Theorems about SpokeVpn: the types, that a play which ends well has     *)
(* joined every link, that no play disturbs one in place, and that a task  *)
(* which ends well made or removed both its objects.                       *)
(*                                                                         *)
(* The filters go through lists of any length.  What they make of the      *)
(* first n modules is found by induction over n, where the property to     *)
(* prove is a set of numbers; the induction itself is the lemma Induction. *)
(***************************************************************************)
EXTENDS SpokeVpn, SequenceTheorems, WellFoundedInduction, TLAPS

Gateways   == [name : Int, peer : Link]
Interfaces == [name : Nat, link : Link]
Tunnels    == [name : Int, interface : Nat, gateway : Int]

(* The calls of plays and tasks.  Tunnels with a number are those of plays. *)
TunnelCalls == [kind : {"tunnel"}, name : Int, interface : Nat, gateway : Int]
Calls ==
  [kind : {"gateway"}, name : Int, peer : Link]
    \cup [kind : {"interface"}, name : Nat, link : Link]
    \cup {call \in TunnelCalls : call.name \in Nat =>
            call.interface = call.name + BeginTunnel /\ call.gateway = call.name + 1}
    \cup [kind : {"no tunnel", "no gateway"}, name : Int]

(* How many items of a loop were done: the links come one after the other. *)
Done == Len(wanted) - Len(todo)

(* The facts of a play are the links that were wanted when it read them.   *)
Fit(found, links) ==
  IF This \in DOMAIN found
  THEN found[This] = [public |-> links, inside |-> links]
  ELSE links = <<>>
FactsFit == Fit(facts, wanted)

(* What is left of a loop, by the number of the link.                      *)
Item(loop, i) ==
  CASE loop = "gateway" -> GatewayItem(wanted[i], i - 1)
    [] loop = "tunnel"  -> TunnelItem(wanted[i], i - 1)
    [] loop = "ipsec"   -> IpsecItem(i - 1)
Remaining ==
  /\ Done \in Nat
  /\ \A i \in 1..Len(todo) : todo[i] = Item(pc, Done + i)

(* What there is of the first n links.                                     *)
GatewaysOf(n) ==
  \A i \in 1..n : [name |-> i, peer |-> wanted[i]] \in Range(cand.gateways)
InterfacesOf(n) ==
  \A i \in 1..n : [name |-> i - 1 + BeginTunnel, link |-> wanted[i]] \in cand.interfaces
TunnelsOf(n) ==
  \A i \in 1..n : [name |-> i - 1, interface |-> i - 1 + BeginTunnel, gateway |-> i]
                    \in Range(cand.tunnels)
Made ==
  /\ pc = "gateway" => GatewaysOf(Done)
  /\ pc = "tunnel"  => GatewaysOf(Len(wanted)) /\ InterfacesOf(Done)
  /\ pc = "ipsec"   => GatewaysOf(Len(wanted)) /\ InterfacesOf(Len(wanted)) /\ TunnelsOf(Done)

(* What a play knows and did: an admin who reverts undoes it.              *)
PlayInv ==
  /\ pc \in {"state"} \cup Loops => FactsFit
  /\ pc \in Loops => Remaining
  /\ pc \in Loops /\ ~ bad /\ ~ reverted => Made
  /\ pc \in {"idle", "state"} => todo = <<>> /\ ~ bad

Neither(c, t) == Gateway[t] \notin Names(c.gateways) /\ Name[t] \notin Names(c.tunnels)
Each(c, t)    == Gateway[t] \in Names(c.gateways) /\ Name[t] \in Names(c.tunnels)
OnlyGateway(c, t) == Gateway[t] \in Names(c.gateways) /\ Name[t] \notin Names(c.tunnels)
(* What is left of a task that began with both of its objects or none, and *)
(* which of them there are.                                                *)
Progress(c, left, t) ==
  \/ left = Creation(t) /\ State[t] = "present" /\ Neither(c, t)
  \/ left = Tail(Creation(t)) /\ State[t] = "present" /\ OnlyGateway(c, t)
  \/ left = <<>> /\ State[t] = "present" /\ Each(c, t)
  \/ left = Deletion(t) /\ State[t] = "absent" /\ Each(c, t)
  \/ left = Tail(Deletion(t)) /\ State[t] = "absent" /\ OnlyGateway(c, t)
  \/ left = <<>> /\ State[t] = "absent" /\ Neither(c, t)

TaskCalls(t) == {<<>>, Creation(t), Tail(Creation(t)), Deletion(t), Tail(Deletion(t))}
TaskInv ==
  /\ pc = "config" => todo \in TaskCalls(task)
  /\ pc = "config" /\ ~ torn /\ ~ reverted => Progress(cand, todo, task)

(* The types but for the kinds of what is left of a loop (Remaining).      *)
VarsOK ==
  /\ tf \in Deployment
  /\ pc \in {"idle", "state", "config"} \cup Loops
  /\ task \in Task \cup {None} /\ (task # None <=> pc = "config")
  /\ todo \in Seq(Calls)
  /\ bad \in BOOLEAN /\ (bad => pc \in Loops)
  /\ last \in {"none", "ok", "failed"}
  /\ trouble \in 0..Trouble /\ wanted \in Seq(Link)
  /\ reverted \in BOOLEAN /\ torn \in BOOLEAN

IInv == TypeOK /\ todo \in Seq(Calls) /\ Numbered(cand) /\ Numbered(running) /\ PlayInv /\ TaskInv

-----------------------------------------------------------------------------
(* Lemmas: lists of entries with names.                                    *)

(* Induction over the naturals, for a set of them.                         *)
LEMMA Induction ==
  ASSUME NEW S \in SUBSET Nat, 0 \in S, \A n \in S : n + 1 \in S
  PROVE  S = Nat
<1> DEFINE T == Nat \ S
           R == {pair \in Nat \X Nat : pair[1] < pair[2]}
<1>1. SUFFICES ASSUME T # {} PROVE FALSE
  OBVIOUS
<1>2. IsWellFoundedOn(R, Nat)
  BY NatLessThanWellFounded, Zenon DEF OpToRel
<1>3. PICK n \in T : \A m \in T : <<m, n>> \notin R
  <2>1. T \subseteq Nat
    OBVIOUS
  <2> HIDE DEF R, T
  <2> QED BY <1>1, <1>2, <2>1, WFMin, Zenon
<1>4. n \in Nat /\ n # 0
  OBVIOUS
<1>5. n - 1 \in Nat /\ n - 1 < n
  BY <1>4
<1>6. <<n - 1, n>> \in R
  BY <1>4, <1>5
<1>7. n - 1 \in S
  BY <1>3, <1>5, <1>6
<1>8. (n - 1) + 1 \in S
  BY <1>7
<1> QED BY <1>4, <1>8

(* Put leaves one entry of each name: the new one for its own name, and    *)
(* for the others those that were there.                                   *)
LEMMA PutEntry ==
  ASSUME NEW S, NEW list \in Seq(S), NEW entry \in S, Once(list)
  PROVE  /\ Put(list, entry) \in Seq(S)
         /\ Once(Put(list, entry))
         /\ Range(Put(list, entry))
              = {e \in Range(list) : e.name # entry.name} \cup {entry}
<1> DEFINE new == Put(list, entry)
<1>1. CASE entry.name \in Names(list)
  <2>1. new = [i \in 1..Len(list) |-> IF list[i].name = entry.name THEN entry ELSE list[i]]
    BY <1>1 DEF Put
  <2>2. new \in Seq(S) /\ DOMAIN new = 1..Len(list)
    BY <2>1
  <2>3. \A i \in 1..Len(list) : new[i].name = list[i].name
    BY <2>1
  <2>4. Once(new)
    BY <2>2, <2>3 DEF Once
  <2>5. PICK k \in 1..Len(list) : list[k].name = entry.name
    BY <1>1 DEF Names
  <2>6. Range(new) = {e \in Range(list) : e.name # entry.name} \cup {entry}
    BY <2>1, <2>2, <2>5 DEF Range
  <2> QED BY <2>2, <2>4, <2>6
<1>2. CASE entry.name \notin Names(list)
  <2>1. new = Append(list, entry)
    BY <1>2 DEF Put
  <2>2. /\ new \in Seq(S) /\ DOMAIN new = 1..(Len(list) + 1)
        /\ \A i \in 1..Len(list) : new[i] = list[i]
        /\ new[Len(list) + 1] = entry
    BY <2>1
  <2>3. \A i \in 1..Len(list) : list[i].name # entry.name
    BY <1>2 DEF Names
  <2>4. Once(new)
    BY <2>2, <2>3 DEF Once
  <2>5. Range(new) = {e \in Range(list) : e.name # entry.name} \cup {entry}
    BY <2>2, <2>3 DEF Range
  <2> QED BY <2>2, <2>4, <2>5
<1> QED BY <1>1, <1>2

(* Without leaves the entries of the other names.                          *)
LEMMA WithoutEntry ==
  ASSUME NEW S, NEW list \in Seq(S), NEW n, Once(list)
  PROVE  /\ Without(list, n) \in Seq(S)
         /\ Once(Without(list, n))
         /\ Range(Without(list, n)) = {e \in Range(list) : e.name # n}
<1> DEFINE new == Without(list, n)
           I == {i \in 1..Len(list) : list[i].name = n}
<1>1. CASE \A i \in 1..Len(list) : list[i].name # n
  <2>1. new = list
    BY <1>1 DEF Without, RemoveFirstMatch
  <2> QED BY <1>1, <2>1 DEF Range
<1>2. CASE \E i \in 1..Len(list) : list[i].name = n
  <2>1. PICK k \in 1..Len(list) : list[k].name = n
    BY <1>2
  <2>2. I = {k}
    BY <2>1 DEF Once
  <2>3. Min(I) = k
    BY <2>2 DEF Min
  <2>4. new = SubSeq(list, 1, k - 1) \o SubSeq(list, k + 1, Len(list))
    BY <1>2, <2>2, <2>3 DEF Without, RemoveFirstMatch, SelectInSeq, RemoveAt
  <2>5. /\ new \in Seq(S) /\ DOMAIN new = 1..(Len(list) - 1)
        /\ \A i \in 1..(Len(list) - 1) : new[i] = IF i < k THEN list[i] ELSE list[i + 1]
    <3> DEFINE before == SubSeq(list, 1, k - 1)
               after  == SubSeq(list, k + 1, Len(list))
    <3>1. /\ before \in Seq(S) /\ Len(before) = k - 1
          /\ \A i \in 1..(k - 1) : before[i] = list[i]
      OBVIOUS
    <3>2. /\ after \in Seq(S) /\ Len(after) = Len(list) - k
          /\ \A i \in 1..(Len(list) - k) : after[i] = list[k + i]
      OBVIOUS
    <3> HIDE DEF before, after
    <3>3. /\ before \o after \in Seq(S)
          /\ Len(before \o after) = Len(list) - 1
      BY <3>1, <3>2
    <3>4. ASSUME NEW i \in 1..(Len(list) - 1)
          PROVE  (before \o after)[i] = IF i < k THEN before[i] ELSE after[i - (k - 1)]
      BY <3>1, <3>2
    <3>5. ASSUME NEW i \in 1..(Len(list) - 1), ~ i < k
          PROVE  after[i - (k - 1)] = list[i + 1]
      BY <3>2, <3>5
    <3>6. new = before \o after
      BY <2>4 DEF before, after
    <3> HIDE DEF new
    <3> QED BY <3>1, <3>3, <3>4, <3>5, <3>6
  <2>6. Once(new)
    BY <2>5 DEF Once
  <2>7. \A i \in 1..Len(list) : i # k => list[i].name # n
    BY <2>1 DEF Once
  <2>8. Range(new) = {e \in Range(list) : e.name # n}
    <3>1. ASSUME NEW i \in 1..Len(list), i # k
          PROVE  list[i] \in Range(new)
      <4>1. list[i] = new[IF i < k THEN i ELSE i - 1]
        BY <2>5, <3>1
      <4>2. (IF i < k THEN i ELSE i - 1) \in DOMAIN new
        BY <2>5, <3>1
      <4> HIDE DEF new
      <4> QED BY <4>1, <4>2 DEF Range
    <3>2. \A i \in 1..(Len(list) - 1) : new[i] \in Range(list) /\ new[i].name # n
      BY <2>5, <2>7 DEF Range
    <3>3. \A e \in Range(new) : e \in Range(list) /\ e.name # n
      BY <2>5, <3>2 DEF Range
    <3> HIDE DEF new
    <3> QED BY <2>1, <3>1, <3>3 DEF Range
  <2> QED BY <2>5, <2>6, <2>8
<1> QED BY <1>1, <1>2

(* The names are those of the entries, in whatever order.                  *)
LEMMA NamesOf ==
  ASSUME NEW list PROVE Names(list) = {e.name : e \in Range(list)}
BY DEF Names, Range

-----------------------------------------------------------------------------
(* Lemmas: what the filters make of Terraform's modules.                   *)

(* my_magic_filter goes through the modules one after the other.           *)
LEMMA FilterDefined ==
  ASSUME NEW modules \in Seq(Modules)
  PROVE  \E found :
           /\ DOMAIN found = 0..Len(modules)
           /\ found[0] = <<>>
           /\ \A n \in 1..Len(modules) : found[n] = Extend(found[n - 1], modules[n])
           /\ MagicFilter(modules) = found[Len(modules)]
<1> DEFINE L == Len(modules)
           Is(f, n) == f = [i \in 0..n |-> IF i = 0 THEN <<>> ELSE Extend(f[i - 1], modules[i])]
           S == {n \in Nat : n <= L => \E f : Is(f, n)}
<1>0. L \in Nat
  OBVIOUS
<1>1. 0 \in S
  <2>1. Is([i \in 0..0 |-> <<>>], 0)
    OBVIOUS
  <2> QED BY <2>1
<1>2. ASSUME NEW n \in S PROVE n + 1 \in S
  <2>1. SUFFICES ASSUME n + 1 <= L PROVE \E f : Is(f, n + 1)
    OBVIOUS
  <2>2. PICK f : Is(f, n)
    BY <1>0, <2>1
  <2> DEFINE g == [i \in 0..(n + 1) |-> IF i = n + 1 THEN Extend(f[n], modules[n + 1]) ELSE f[i]]
  <2>3. \A i \in 0..(n + 1) :
          g[i] = IF i = 0 THEN <<>> ELSE Extend(g[i - 1], modules[i])
    <3>1. ASSUME NEW i \in 0..n
          PROVE  g[i] = IF i = 0 THEN <<>> ELSE Extend(g[i - 1], modules[i])
      <4>1. g[i] = f[i]
        OBVIOUS
      <4>2. f[i] = IF i = 0 THEN <<>> ELSE Extend(f[i - 1], modules[i])
        BY <2>2
      <4>3. i # 0 => g[i - 1] = f[i - 1]
        OBVIOUS
      <4> QED BY <4>1, <4>2, <4>3
    <3>2. g[n + 1] = Extend(g[n], modules[n + 1]) /\ (n + 1) - 1 = n /\ n + 1 # 0
      OBVIOUS
    <3> HIDE DEF g
    <3> QED BY <3>1, <3>2
  <2>4. g = [i \in 0..(n + 1) |-> g[i]]
    OBVIOUS
  <2> HIDE DEF g
  <2>5. Is(g, n + 1)
    BY <2>3, <2>4
  <2> QED BY <2>5
<1>3. S = Nat
  <2> HIDE DEF S
  <2>1. S \in SUBSET Nat
    BY DEF S
  <2> QED BY <1>1, <1>2, <2>1, Induction
<1>4. \E f : Is(f, L)
  BY <1>0, <1>3
<1> DEFINE found == CHOOSE f : Is(f, L)
<1>5. Is(found, L)
  <2> HIDE DEF Is
  <2> QED BY <1>4
<1>6. MagicFilter(modules) = found[L]
  BY DEF MagicFilter
<1> HIDE DEF found
<1>7. /\ DOMAIN found = 0..L
      /\ found[0] = <<>>
      /\ \A n \in 1..L : found[n] = Extend(found[n - 1], modules[n])
  BY <1>0, <1>5
<1> QED BY <1>6, <1>7

(* So does LinksOf, which joins the links of the modules that count.       *)
LinksIn(m) == IF m.spoke /\ m.id = This THEN m.public ELSE <<>>

Join(links, more) == links \o more

LEMMA LinksDefined ==
  ASSUME NEW modules \in Seq(Modules)
  PROVE  \E links :
           /\ DOMAIN links = 0..Len(modules)
           /\ links[0] = <<>>
           /\ \A n \in 1..Len(modules) : links[n] = links[n - 1] \o LinksIn(modules[n])
           /\ LinksOf(modules) = links[Len(modules)]
<1> DEFINE L == Len(modules)
           seqs == [i \in DOMAIN modules |->
                      IF modules[i].spoke /\ modules[i].id = This
                      THEN modules[i].public ELSE <<>>]
           Is(f, n) == f = [i \in 1..n |-> IF i = 1 THEN seqs[i] ELSE Join(f[i - 1], seqs[i])]
           S == {n \in Nat : n <= L => \E f : Is(f, n)}
<1>0. /\ L \in Nat /\ DOMAIN modules = 1..L
      /\ \A i \in 1..L : modules[i] \in Modules
      /\ \A i \in 1..L : seqs[i] = LinksIn(modules[i]) /\ seqs[i] \in Seq(Link)
      /\ seqs \in Seq(Seq(Link)) /\ Len(seqs) = L
  <2>1. L \in Nat /\ DOMAIN modules = 1..L /\ \A i \in 1..L : modules[i] \in Modules
    OBVIOUS
  <2>2. \A i \in 1..L : seqs[i] = LinksIn(modules[i]) /\ seqs[i] \in Seq(Link)
    BY <2>1 DEF LinksIn, Modules
  <2>3. DOMAIN seqs = 1..L
    BY <2>1
  <2>4. seqs \in [1..L -> Seq(Link)]
    BY <2>1, <2>2, <2>3
  <2> HIDE DEF seqs
  <2>5. seqs \in Seq(Seq(Link)) /\ Len(seqs) = L
    BY <2>1, <2>4
  <2> QED BY <2>1, <2>2, <2>5
<1> HIDE DEF seqs
<1>1. 0 \in S
  <2>1. Is([i \in 1..0 |-> <<>>], 0)
    OBVIOUS
  <2> QED BY <2>1
<1>2. ASSUME NEW n \in S PROVE n + 1 \in S
  <2>1. SUFFICES ASSUME n + 1 <= L PROVE \E f : Is(f, n + 1)
    OBVIOUS
  <2>2. PICK f : Is(f, n)
    BY <1>0, <2>1
  <2> DEFINE g == [i \in 1..(n + 1) |->
                     IF i <= n THEN f[i]
                     ELSE IF i = 1 THEN seqs[i] ELSE Join(f[n], seqs[i])]
  <2>3. \A i \in 1..(n + 1) :
          g[i] = IF i = 1 THEN seqs[i] ELSE Join(g[i - 1], seqs[i])
    <3>1. ASSUME NEW i \in 1..n
          PROVE  g[i] = IF i = 1 THEN seqs[i] ELSE Join(g[i - 1], seqs[i])
      <4>1. g[i] = f[i]
        OBVIOUS
      <4>2. f[i] = IF i = 1 THEN seqs[i] ELSE Join(f[i - 1], seqs[i])
        BY <2>2
      <4>3. i # 1 => g[i - 1] = f[i - 1]
        OBVIOUS
      <4> QED BY <4>1, <4>2, <4>3
    <3>2. g[n + 1] = IF n + 1 = 1 THEN seqs[n + 1] ELSE Join(g[(n + 1) - 1], seqs[n + 1])
      <4>1. CASE n = 0
        BY <4>1
      <4>2. CASE n # 0
        <5>1. g[n + 1] = Join(f[n], seqs[n + 1]) /\ g[n] = f[n] /\ (n + 1) - 1 = n
          BY <4>2
        <5> HIDE DEF g
        <5> QED BY <4>2, <5>1
      <4> QED BY <4>1, <4>2
    <3>3. \A i \in 1..(n + 1) : i \in 1..n \/ i = n + 1
      OBVIOUS
    <3> HIDE DEF g, S
    <3> QED BY <3>1, <3>2, <3>3
  <2>4. g = [i \in 1..(n + 1) |-> g[i]]
    OBVIOUS
  <2> HIDE DEF g
  <2>5. Is(g, n + 1)
    BY <2>3, <2>4
  <2> QED BY <2>5
<1>3. S = Nat
  <2> HIDE DEF S
  <2>1. S \in SUBSET Nat
    BY DEF S
  <2> QED BY <1>1, <1>2, <2>1, Induction
<1>4. \E f : Is(f, L)
  <2>1. \A n \in S : n <= L => \E f : Is(f, n)
    <3> HIDE DEF Is
    <3> QED OBVIOUS
  <2> HIDE DEF S, Is
  <2> QED BY <1>0, <1>3, <2>1
<1> DEFINE flatten == CHOOSE f : Is(f, L)
<1>5. Is(flatten, L)
  <2> HIDE DEF Is
  <2> QED BY <1>4
<1>6. LinksOf(modules) = IF L = 0 THEN seqs ELSE flatten[L]
  <2>1. LinksOf(modules) = FlattenSeq(seqs)
    BY DEF LinksOf, seqs
  <2>2. Len(seqs) = L
    BY <1>0
  <2> QED BY <2>1, <2>2 DEF FlattenSeq, Join
<1>7. L = 0 => seqs = <<>>
  BY <1>0
<1> HIDE DEF flatten
<1> DEFINE links == [n \in 0..L |-> IF n = 0 THEN <<>> ELSE flatten[n]]
<1>8. \A n \in 1..L : links[n] = links[n - 1] \o seqs[n]
  <2>1. ASSUME NEW n \in 1..L
        PROVE  links[n] = links[n - 1] \o seqs[n]
    <3>1. links[n] = IF n = 1 THEN seqs[n] ELSE Join(flatten[n - 1], seqs[n])
      <4>1. links[n] = flatten[n]
        BY <1>0
      <4>2. flatten[n] = IF n = 1 THEN seqs[n] ELSE Join(flatten[n - 1], seqs[n])
        <5> HIDE DEF links
        <5> QED BY <1>5
      <4> QED BY <4>1, <4>2
    <3>2. seqs[n] \in Seq(Link)
      BY <1>0
    <3>3. n = 1 => links[n - 1] = <<>>
      BY <1>0
    <3>4. n # 1 => links[n - 1] = flatten[n - 1]
      BY <1>0
    <3>5. <<>> \o seqs[n] = seqs[n]
      BY <3>2
    <3> HIDE DEF links
    <3> QED BY <3>1, <3>3, <3>4, <3>5 DEF Join
  <2> QED BY <2>1
<1>9. links[0] = <<>> /\ DOMAIN links = 0..L /\ LinksOf(modules) = links[L]
  BY <1>0, <1>6, <1>7
<1>10. \A n \in 1..L : seqs[n] = LinksIn(modules[n])
  BY <1>0
<1> HIDE DEF links
<1> QED BY <1>8, <1>9, <1>10

(* One module: of this firewall the lists grow alike, of others they stay. *)
LEMMA ExtendFits ==
  ASSUME NEW found, NEW links \in Seq(Link), Fit(found, links),
         NEW m \in Modules, m.public = m.inside
  PROVE  links \o LinksIn(m) \in Seq(Link) /\ Fit(Extend(found, m), links \o LinksIn(m))
<1>1. m.public \in Seq(Link)
  BY DEF Modules
<1>2. LinksIn(m) \in Seq(Link) /\ links \o LinksIn(m) \in Seq(Link)
  BY <1>1 DEF LinksIn
<1>3. <<>> \o m.public = m.public /\ links \o <<>> = links
  BY <1>1
<1>4. CASE ~ m.spoke
  BY <1>2, <1>3, <1>4 DEF LinksIn, Extend
<1>5. CASE m.spoke /\ m.id # This
  <2>1. links \o LinksIn(m) = links
    BY <1>3, <1>5 DEF LinksIn
  <2>2. This \in DOMAIN Extend(found, m) <=> This \in DOMAIN found
    BY <1>5 DEF Extend
  <2>3. This \in DOMAIN found => Extend(found, m)[This] = found[This]
    BY <1>5 DEF Extend
  <2> QED BY <1>2, <2>1, <2>2, <2>3 DEF Fit
<1>6. CASE m.spoke /\ m.id = This
  <2>1. LinksIn(m) = m.public
    BY <1>6 DEF LinksIn
  <2>2. CASE This \notin DOMAIN found
    <3>1. links = <<>>
      BY <2>2 DEF Fit
    <3>2. This \in DOMAIN Extend(found, m)
          /\ Extend(found, m)[This] = [public |-> m.public, inside |-> m.inside]
      BY <1>6, <2>2 DEF Extend
    <3> QED BY <1>2, <1>3, <2>1, <3>1, <3>2 DEF Fit
  <2>3. CASE This \in DOMAIN found
    <3>1. found[This] = [public |-> links, inside |-> links]
      BY <2>3 DEF Fit
    <3>2. Extend(found, m) = [found EXCEPT ![This] = [public |-> links \o m.public,
                                                      inside |-> links \o m.inside]]
      BY <1>6, <2>3, <3>1 DEF Extend
    <3>3. This \in DOMAIN Extend(found, m)
          /\ Extend(found, m)[This] = [public |-> links \o m.public,
                                       inside |-> links \o m.public]
      BY <2>3, <3>2
    <3> QED BY <1>2, <2>1, <3>3 DEF Fit
  <2> QED BY <2>2, <2>3
<1> QED BY <1>4, <1>5, <1>6 DEF Modules

(* So the play reads for this firewall just the links that are there.      *)
LEMMA Filters ==
  ASSUME NEW modules \in Deployment
  PROVE  LinksOf(modules) \in Seq(Link) /\ Fit(MagicFilter(modules), LinksOf(modules))
<1> DEFINE L == Len(modules)
<1>1. modules \in Seq(Modules) /\ \A n \in 1..L : modules[n].public = modules[n].inside
  BY SpokeVpnAssumption
<1>2. PICK found :
        /\ found[0] = <<>>
        /\ \A n \in 1..L : found[n] = Extend(found[n - 1], modules[n])
        /\ MagicFilter(modules) = found[L]
  BY <1>1, FilterDefined
<1>3. PICK links :
        /\ links[0] = <<>>
        /\ \A n \in 1..L : links[n] = links[n - 1] \o LinksIn(modules[n])
        /\ LinksOf(modules) = links[L]
  BY <1>1, LinksDefined
<1> DEFINE P(n) == links[n] \in Seq(Link) /\ Fit(found[n], links[n])
           S == {n \in Nat : n <= L => P(n)}
<1>4. L \in Nat /\ \A n \in 1..L : modules[n] \in Modules
  BY <1>1
<1>5. 0 \in S
  <2>1. P(0)
    BY <1>2, <1>3 DEF Fit
  <2> HIDE DEF P
  <2> QED BY <2>1
<1>6. ASSUME NEW n \in Nat, n + 1 <= L, P(n) PROVE P(n + 1)
  <2>1. n + 1 \in 1..L /\ (n + 1) - 1 = n
    BY <1>4, <1>6
  <2>2. /\ found[n + 1] = Extend(found[n], modules[n + 1])
        /\ links[n + 1] = links[n] \o LinksIn(modules[n + 1])
        /\ modules[n + 1] \in Modules /\ modules[n + 1].public = modules[n + 1].inside
    BY <1>1, <1>2, <1>3, <1>4, <2>1
  <2> QED BY <1>6, <2>2, ExtendFits
<1>7. S = Nat
  <2> HIDE DEF P
  <2>1. \A n \in S : n + 1 \in S
    BY <1>4, <1>6
  <2>2. S \in SUBSET Nat
    OBVIOUS
  <2> HIDE DEF S
  <2> QED BY <1>5, <2>1, <2>2, Induction
<1>8. P(L)
  <2> HIDE DEF P
  <2>1. \A n \in S : n <= L => P(n)
    OBVIOUS
  <2> HIDE DEF S
  <2> QED BY <1>4, <1>7, <2>1
<1> QED BY <1>2, <1>3, <1>8

-----------------------------------------------------------------------------
(* Lemmas: the calls.                                                      *)

Besides(list, n) == {e \in list : e.name # n}

(* What a call changes, and that the configuration remains one.            *)
LEMMA EditEffect ==
  ASSUME NEW c, Configuration(c), NEW call \in Calls
  PROVE  /\ Configuration(Edit(c, call))
         /\ Range(Edit(c, call).gateways) =
              IF call.kind = "gateway"
              THEN Besides(Range(c.gateways), call.name)
                     \cup {[name |-> call.name, peer |-> call.peer]}
              ELSE IF call.kind = "no gateway"
              THEN Besides(Range(c.gateways), call.name)
              ELSE Range(c.gateways)
         /\ Edit(c, call).interfaces =
              IF call.kind = "interface"
              THEN Besides(c.interfaces, call.name)
                     \cup {[name |-> call.name, link |-> call.link]}
              ELSE c.interfaces
         /\ Range(Edit(c, call).tunnels) =
              IF call.kind = "tunnel"
              THEN Besides(Range(c.tunnels), call.name)
                     \cup {[name |-> call.name, interface |-> call.interface,
                            gateway |-> call.gateway]}
              ELSE IF call.kind = "no tunnel"
              THEN Besides(Range(c.tunnels), call.name)
              ELSE Range(c.tunnels)
<1> DEFINE d == Edit(c, call)
<1>0. /\ c.gateways \in Seq(Gateways) /\ c.interfaces \subseteq Interfaces
      /\ c.tunnels \in Seq(Tunnels) /\ Once(c.gateways) /\ Once(c.tunnels)
      /\ \A e, f \in c.interfaces : e.name = f.name => e = f
      /\ c \in [gateways : Seq(Gateways), interfaces : SUBSET Interfaces, tunnels : Seq(Tunnels)]
  BY DEF Configuration, Gateways, Interfaces, Tunnels
<1>1. CASE call.kind = "gateway"
  <2> DEFINE e == [name |-> call.name, peer |-> call.peer]
             new == Put(c.gateways, e)
  <2>1. e \in Gateways /\ e.name = call.name
    BY <1>1 DEF Calls, TunnelCalls, Gateways
  <2>2. /\ new \in Seq(Gateways) /\ Once(new)
        /\ Range(new) = Besides(Range(c.gateways), call.name) \cup {e}
    BY <1>0, <2>1, PutEntry DEF Besides
  <2>3. d = [c EXCEPT !.gateways = new]
    BY <1>1 DEF Edit
  <2> HIDE DEF new, e
  <2>4. d.gateways = new /\ d.interfaces = c.interfaces /\ d.tunnels = c.tunnels
        /\ d \in [gateways : Seq(Gateways), interfaces : SUBSET Interfaces, tunnels : Seq(Tunnels)]
    BY <1>0, <2>2, <2>3
  <2> HIDE DEF d
  <2>5. Configuration(d)
    BY <1>0, <2>2, <2>4 DEF Configuration, Gateways, Interfaces, Tunnels
  <2> QED BY <1>1, <2>2, <2>4, <2>5 DEF d, e
<1>2. CASE call.kind = "interface"
  <2> DEFINE e == [name |-> call.name, link |-> call.link]
             new == Besides(c.interfaces, call.name) \cup {e}
  <2>1. e \in Interfaces /\ e.name = call.name
    BY <1>2 DEF Calls, TunnelCalls, Interfaces
  <2>2. /\ new \subseteq Interfaces
        /\ \A f, g \in new : f.name = g.name => f = g
    BY <1>0, <2>1 DEF Besides
  <2>3. d = [c EXCEPT !.interfaces = new]
    <3>1. new = {f \in c.interfaces : f.name # call.name} \cup {e}
      BY DEF Besides
    <3> HIDE DEF new
    <3> QED BY <1>2, <3>1 DEF Edit
  <2> HIDE DEF new
  <2>4. d.gateways = c.gateways /\ d.interfaces = new /\ d.tunnels = c.tunnels
        /\ d \in [gateways : Seq(Gateways), interfaces : SUBSET Interfaces, tunnels : Seq(Tunnels)]
    BY <1>0, <2>2, <2>3
  <2> HIDE DEF d
  <2>5. Configuration(d)
    BY <1>0, <2>2, <2>4 DEF Configuration, Gateways, Interfaces, Tunnels
  <2> QED BY <1>2, <2>4, <2>5 DEF d, new
<1>3. CASE call.kind = "tunnel"
  <2> DEFINE e == [name |-> call.name, interface |-> call.interface, gateway |-> call.gateway]
             new == Put(c.tunnels, e)
  <2>1. e \in Tunnels /\ e.name = call.name
    BY <1>3 DEF Calls, TunnelCalls, Tunnels
  <2>2. /\ new \in Seq(Tunnels) /\ Once(new)
        /\ Range(new) = Besides(Range(c.tunnels), call.name) \cup {e}
    BY <1>0, <2>1, PutEntry DEF Besides
  <2>3. d = [c EXCEPT !.tunnels = new]
    BY <1>3 DEF Edit
  <2> HIDE DEF new, e
  <2>4. d.gateways = c.gateways /\ d.interfaces = c.interfaces /\ d.tunnels = new
        /\ d \in [gateways : Seq(Gateways), interfaces : SUBSET Interfaces, tunnels : Seq(Tunnels)]
    BY <1>0, <2>2, <2>3
  <2> HIDE DEF d
  <2>5. Configuration(d)
    BY <1>0, <2>2, <2>4 DEF Configuration, Gateways, Interfaces, Tunnels
  <2> QED BY <1>3, <2>2, <2>4, <2>5 DEF d, e
<1>4. CASE call.kind = "no tunnel"
  <2> DEFINE new == Without(c.tunnels, call.name)
  <2>2. /\ new \in Seq(Tunnels) /\ Once(new)
        /\ Range(new) = Besides(Range(c.tunnels), call.name)
    BY <1>0, WithoutEntry DEF Besides
  <2>3. d = [c EXCEPT !.tunnels = new]
    BY <1>4 DEF Edit
  <2> HIDE DEF new
  <2>4. d.gateways = c.gateways /\ d.interfaces = c.interfaces /\ d.tunnels = new
        /\ d \in [gateways : Seq(Gateways), interfaces : SUBSET Interfaces, tunnels : Seq(Tunnels)]
    BY <1>0, <2>2, <2>3
  <2> HIDE DEF d
  <2>5. Configuration(d)
    BY <1>0, <2>2, <2>4 DEF Configuration, Gateways, Interfaces, Tunnels
  <2> QED BY <1>4, <2>2, <2>4, <2>5 DEF d
<1>5. CASE call.kind = "no gateway"
  <2> DEFINE new == Without(c.gateways, call.name)
  <2>2. /\ new \in Seq(Gateways) /\ Once(new)
        /\ Range(new) = Besides(Range(c.gateways), call.name)
    BY <1>0, WithoutEntry DEF Besides
  <2>3. d = [c EXCEPT !.gateways = new]
    BY <1>5 DEF Edit
  <2> HIDE DEF new
  <2>4. d.gateways = new /\ d.interfaces = c.interfaces /\ d.tunnels = c.tunnels
        /\ d \in [gateways : Seq(Gateways), interfaces : SUBSET Interfaces, tunnels : Seq(Tunnels)]
    BY <1>0, <2>2, <2>3
  <2> HIDE DEF d
  <2>5. Configuration(d)
    BY <1>0, <2>2, <2>4 DEF Configuration, Gateways, Interfaces, Tunnels
  <2> QED BY <1>5, <2>2, <2>4, <2>5 DEF d
<1>6. call.kind \in {"gateway", "interface", "tunnel", "no tunnel", "no gateway"}
  BY DEF Calls, TunnelCalls
<1> QED BY <1>1, <1>2, <1>3, <1>4, <1>5, <1>6

(* A call keeps the numbers.                                               *)
LEMMA EditNumbered ==
  ASSUME NEW c, Configuration(c), Numbered(c), NEW call \in Calls
  PROVE  Numbered(Edit(c, call))
<1>1. SUFFICES ASSUME NEW tunnel \in Range(Edit(c, call).tunnels), tunnel.name \in Nat
               PROVE  tunnel.interface = tunnel.name + BeginTunnel
                      /\ tunnel.gateway = tunnel.name + 1
  BY DEF Numbered
<1>2. CASE tunnel \in Range(c.tunnels)
  BY <1>1, <1>2 DEF Numbered
<1>3. CASE tunnel \notin Range(c.tunnels)
  <2>1. call.kind = "tunnel" /\ tunnel = [name |-> call.name, interface |-> call.interface,
                                          gateway |-> call.gateway]
    BY <1>1, <1>3, EditEffect DEF Besides
  <2> QED BY <1>1, <2>1 DEF Calls, TunnelCalls
<1> QED BY <1>2, <1>3

(* And what it does to the names.                                          *)
LEMMA EditNames ==
  ASSUME NEW c, Configuration(c), NEW call \in Calls
  PROVE  /\ Names(Edit(c, call).gateways) =
              IF call.kind = "gateway" THEN Names(c.gateways) \cup {call.name}
              ELSE IF call.kind = "no gateway" THEN Names(c.gateways) \ {call.name}
              ELSE Names(c.gateways)
         /\ Names(Edit(c, call).tunnels) =
              IF call.kind = "tunnel" THEN Names(c.tunnels) \cup {call.name}
              ELSE IF call.kind = "no tunnel" THEN Names(c.tunnels) \ {call.name}
              ELSE Names(c.tunnels)
<1>1. ASSUME NEW list, NEW n PROVE {e.name : e \in Besides(list, n)} = {e.name : e \in list} \ {n}
  BY DEF Besides
<1>2. /\ [name |-> call.name, peer |-> call.peer].name = call.name
      /\ [name |-> call.name, interface |-> call.interface, gateway |-> call.gateway].name
           = call.name
  OBVIOUS
<1>3. ASSUME NEW list, NEW e PROVE {f.name : f \in list \cup {e}} = {f.name : f \in list} \cup {e.name}
  OBVIOUS
<1>4. Names(Edit(c, call).gateways) = {e.name : e \in Range(Edit(c, call).gateways)}
      /\ Names(Edit(c, call).tunnels) = {e.name : e \in Range(Edit(c, call).tunnels)}
      /\ Names(c.gateways) = {e.name : e \in Range(c.gateways)}
      /\ Names(c.tunnels) = {e.name : e \in Range(c.tunnels)}
  BY NamesOf
<1>5. ASSUME NEW S PROVE (S \ {call.name}) \cup {call.name} = S \cup {call.name}
  OBVIOUS
<1> DEFINE d == Edit(c, call)
<1> HIDE DEF d
<1>6. Names(d.gateways) =
        IF call.kind = "gateway" THEN Names(c.gateways) \cup {call.name}
        ELSE IF call.kind = "no gateway" THEN Names(c.gateways) \ {call.name}
        ELSE Names(c.gateways)
  <2> DEFINE e == [name |-> call.name, peer |-> call.peer]
  <2>1. Range(d.gateways) = IF call.kind = "gateway"
                            THEN Besides(Range(c.gateways), call.name) \cup {e}
                            ELSE IF call.kind = "no gateway"
                            THEN Besides(Range(c.gateways), call.name)
                            ELSE Range(c.gateways)
    BY EditEffect DEF d
  <2>2. e.name = call.name
    OBVIOUS
  <2>3. Names(d.gateways) = {f.name : f \in Range(d.gateways)}
    BY <1>4 DEF d
  <2> HIDE DEF e
  <2>4. CASE call.kind = "gateway"
    <3>1. Range(d.gateways) = Besides(Range(c.gateways), call.name) \cup {e}
      BY <2>1, <2>4
    <3>2. Names(d.gateways) = {f.name : f \in Besides(Range(c.gateways), call.name)} \cup {e.name}
      BY <1>3, <2>3, <3>1
    <3>3. Names(d.gateways) = (Names(c.gateways) \ {call.name}) \cup {call.name}
      BY <1>1, <1>4, <2>2, <3>2
    <3> QED BY <1>5, <2>4, <3>3
  <2>5. CASE call.kind = "no gateway"
    <3>1. Range(d.gateways) = Besides(Range(c.gateways), call.name)
      BY <2>1, <2>5
    <3> QED BY <1>1, <1>4, <2>3, <2>5, <3>1
  <2>6. CASE call.kind \notin {"gateway", "no gateway"}
    BY <1>4, <2>1, <2>3, <2>6
  <2> QED BY <2>4, <2>5, <2>6
<1>7. Names(d.tunnels) =
        IF call.kind = "tunnel" THEN Names(c.tunnels) \cup {call.name}
        ELSE IF call.kind = "no tunnel" THEN Names(c.tunnels) \ {call.name}
        ELSE Names(c.tunnels)
  <2> DEFINE e == [name |-> call.name, interface |-> call.interface, gateway |-> call.gateway]
  <2>1. Range(d.tunnels) = IF call.kind = "tunnel"
                           THEN Besides(Range(c.tunnels), call.name) \cup {e}
                           ELSE IF call.kind = "no tunnel"
                           THEN Besides(Range(c.tunnels), call.name)
                           ELSE Range(c.tunnels)
    BY EditEffect DEF d
  <2>2. e.name = call.name
    OBVIOUS
  <2>3. Names(d.tunnels) = {f.name : f \in Range(d.tunnels)}
    BY <1>4 DEF d
  <2> HIDE DEF e
  <2>4. CASE call.kind = "tunnel"
    <3>1. Range(d.tunnels) = Besides(Range(c.tunnels), call.name) \cup {e}
      BY <2>1, <2>4
    <3>2. Names(d.tunnels) = {f.name : f \in Besides(Range(c.tunnels), call.name)} \cup {e.name}
      BY <1>3, <2>3, <3>1
    <3>3. Names(d.tunnels) = (Names(c.tunnels) \ {call.name}) \cup {call.name}
      BY <1>1, <1>4, <2>2, <3>2
    <3> QED BY <1>5, <2>4, <3>3
  <2>5. CASE call.kind = "no tunnel"
    <3>1. Range(d.tunnels) = Besides(Range(c.tunnels), call.name)
      BY <2>1, <2>5
    <3> QED BY <1>1, <1>4, <2>3, <2>5, <3>1
  <2>6. CASE call.kind \notin {"tunnel", "no tunnel"}
    BY <1>4, <2>1, <2>3, <2>6
  <2> QED BY <2>4, <2>5, <2>6
<1> QED BY <1>6, <1>7 DEF d

(* collate_filter makes an item for every link, one after the other.       *)
LEMMA CollateItems ==
  ASSUME FactsFit, wanted \in Seq(Link), NEW next \in Loops
  PROVE  /\ Collate(next) \in Seq(Calls)
         /\ Len(Collate(next)) = Len(wanted)
         /\ \A i \in 1..Len(wanted) : Collate(next)[i] = Item(next, i)
<1> DEFINE L == Len(wanted)
           items == [i \in 1..L |-> Item(next, i)]
<1>1. L \in Nat /\ DOMAIN wanted = 1..L /\ \A i \in 1..L : wanted[i] \in Link
  OBVIOUS
<1>2. \A i \in 1..L : Item(next, i) \in Calls
  <2>1. ASSUME NEW i \in 1..L PROVE Item(next, i) \in Calls
    <3>1. BeginTunnel \in Nat /\ BeginIpsec = BeginTunnel /\ wanted[i] \in Link
      BY <1>1, SpokeVpnAssumption
    <3>2. /\ i - 1 \in Nat /\ (i - 1) + 1 \in Nat /\ i - 1 \in Int /\ (i - 1) + 1 \in Int
          /\ (i - 1) + BeginTunnel \in Nat
      BY <1>1, <3>1
    <3>3. CASE next = "gateway"
      BY <3>1, <3>2, <3>3 DEF Item, GatewayItem, Calls
    <3>4. CASE next = "tunnel"
      <4>1. Item(next, i) = [kind |-> "interface", name |-> (i - 1) + BeginTunnel,
                             link |-> wanted[i]]
        BY <3>4 DEF Item, TunnelItem
      <4>2. Item(next, i) \in [kind : {"interface"}, name : Nat, link : Link]
        BY <3>1, <3>2, <4>1
      <4> QED BY <4>2 DEF Calls
    <3>5. CASE next = "ipsec"
      <4>1. Item(next, i) = [kind |-> "tunnel", name |-> i - 1,
                             interface |-> i - 1 + BeginTunnel, gateway |-> (i - 1) + 1]
        BY <3>1, <3>5 DEF Item, IpsecItem
      <4>2. Item(next, i) \in TunnelCalls
        BY <3>1, <3>2, <4>1 DEF TunnelCalls
      <4>3. /\ Item(next, i).interface = Item(next, i).name + BeginTunnel
            /\ Item(next, i).gateway = Item(next, i).name + 1
        BY <4>1
      <4> QED BY <4>2, <4>3 DEF Calls
    <3> QED BY <3>3, <3>4, <3>5 DEF Loops
  <2> QED BY <2>1
<1>3. Collate(next) = items
  <2>1. CASE This \notin DOMAIN facts
    <3>1. wanted = <<>>
      BY <2>1 DEF FactsFit, Fit
    <3>2. items = <<>>
      <4>1. L = 0
        BY <3>1
      <4> HIDE DEF L
      <4> QED BY <4>1
    <3> QED BY <2>1, <3>2 DEF Collate, CollateFrom
  <2>2. CASE This \in DOMAIN facts
    <3>1. facts[This].public = wanted /\ facts[This].inside = wanted
      BY <2>2 DEF FactsFit, Fit
    <3>2. CASE next = "gateway"
      BY <1>1, <2>2, <3>1, <3>2 DEF Collate, CollateFrom, Item
    <3>3. CASE next = "tunnel"
      BY <1>1, <2>2, <3>1, <3>3 DEF Collate, CollateFrom, Item
    <3>4. CASE next = "ipsec"
      BY <1>1, <2>2, <3>1, <3>4 DEF Collate, CollateFrom, Item
    <3> QED BY <3>2, <3>3, <3>4 DEF Loops
  <2> QED BY <2>1, <2>2
<1> QED BY <1>1, <1>2, <1>3

(* The first of the calls that are left, and the others.                   *)
LEMMA TodoCalls ==
  ASSUME todo \in Seq(Calls), todo # <<>>
  PROVE  /\ Head(todo) \in Calls /\ Head(todo) = todo[1]
         /\ Tail(todo) \in Seq(Calls) /\ Len(Tail(todo)) = Len(todo) - 1
         /\ Len(todo) \in Nat \ {0} /\ DOMAIN todo = 1..Len(todo)
         /\ \A i \in 1..(Len(todo) - 1) : Tail(todo)[i] = todo[i + 1]
OBVIOUS

(* How the configurations change in a step.                                *)
Changed == todo # <<>> /\ cand' = Edit(cand, Head(todo))
LEMMA DeviceSteps ==
  ASSUME [Next]_vars
  PROVE  cand' \in {cand, running} \/ Changed
BY DEF Next, Step, Others, vars, device, run, history, ReadState, NextLoop, BeginGateways,
       BeginTunnels, BeginIpsecs, LoopFailed, CommitTheChanges, CommitFails, TaskEnds, Call,
       CommitRejected, CallFails, CallLost, Terraform, AdminCommits, AdminReverts, StartTask,
       Raise, Changed

LEMMA RunningSteps ==
  ASSUME [Next]_vars
  PROVE  running' \in {running, cand} \/ running' = cand'
BY DEF Next, Step, Others, vars, device, run, history, ReadState, NextLoop, BeginGateways,
       BeginTunnels, BeginIpsecs, LoopFailed, CommitTheChanges, CommitFails, TaskEnds, Call,
       CommitRejected, CallFails, CallLost, Terraform, AdminCommits, AdminReverts, StartTask,
       Raise

LEMMA DeviceInv ==
  ASSUME IInv, [Next]_vars
  PROVE  /\ Configuration(cand') /\ Numbered(cand')
         /\ Configuration(running') /\ Numbered(running')
<1>1. /\ Configuration(cand) /\ Numbered(cand) /\ Configuration(running) /\ Numbered(running)
      /\ todo \in Seq(Calls)
  BY DEF IInv, TypeOK
<1>2. Configuration(cand') /\ Numbered(cand')
  <2>1. CASE Changed
    BY <1>1, <2>1, TodoCalls, EditEffect, EditNumbered DEF Changed
  <2>2. CASE cand' \in {cand, running}
    BY <1>1, <2>2
  <2> QED BY <2>1, <2>2, DeviceSteps
<1> QED BY <1>1, <1>2, RunningSteps

(* The calls of a task.                                                    *)
LEMMA TaskCallsOK ==
  ASSUME NEW t \in Task
  PROVE  /\ Creation(t) \in Seq(Calls) /\ Creation(t) # <<>>
         /\ Head(Creation(t)) = [kind |-> "gateway", name |-> Gateway[t], peer |-> Peer[t]]
         /\ Tail(Creation(t)) = <<[kind |-> "tunnel", name |-> Name[t],
                                   interface |-> Number[t], gateway |-> Gateway[t]]>>
         /\ Deletion(t) \in Seq(Calls) /\ Deletion(t) # <<>>
         /\ Head(Deletion(t)) = [kind |-> "no tunnel", name |-> Name[t]]
         /\ Tail(Deletion(t)) = <<[kind |-> "no gateway", name |-> Gateway[t]]>>
<1>1. /\ Name[t] \in Int \ Nat /\ Gateway[t] \in Int \ Nat
      /\ Peer[t] \in Link /\ Number[t] \in Nat
  BY SpokeVpnAssumption
<1> DEFINE a == [kind |-> "gateway", name |-> Gateway[t], peer |-> Peer[t]]
           b == [kind |-> "tunnel", name |-> Name[t], interface |-> Number[t],
                 gateway |-> Gateway[t]]
           d == [kind |-> "no tunnel", name |-> Name[t]]
           e == [kind |-> "no gateway", name |-> Gateway[t]]
<1>2. a \in Calls /\ d \in Calls /\ e \in Calls
  BY <1>1 DEF Calls
<1>3. b \in Calls
  <2>1. b \in TunnelCalls /\ b.name \notin Nat
    BY <1>1 DEF TunnelCalls
  <2> QED BY <2>1 DEF Calls
<1>4. Creation(t) = <<a, b>> /\ Deletion(t) = <<d, e>>
  BY DEF Creation, Deletion
<1> HIDE DEF a, b, d, e
<1>5. /\ Creation(t) \in Seq(Calls) /\ Creation(t) # <<>>
      /\ Head(Creation(t)) = a /\ Tail(Creation(t)) = <<b>>
      /\ Deletion(t) \in Seq(Calls) /\ Deletion(t) # <<>>
      /\ Head(Deletion(t)) = d /\ Tail(Deletion(t)) = <<e>>
  BY <1>2, <1>3, <1>4
<1> QED BY <1>5 DEF a, b, d, e

LEMMA VarsInv ==
  ASSUME IInv, [Next]_vars
  PROVE  VarsOK'
<1>0. /\ VarsOK
      /\ pc \in {"idle", "state"} => todo = <<>> /\ ~ bad
      /\ pc \in {"state"} \cup Loops => FactsFit
  BY DEF IInv, TypeOK, VarsOK, PlayInv
<1> USE <1>0 DEF VarsOK
<1>1. CASE UNCHANGED vars
  BY <1>1 DEF vars, device, run, history
<1>2. CASE ReadState
  <2>1. LinksOf(tf) \in Seq(Link)
    BY Filters
  <2> QED BY <1>2, <2>1 DEF ReadState, device, Loops, history
<1>3. ASSUME NEW next \in Loops, NextLoop(next), pc \in {"state"} \cup Loops
      PROVE  VarsOK'
  <2>1. todo' \in Seq(Calls)
    BY <1>3, CollateItems DEF NextLoop
  <2> QED BY <1>3, <2>1 DEF NextLoop, device, history, Loops
<1>4. CASE BeginGateways \/ BeginTunnels \/ BeginIpsecs
  BY <1>3, <1>4 DEF BeginGateways, BeginTunnels, BeginIpsecs, Loops
<1>5. ASSUME NEW how \in {"ok", "failed"}, End(how), tf' = tf, trouble' \in 0..Trouble
      PROVE  VarsOK'
  <2>1. <<>> \in Seq(Calls) /\ <<>> \in Seq(Link)
    OBVIOUS
  <2>2. /\ pc' = "idle" /\ task' = None /\ todo' = <<>> /\ bad' = FALSE
        /\ last' = how /\ wanted' = <<>> /\ reverted' = FALSE /\ torn' = FALSE
    BY <1>5 DEF End
  <2> QED BY <1>5, <2>1, <2>2
<1>6. ASSUME NEW what, NEW kinds, Wrong(what, kinds) PROVE trouble' \in 0..Trouble
  BY <1>6, SpokeVpnAssumption DEF Wrong
<1>7. CASE LoopFailed \/ CommitTheChanges \/ CommitFails \/ TaskEnds
  <2>1. tf' = tf
    BY <1>7 DEF LoopFailed, CommitTheChanges, CommitFails, TaskEnds
  <2>2. trouble' \in 0..Trouble
    BY <1>6, <1>7 DEF LoopFailed, CommitTheChanges, CommitFails, TaskEnds
  <2>3. End("ok") \/ End("failed")
    BY <1>7 DEF LoopFailed, CommitTheChanges, CommitFails, TaskEnds
  <2> QED BY <1>5, <2>1, <2>2, <2>3
<1>8. CASE Call \/ CommitRejected
  <2>1. todo # <<>> /\ GoOn /\ tf' = tf
    BY <1>8 DEF Call, CommitRejected
  <2>2. trouble' \in 0..Trouble
    BY <1>6, <1>8 DEF Call, CommitRejected
  <2>3. todo' \in Seq(Calls)
    BY <2>1, TodoCalls DEF GoOn
  <2> QED BY <2>1, <2>2, <2>3 DEF GoOn, history
<1>9. CASE CallFails \/ CallLost
  <2>1. todo # <<>> /\ Fails /\ tf' = tf
    BY <1>9 DEF CallFails, CallLost
  <2>2. trouble' \in 0..Trouble
    BY <1>6, <1>9 DEF CallFails, CallLost
  <2>3. CASE pc = "config"
    BY <1>5, <2>1, <2>2, <2>3 DEF Fails
  <2>4. CASE pc # "config"
    <3>1. todo' \in Seq(Calls)
      BY <2>1, <2>4, TodoCalls DEF Fails
    <3>2. pc \in Loops
      BY <2>1, <2>4
    <3> QED BY <2>1, <2>2, <2>4, <3>1, <3>2 DEF Fails, history
  <2> QED BY <2>3, <2>4
<1>10. CASE Terraform \/ AdminCommits \/ AdminReverts
  <2>1. tf' \in Deployment
    BY <1>10 DEF Terraform, AdminCommits, AdminReverts
  <2>2. trouble' \in 0..Trouble
    BY <1>6, <1>10 DEF Terraform, AdminCommits, AdminReverts
  <2>3. UNCHANGED run
    BY <1>10 DEF Terraform, AdminCommits, AdminReverts
  <2>4. reverted' \in BOOLEAN /\ torn' \in BOOLEAN
    BY <1>10 DEF Terraform, AdminCommits, AdminReverts, history
  <2> QED BY <2>1, <2>2, <2>3, <2>4 DEF run
<1>11. ASSUME NEW t \in Task, StartTask(t) PROVE VarsOK'
  <2>1. Creation(t) \in Seq(Calls) /\ Deletion(t) \in Seq(Calls)
    BY TaskCallsOK
  <2>2. todo' \in Seq(Calls)
    BY <1>11, <2>1 DEF StartTask
  <2>3. t # None
    BY SpokeVpnAssumption
  <2> QED BY <1>11, <2>2, <2>3 DEF StartTask, history
<1>12. ASSUME NEW t \in Task, Raise(t) PROVE VarsOK'
  BY <1>12 DEF Raise, history
<1> QED BY <1>1, <1>2, <1>4, <1>7, <1>8, <1>9, <1>10, <1>11, <1>12 DEF Next, Step, Others

-----------------------------------------------------------------------------
(* Lemmas: what a play knows and did.                                      *)

(* One item of a loop less.                                                *)
LEMMA RemainingTail ==
  ASSUME VarsOK, Remaining, todo # <<>>,
         todo' = Tail(todo), pc' = pc, wanted' = wanted
  PROVE  /\ Remaining' /\ Done' = Done + 1
         /\ Done + 1 \in 1..Len(wanted) /\ Head(todo) = Item(pc, Done + 1)
<1>1. /\ Head(todo) = todo[1] /\ Len(todo') = Len(todo) - 1
      /\ Len(todo) \in Nat \ {0}
      /\ \A i \in 1..(Len(todo) - 1) : todo'[i] = todo[i + 1]
  BY TodoCalls DEF VarsOK
<1>2. Len(wanted) \in Nat /\ Done \in Nat /\ Done = Len(wanted) - Len(todo)
  BY DEF VarsOK, Remaining, Done
<1>3. Done' = Done + 1 /\ Done + 1 \in 1..Len(wanted) /\ Done' \in Nat
  BY <1>1, <1>2 DEF Done
<1>4. Head(todo) = Item(pc, Done + 1)
  BY <1>1 DEF Remaining
<1>5. \A i \in 1..Len(todo') : todo'[i] = Item(pc, Done' + i)
  <2>1. ASSUME NEW i \in 1..Len(todo') PROVE todo'[i] = Item(pc, Done' + i)
    <3>1. i \in 1..(Len(todo) - 1) /\ i + 1 \in 1..Len(todo) /\ Done + (i + 1) = Done' + i
      BY <1>1, <1>2, <1>3
    <3>2. todo[i + 1] = Item(pc, Done + (i + 1))
      BY <3>1 DEF Remaining
    <3> QED BY <1>1, <3>1, <3>2
  <2> QED BY <2>1
<1>6. \A i \in Int : Item(pc, i)' = Item(pc, i)
  BY DEF Item
<1>7. \A i \in 1..Len(todo') : Done' + i \in Int
  BY <1>1, <1>3
<1>8. Remaining'
  BY <1>3, <1>5, <1>6, <1>7 DEF Remaining
<1> QED BY <1>3, <1>4, <1>8

(* An item that is done makes what belongs to its link, and undoes nothing *)
(* of the links before.                                                    *)
LEMMA ItemMakes ==
  ASSUME VarsOK, Configuration(cand), pc \in Loops, Remaining, Made, todo # <<>>,
         cand' = Edit(cand, Head(todo)), todo' = Tail(todo), pc' = pc, wanted' = wanted
  PROVE  Made'
<1> DEFINE k == Done + 1
<1>1. /\ Done' = k /\ k \in 1..Len(wanted) /\ Head(todo) = Item(pc, k) /\ Head(todo) \in Calls
  BY RemainingTail, TodoCalls DEF VarsOK
<1>2. k \in Nat \ {0} /\ Done = k - 1 /\ Len(wanted) \in Nat /\ BeginTunnel \in Nat
      /\ BeginIpsec = BeginTunnel
  BY <1>1, SpokeVpnAssumption DEF VarsOK, Remaining
<1> HIDE DEF k
<1>3. CASE pc = "gateway"
  <2>1. Head(todo) = [kind |-> "gateway", name |-> k, peer |-> wanted[k]]
    BY <1>1, <1>2, <1>3 DEF Item, GatewayItem
  <2>0. Head(todo).kind = "gateway" /\ Head(todo).name = k /\ Head(todo).peer = wanted[k]
    BY <2>1
  <2>2. Range(cand'.gateways)
          = Besides(Range(cand.gateways), k) \cup {[name |-> k, peer |-> wanted[k]]}
    BY <1>1, <2>0, EditEffect
  <2>3. GatewaysOf(Done)
    BY <1>3 DEF Made
  <2>4. \A i \in 1..k : [name |-> i, peer |-> wanted[i]] \in Range(cand'.gateways)
    <3>1. ASSUME NEW i \in 1..k PROVE [name |-> i, peer |-> wanted[i]] \in Range(cand'.gateways)
      <4>1. CASE i = k
        BY <2>2, <4>1
      <4>2. CASE i # k
        <5>1. i \in 1..Done /\ i # k
          BY <1>2, <4>2
        <5>2. [name |-> i, peer |-> wanted[i]] \in Range(cand.gateways)
          BY <2>3, <5>1 DEF GatewaysOf
        <5>3. [name |-> i, peer |-> wanted[i]].name = i
          OBVIOUS
        <5> QED BY <2>2, <5>1, <5>2, <5>3 DEF Besides
      <4> QED BY <4>1, <4>2
    <3> QED BY <3>1
  <2>5. GatewaysOf(Done)'
    BY <1>1, <2>4 DEF GatewaysOf
  <2> QED BY <1>3, <2>5 DEF Made
<1>4. CASE pc = "tunnel"
  <2>1. Head(todo) = [kind |-> "interface", name |-> k - 1 + BeginTunnel, link |-> wanted[k]]
    BY <1>1, <1>4 DEF Item, TunnelItem
  <2>0. /\ Head(todo).kind = "interface" /\ Head(todo).name = k - 1 + BeginTunnel
        /\ Head(todo).link = wanted[k]
    BY <2>1
  <2>2. /\ Range(cand'.gateways) = Range(cand.gateways)
        /\ cand'.interfaces = Besides(cand.interfaces, k - 1 + BeginTunnel)
                                \cup {[name |-> k - 1 + BeginTunnel, link |-> wanted[k]]}
    BY <1>1, <2>0, EditEffect
  <2>3. GatewaysOf(Len(wanted)) /\ InterfacesOf(Done)
    BY <1>4 DEF Made
  <2>4. \A i \in 1..k :
          [name |-> i - 1 + BeginTunnel, link |-> wanted[i]] \in cand'.interfaces
    <3>1. ASSUME NEW i \in 1..k PROVE [name |-> i - 1 + BeginTunnel, link |-> wanted[i]] \in cand'.interfaces
      <4>1. CASE i = k
        BY <2>2, <4>1
      <4>2. CASE i # k
        <5>1. i \in 1..Done /\ i - 1 + BeginTunnel # k - 1 + BeginTunnel
          BY <1>2, <4>2
        <5>2. [name |-> i - 1 + BeginTunnel, link |-> wanted[i]] \in cand.interfaces
          BY <2>3, <5>1 DEF InterfacesOf
        <5>3. [name |-> i - 1 + BeginTunnel, link |-> wanted[i]].name = i - 1 + BeginTunnel
          OBVIOUS
        <5> QED BY <2>2, <5>1, <5>2, <5>3 DEF Besides
      <4> QED BY <4>1, <4>2
    <3> QED BY <3>1
  <2>5. InterfacesOf(Done)' /\ GatewaysOf(Len(wanted))'
    BY <1>1, <2>2, <2>3, <2>4 DEF InterfacesOf, GatewaysOf
  <2> QED BY <1>4, <2>5 DEF Made
<1>5. CASE pc = "ipsec"
  <2>1. Head(todo) = [kind |-> "tunnel", name |-> k - 1, interface |-> k - 1 + BeginTunnel,
                      gateway |-> k]
    BY <1>1, <1>2, <1>5 DEF Item, IpsecItem
  <2>0. /\ Head(todo).kind = "tunnel" /\ Head(todo).name = k - 1
        /\ Head(todo).interface = k - 1 + BeginTunnel /\ Head(todo).gateway = k
    BY <2>1
  <2>2. /\ Range(cand'.gateways) = Range(cand.gateways)
        /\ cand'.interfaces = cand.interfaces
        /\ Range(cand'.tunnels) = Besides(Range(cand.tunnels), k - 1)
             \cup {[name |-> k - 1, interface |-> k - 1 + BeginTunnel, gateway |-> k]}
    <3>1. cand' = Edit(cand, Head(todo)) /\ Head(todo) \in Calls
      BY <1>1
    <3>2. /\ Range(cand'.gateways) = Range(cand.gateways)
          /\ cand'.interfaces = cand.interfaces
          /\ Range(cand'.tunnels) = Besides(Range(cand.tunnels), Head(todo).name)
               \cup {[name |-> Head(todo).name, interface |-> Head(todo).interface,
                      gateway |-> Head(todo).gateway]}
      BY <2>0, <3>1, EditEffect
    <3> QED BY <2>0, <3>2
  <2>3. GatewaysOf(Len(wanted)) /\ InterfacesOf(Len(wanted)) /\ TunnelsOf(Done)
    BY <1>5 DEF Made
  <2>4. \A i \in 1..k : [name |-> i - 1, interface |-> i - 1 + BeginTunnel, gateway |-> i]
                          \in Range(cand'.tunnels)
    <3>1. ASSUME NEW i \in 1..k PROVE [name |-> i - 1, interface |-> i - 1 + BeginTunnel, gateway |-> i] \in Range(cand'.tunnels)
      <4>1. CASE i = k
        BY <2>2, <4>1
      <4>2. CASE i # k
        <5>1. i \in 1..Done /\ i - 1 # k - 1
          BY <1>2, <4>2
        <5>2. [name |-> i - 1, interface |-> i - 1 + BeginTunnel, gateway |-> i] \in Range(cand.tunnels)
          BY <2>3, <5>1 DEF TunnelsOf
        <5>3. [name |-> i - 1, interface |-> i - 1 + BeginTunnel, gateway |-> i].name = i - 1
          OBVIOUS
        <5> QED BY <2>2, <5>1, <5>2, <5>3 DEF Besides
      <4> QED BY <4>1, <4>2
    <3> QED BY <3>1
  <2>5. TunnelsOf(Done)' /\ InterfacesOf(Len(wanted))' /\ GatewaysOf(Len(wanted))'
    BY <1>1, <2>2, <2>3, <2>4 DEF TunnelsOf, InterfacesOf, GatewaysOf
  <2> QED BY <1>5, <2>5 DEF Made
<1> QED BY <1>3, <1>4, <1>5 DEF Loops

LEMMA PlayStep ==
  ASSUME IInv, [Next]_vars
  PROVE  PlayInv'
<1>0. VarsOK /\ Configuration(cand) /\ PlayInv
  BY DEF IInv, TypeOK, VarsOK
<1>1. ASSUME UNCHANGED <<pc, facts, todo, bad, wanted, cand, reverted>>
      PROVE  PlayInv'
  BY <1>0, <1>1 DEF PlayInv, FactsFit, Fit, Remaining, Done, Item, Made, GatewaysOf,
                    InterfacesOf, TunnelsOf
<1>2. CASE UNCHANGED vars
  BY <1>1, <1>2 DEF vars, device, run, history
<1>3. CASE Terraform \/ AdminCommits
  BY <1>1, <1>3 DEF Terraform, AdminCommits, device, run, history
<1>4. ASSUME NEW t \in Task, Raise(t) PROVE PlayInv'
  BY <1>1, <1>4 DEF Raise, device, history
<1>5. CASE AdminReverts
  <2>1. UNCHANGED <<pc, facts, todo, bad, wanted>> /\ reverted' = (pc # "idle")
    BY <1>5 DEF AdminReverts, run
  <2>2. pc \in Loops => reverted'
    BY <2>1 DEF Loops
  <2> QED BY <1>0, <2>1, <2>2 DEF PlayInv, FactsFit, Fit, Remaining, Done, Item
<1>6. CASE ReadState
  <2>1. Fit(MagicFilter(tf), LinksOf(tf))
    BY <1>0, Filters DEF VarsOK
  <2> QED BY <1>0, <1>6, <2>1 DEF ReadState, PlayInv, FactsFit, Loops
<1>7. ASSUME pc' \in {"idle", "config"}, pc' = "idle" => todo' = <<>> /\ ~ bad'
      PROVE  PlayInv'
  BY <1>7 DEF PlayInv, Loops
<1>8. CASE LoopFailed \/ CommitTheChanges \/ CommitFails \/ TaskEnds
  BY <1>7, <1>8 DEF LoopFailed, CommitTheChanges, CommitFails, TaskEnds, End
<1>9. ASSUME NEW t \in Task, StartTask(t) PROVE PlayInv'
  BY <1>7, <1>9 DEF StartTask
<1>10. ASSUME NEW next \in Loops, NextLoop(next), pc \in {"state"} \cup Loops,
              ~ reverted => CASE next = "gateway" -> TRUE
                              [] next = "tunnel"  -> GatewaysOf(Len(wanted))
                              [] next = "ipsec"   -> GatewaysOf(Len(wanted))
                                                     /\ InterfacesOf(Len(wanted))
       PROVE  PlayInv'
  <2>1. /\ pc' = next /\ todo' = Collate(next) /\ ~ bad' /\ FactsFit
        /\ UNCHANGED <<facts, wanted, cand, reverted>>
    BY <1>0, <1>10 DEF NextLoop, PlayInv, device, history
  <2>2. /\ Len(todo') = Len(wanted) /\ Len(wanted) \in Nat
        /\ \A i \in 1..Len(wanted) : todo'[i] = Item(next, i)
    BY <1>0, <2>1, CollateItems DEF VarsOK
  <2>3. Done' = 0
    BY <2>1, <2>2 DEF Done
  <2>4. Remaining'
    <3>1. \A i \in 1..Len(wanted) : Item(next, i)' = Item(next, i) /\ 0 + i = i
      BY <2>1, <2>2 DEF Item
    <3> QED BY <2>1, <2>2, <2>3, <3>1 DEF Remaining
  <2>5. FactsFit'
    BY <2>1 DEF FactsFit
  <2>6. GatewaysOf(Done)' /\ InterfacesOf(Done)' /\ TunnelsOf(Done)'
    BY <2>3 DEF GatewaysOf, InterfacesOf, TunnelsOf
  <2>7. /\ GatewaysOf(Len(wanted)) => GatewaysOf(Len(wanted))'
        /\ InterfacesOf(Len(wanted)) => InterfacesOf(Len(wanted))'
    BY <2>1 DEF GatewaysOf, InterfacesOf
  <2>8. ~ reverted' => Made'
    BY <1>10, <2>1, <2>6, <2>7 DEF Made, Loops
  <2> QED BY <2>1, <2>4, <2>5, <2>8 DEF PlayInv, Loops
<1>11. ASSUME todo = <<>>, Remaining PROVE Done = Len(wanted)
  <2>1. Len(wanted) \in Nat
    BY <1>0 DEF VarsOK
  <2> QED BY <1>11, <2>1 DEF Done
<1>12. CASE BeginGateways
  BY <1>10, <1>12 DEF BeginGateways, Loops
<1>13. CASE BeginTunnels
  <2>1. ~ reverted => GatewaysOf(Len(wanted))
    BY <1>0, <1>11, <1>13 DEF BeginTunnels, NextLoop, PlayInv, Made, Loops
  <2> QED BY <1>10, <1>13, <2>1 DEF BeginTunnels, Loops
<1>14. CASE BeginIpsecs
  <2>1. ~ reverted => GatewaysOf(Len(wanted)) /\ InterfacesOf(Len(wanted))
    BY <1>0, <1>11, <1>14 DEF BeginIpsecs, NextLoop, PlayInv, Made, Loops
  <2> QED BY <1>10, <1>14, <2>1 DEF BeginIpsecs, Loops
<1>15. ASSUME pc = "config", pc' = pc PROVE PlayInv'
  BY <1>7, <1>15
<1>16. ASSUME todo # <<>>, pc # "config" PROVE pc \in Loops /\ FactsFit /\ Remaining
  BY <1>0, <1>16 DEF VarsOK, PlayInv
<1>17. CASE Call \/ CommitRejected
  <2>1. /\ todo # <<>> /\ cand' = Edit(cand, Head(todo)) /\ todo' = Tail(todo)
        /\ UNCHANGED <<pc, facts, bad, wanted, reverted>>
    BY <1>17 DEF Call, CommitRejected, GoOn, history
  <2>2. CASE pc # "config"
    <3>1. Remaining'
      BY <1>0, <1>16, <2>1, <2>2, RemainingTail
    <3>2. ~ bad /\ ~ reverted => Made'
      BY <1>0, <1>16, <2>1, <2>2, ItemMakes DEF PlayInv
    <3> QED BY <1>16, <2>1, <2>2, <3>1, <3>2 DEF PlayInv, FactsFit, Loops
  <2> QED BY <1>15, <2>1, <2>2
<1>18. CASE CallFails \/ CallLost
  <2>1. todo # <<>> /\ Fails
    BY <1>18 DEF CallFails, CallLost
  <2>2. CASE pc = "config"
    BY <1>7, <2>1, <2>2 DEF Fails, End
  <2>3. CASE pc # "config"
    <3>1. bad' /\ todo' = Tail(todo) /\ UNCHANGED <<pc, facts, wanted>>
      BY <2>1, <2>3 DEF Fails
    <3>2. Remaining'
      BY <1>0, <1>16, <2>1, <2>3, <3>1, RemainingTail
    <3> QED BY <1>16, <2>1, <2>3, <3>1, <3>2 DEF PlayInv, FactsFit, Loops
  <2> QED BY <2>2, <2>3
<1> QED BY <1>2, <1>3, <1>4, <1>5, <1>6, <1>8, <1>9, <1>12, <1>13, <1>14, <1>17, <1>18
        DEF Next, Step, Others

-----------------------------------------------------------------------------
(* Lemmas: both objects of a task.                                         *)

(* panos_ipsec_config finds something where both are, wherever they are in *)
(* their lists, and nothing where neither is.                              *)
LEMMA FoundBoth ==
  ASSUME Configuration(cand), NEW t \in Task, Both(cand, t)
  PROVE  IF Found(t) THEN Each(cand, t) ELSE Neither(cand, t)
<1> DEFINE G == cand.gateways
           T == cand.tunnels
<1>1. /\ DOMAIN G = 1..Len(G) /\ DOMAIN T = 1..Len(T) /\ Len(G) \in Nat /\ Len(T) \in Nat
      /\ Once(G) /\ Once(T)
  BY DEF Configuration
<1>2. Common \in Nat /\ Common <= Len(G) /\ Common <= Len(T)
      /\ (Common = Len(G) \/ Common = Len(T))
  BY <1>1 DEF Common
<1>3. Each(cand, t) \/ Neither(cand, t)
  BY DEF Both, Each, Neither
<1>4. ASSUME Found(t) PROVE Each(cand, t)
  <2>1. CASE FoundGateway(t)
    <3>1. PICK i \in 1..Common : G[i].name = Gateway[t]
      BY <2>1 DEF FoundGateway, GatewayAt
    <3>2. Gateway[t] \in Names(G)
      BY <1>1, <1>2, <3>1 DEF Names
    <3> QED BY <1>3, <3>2 DEF Neither
  <2>2. CASE FoundTunnel(t)
    <3>1. PICK i \in 1..Common : T[i].name = Name[t]
      BY <2>2 DEF FoundTunnel
    <3>2. Name[t] \in Names(T)
      BY <1>1, <1>2, <3>1 DEF Names
    <3> QED BY <1>3, <3>2 DEF Neither
  <2> QED BY <1>4, <2>1, <2>2 DEF Found
<1>5. ASSUME Each(cand, t) PROVE Found(t)
  <2>1. PICK i \in 1..Len(G) : G[i].name = Gateway[t]
    BY <1>1, <1>5 DEF Each, Names
  <2>2. PICK j \in 1..Len(T) : T[j].name = Name[t]
    BY <1>1, <1>5 DEF Each, Names
  <2>3. CASE i <= Common
    <3>1. GatewayAt(t, i) /\ i \in 1..Common
      BY <1>2, <2>1, <2>3 DEF GatewayAt
    <3> QED BY <3>1 DEF Found, FoundGateway
  <2>4. CASE ~ i <= Common
    <3>1. j \in 1..Common
      BY <1>1, <1>2, <2>4
    <3>2. \A l \in 1..(j - 1) : ~ GatewayAt(t, l)
      <4>1. ASSUME NEW l \in 1..(j - 1), GatewayAt(t, l) PROVE FALSE
        <5>1. l \in 1..Common /\ G[l].name = Gateway[t]
          BY <4>1 DEF GatewayAt
        <5>2. l \in 1..Len(G)
          BY <1>1, <1>2, <5>1
        <5>3. l = i
          BY <1>1, <2>1, <5>1, <5>2 DEF Once
        <5> QED BY <2>4, <5>1, <5>3, <1>2
      <4> QED BY <4>1
    <3>3. FoundTunnel(t)
      BY <2>2, <3>1, <3>2 DEF FoundTunnel
    <3> QED BY <3>3 DEF Found
  <2> QED BY <2>3, <2>4
<1> QED BY <1>3, <1>4, <1>5

LEMMA HeadTailOne ==
  ASSUME NEW x PROVE Head(<<x>>) = x /\ Tail(<<x>>) = <<>>
OBVIOUS

LEMMA TaskCallProgress ==
  ASSUME Configuration(cand), NEW t \in Task, Progress(cand, todo, t),
         todo \in Seq(Calls), todo # <<>>
  PROVE  Progress(Edit(cand, Head(todo)), Tail(todo), t)
<1> DEFINE call == Head(todo)
           d == Edit(cand, call)
<1>1. call \in Calls
  BY TodoCalls
<1>2. /\ Names(d.gateways) =
           IF call.kind = "gateway" THEN Names(cand.gateways) \cup {call.name}
           ELSE IF call.kind = "no gateway" THEN Names(cand.gateways) \ {call.name}
           ELSE Names(cand.gateways)
      /\ Names(d.tunnels) =
           IF call.kind = "tunnel" THEN Names(cand.tunnels) \cup {call.name}
           ELSE IF call.kind = "no tunnel" THEN Names(cand.tunnels) \ {call.name}
           ELSE Names(cand.tunnels)
  BY <1>1, EditNames
<1> HIDE DEF d
<1>4. CASE todo = Creation(t) /\ State[t] = "present" /\ Neither(cand, t)
  <2>0. /\ call = [kind |-> "gateway", name |-> Gateway[t], peer |-> Peer[t]]
        /\ Tail(todo) = Tail(Creation(t))
    BY <1>4, TaskCallsOK
  <2> HIDE DEF call
  <2>1. call.kind = "gateway" /\ call.name = Gateway[t] /\ Tail(todo) = Tail(Creation(t))
    BY <2>0
  <2>2. OnlyGateway(d, t)
    BY <1>2, <1>4, <2>1 DEF Neither, OnlyGateway
  <2>3. Progress(d, Tail(todo), t)
    BY <1>4, <2>1, <2>2 DEF Progress
  <2> QED BY <2>3 DEF call, d
<1>5. CASE todo = Tail(Creation(t)) /\ State[t] = "present" /\ OnlyGateway(cand, t)
  <2>0. /\ call = [kind |-> "tunnel", name |-> Name[t], interface |-> Number[t], gateway |-> Gateway[t]]
        /\ Tail(todo) = <<>>
    BY <1>5, TaskCallsOK, HeadTailOne
  <2> HIDE DEF call
  <2>1. call.kind = "tunnel" /\ call.name = Name[t] /\ Tail(todo) = <<>>
    BY <2>0
  <2>2. Each(d, t)
    BY <1>2, <1>5, <2>1 DEF Each, OnlyGateway
  <2>3. Progress(d, Tail(todo), t)
    BY <1>5, <2>1, <2>2 DEF Progress
  <2> QED BY <2>3 DEF call, d
<1>6. CASE todo = Deletion(t) /\ State[t] = "absent" /\ Each(cand, t)
  <2>0. /\ call = [kind |-> "no tunnel", name |-> Name[t]]
        /\ Tail(todo) = Tail(Deletion(t))
    BY <1>6, TaskCallsOK
  <2> HIDE DEF call
  <2>1. call.kind = "no tunnel" /\ call.name = Name[t] /\ Tail(todo) = Tail(Deletion(t))
    BY <2>0
  <2>2. OnlyGateway(d, t)
    BY <1>2, <1>6, <2>1 DEF Each, OnlyGateway
  <2>3. Progress(d, Tail(todo), t)
    BY <1>6, <2>1, <2>2 DEF Progress
  <2> QED BY <2>3 DEF call, d
<1>7. CASE todo = Tail(Deletion(t)) /\ State[t] = "absent" /\ OnlyGateway(cand, t)
  <2>0. /\ call = [kind |-> "no gateway", name |-> Gateway[t]]
        /\ Tail(todo) = <<>>
    BY <1>7, TaskCallsOK, HeadTailOne
  <2> HIDE DEF call
  <2>1. call.kind = "no gateway" /\ call.name = Gateway[t] /\ Tail(todo) = <<>>
    BY <2>0
  <2>2. Neither(d, t)
    BY <1>2, <1>7, <2>1 DEF Neither, OnlyGateway
  <2>3. Progress(d, Tail(todo), t)
    BY <1>7, <2>1, <2>2 DEF Progress
  <2> QED BY <2>3 DEF call, d
<1> QED BY <1>4, <1>5, <1>6, <1>7 DEF Progress

(* Nothing is left: the task has both objects or none.                     *)
LEMMA ProgressEnds ==
  ASSUME NEW c, NEW t \in Task, Progress(c, <<>>, t)
  PROVE  IF State[t] = "present" THEN Each(c, t) ELSE Neither(c, t)
<1>1. Creation(t) # <<>> /\ Deletion(t) # <<>>
  BY TaskCallsOK
<1>2. ASSUME NEW x PROVE <<x>> # <<>>
  OBVIOUS
<1>3. Tail(Creation(t)) # <<>> /\ Tail(Deletion(t)) # <<>>
  BY <1>2, TaskCallsOK
<1> QED BY <1>1, <1>3 DEF Progress

LEMMA TaskStep ==
  ASSUME IInv, [Next]_vars
  PROVE  TaskInv'
<1>0. VarsOK /\ Configuration(cand) /\ TaskInv
  BY DEF IInv, TypeOK, VarsOK
<1>1. ASSUME UNCHANGED <<pc, task, todo, torn, reverted, cand>> PROVE TaskInv'
  BY <1>0, <1>1 DEF TaskInv, TaskCalls, Progress, Neither, Each, OnlyGateway
<1>2. CASE UNCHANGED vars
  BY <1>1, <1>2 DEF vars, device, run, history
<1>3. CASE Terraform \/ AdminCommits
  BY <1>1, <1>3 DEF Terraform, AdminCommits, device, run, history
<1>4. ASSUME NEW t \in Task, Raise(t) PROVE TaskInv'
  BY <1>1, <1>4 DEF Raise, device, history
(* Apart from tasks there is nothing to know.                              *)
<1>5. ASSUME pc' # "config" PROVE TaskInv'
  BY <1>5 DEF TaskInv
<1>6. CASE ReadState \/ BeginGateways \/ BeginTunnels \/ BeginIpsecs
  BY <1>5, <1>6
  DEF ReadState, BeginGateways, BeginTunnels, BeginIpsecs, NextLoop
<1>7. CASE LoopFailed \/ CommitTheChanges \/ CommitFails \/ TaskEnds
  BY <1>5, <1>7 DEF LoopFailed, CommitTheChanges, CommitFails, TaskEnds, End
<1>8. CASE AdminReverts
  <2>1. UNCHANGED <<pc, task, todo>> /\ (pc = "config" => reverted')
    BY <1>8 DEF AdminReverts, run
  <2> QED BY <1>0, <2>1 DEF TaskInv
(* A task does not go on after a call that failed.                         *)
<1>9. CASE CallFails \/ CallLost
  <2>1. Fails
    BY <1>9 DEF CallFails, CallLost
  <2>2. pc' # "config"
    BY <2>1 DEF Fails, End
  <2> QED BY <1>5, <2>2
<1>10. CASE Call \/ CommitRejected
  <2>1. /\ todo # <<>> /\ cand' = Edit(cand, Head(todo)) /\ todo' = Tail(todo)
        /\ UNCHANGED <<pc, task, torn, reverted>>
    BY <1>10 DEF Call, CommitRejected, GoOn, history
  <2>2. CASE pc = "config"
    <3>1. task \in Task /\ todo \in Seq(Calls) /\ todo \in TaskCalls(task)
      BY <1>0, <2>2 DEF VarsOK, TaskInv
    <3>2. todo' \in TaskCalls(task)
      <4>1. \A x : Tail(<<x>>) = <<>>
        BY HeadTailOne
      <4>2. /\ todo \in {Creation(task), Deletion(task)} => todo' \in TaskCalls(task)
            /\ todo = Tail(Creation(task)) \/ todo = Tail(Deletion(task)) => todo' = <<>>
        BY <2>1, <3>1, <4>1, TaskCallsOK DEF TaskCalls
      <4> QED BY <2>1, <3>1, <4>2 DEF TaskCalls
    <3>3. ASSUME ~ torn, ~ reverted PROVE Progress(cand', todo', task)
      <4>1. Progress(cand, todo, task)
        BY <1>0, <2>2, <3>3 DEF TaskInv
      <4> QED BY <1>0, <2>1, <3>1, <4>1, TaskCallProgress
    <3>4. todo' \in TaskCalls(task)'
      BY <2>1, <3>2 DEF TaskCalls
    <3>5. Progress(cand', todo', task) => Progress(cand, todo, task)'
      BY <2>1 DEF Progress, Neither, Each, OnlyGateway
    <3> QED BY <2>1, <3>3, <3>4, <3>5 DEF TaskInv
  <2>3. CASE pc # "config"
    BY <1>5, <2>1, <2>3
  <2> QED BY <2>2, <2>3
<1>11. ASSUME NEW t \in Task, StartTask(t) PROVE TaskInv'
  <2>1. /\ pc' = "config" /\ task' = t /\ cand' = cand /\ torn' = ~ Both(cand, t)
        /\ todo' = CASE State[t] = "present" /\ ~ Found(t) -> Creation(t)
                     [] State[t] = "absent" /\ Found(t)    -> Deletion(t)
                     [] OTHER                              -> <<>>
    BY <1>11 DEF StartTask, device
  <2>2. State[t] \in {"present", "absent"}
    BY SpokeVpnAssumption
  <2>3. todo' \in {Creation(t), Deletion(t), <<>>}
    BY <2>1
  <2>4. todo' \in TaskCalls(task)'
    BY <2>1, <2>3 DEF TaskCalls
  <2>5. ASSUME ~ torn' PROVE Progress(cand, todo, task)'
    <3>1. IF Found(t) THEN Each(cand, t) ELSE Neither(cand, t)
      BY <1>0, <2>1, <2>5, FoundBoth
    <3>2. Progress(cand, todo', t)
      BY <2>1, <2>2, <3>1 DEF Progress
    <3> QED BY <2>1, <3>2 DEF Progress, Neither, Each, OnlyGateway
  <2> QED BY <2>4, <2>5 DEF TaskInv
<1> QED BY <1>2, <1>3, <1>4, <1>6, <1>7, <1>8, <1>9, <1>10, <1>11 DEF Next, Step, Others

-----------------------------------------------------------------------------
(* Theorems.                                                               *)

(* What is left of a loop is of the kind the loop is for.                  *)
LEMMA Kinds ==
  ASSUME VarsOK, PlayInv
  PROVE  \A i \in DOMAIN todo :
           \/ pc = "gateway" /\ todo[i].kind = "gateway"
           \/ pc = "tunnel" /\ todo[i].kind = "interface"
           \/ pc = "ipsec" /\ todo[i].kind = "tunnel"
           \/ pc = "config"
<1>1. SUFFICES ASSUME NEW i \in DOMAIN todo, pc # "config"
               PROVE  \/ pc = "gateway" /\ todo[i].kind = "gateway"
                      \/ pc = "tunnel" /\ todo[i].kind = "interface"
                      \/ pc = "ipsec" /\ todo[i].kind = "tunnel"
  OBVIOUS
<1>2. todo # <<>> /\ DOMAIN todo = 1..Len(todo)
  BY <1>1 DEF VarsOK
<1>3. pc \in Loops /\ todo[i] = Item(pc, Done + i)
  BY <1>1, <1>2 DEF VarsOK, PlayInv, Remaining
<1>4. \A link, n : /\ GatewayItem(link, n).kind = "gateway"
                   /\ TunnelItem(link, n).kind = "interface"
                   /\ IpsecItem(n).kind = "tunnel"
  BY DEF GatewayItem, TunnelItem, IpsecItem
<1> QED BY <1>3, <1>4 DEF Item, Loops

LEMMA InitInv == Init => IInv
<1> SUFFICES ASSUME Init PROVE IInv
  OBVIOUS
<1>1. Configuration(cand) /\ Numbered(cand) /\ running = cand
  BY StartsAssumption DEF Init
<1>2. VarsOK
  <2>1. <<>> \in Seq(Calls) /\ <<>> \in Seq(Link)
    OBVIOUS
  <2>2. Trouble \in 0..Trouble /\ None \notin Task
    BY SpokeVpnAssumption
  <2> QED BY <2>1, <2>2 DEF Init, VarsOK
<1>3. PlayInv
  BY DEF Init, PlayInv, Loops
<1>4. TaskInv
  BY DEF Init, TaskInv
<1> QED BY <1>1, <1>2, <1>3, <1>4, Kinds DEF IInv, TypeOK, VarsOK

LEMMA NextInv == IInv /\ [Next]_vars => IInv'
<1> SUFFICES ASSUME IInv, [Next]_vars PROVE IInv'
  OBVIOUS
<1>1. VarsOK' /\ PlayInv' /\ TaskInv'
  BY VarsInv, PlayStep, TaskStep
<1>2. (VarsOK /\ PlayInv => \A i \in DOMAIN todo :
           \/ pc = "gateway" /\ todo[i].kind = "gateway"
           \/ pc = "tunnel" /\ todo[i].kind = "interface"
           \/ pc = "ipsec" /\ todo[i].kind = "tunnel"
           \/ pc = "config")'
  BY Kinds, PTL
<1>3. /\ Configuration(cand)' /\ Numbered(cand)'
      /\ Configuration(running)' /\ Numbered(running)'
  BY DeviceInv DEF Configuration, Numbered, Once
<1> QED BY <1>1, <1>2, <1>3 DEF IInv, TypeOK, VarsOK

LEMMA Invariance == Spec => []IInv
BY InitInv, NextInv, PTL DEF Spec

(* The variables have their types: no name is ever configured twice, what  *)
(* is left of a loop is of its kind, a failed item is remembered only      *)
(* while its loop runs.                                                    *)
THEOREM TypeCorrect == Spec => []TypeOK
BY Invariance, PTL DEF IInv

(* A play that ends well has joined every link that Terraform had created  *)
(* for the firewall when the play read its state, for any number of links, *)
(* unless somebody reverted the candidate since: whatever failed before,   *)
(* whatever the lists and the configuration were.                          *)
THEOREM PlayJoins == Spec => OkMeansJoined
<1>1. IInv /\ [Next]_vars =>
        (PlayEnds("ok") /\ ~ reverted => \A link \in Range(wanted) : Joined(running', link))
  <2> SUFFICES ASSUME IInv, [Next]_vars, PlayEnds("ok"), ~ reverted, NEW link \in Range(wanted)
               PROVE  Joined(running', link)
    OBVIOUS
  <2>1. CommitTheChanges
    BY DEF PlayEnds, Loops, Next, Step, Others, vars, device, run, history, ReadState, NextLoop,
           BeginGateways, BeginTunnels, BeginIpsecs, LoopFailed, CommitTheChanges, CommitFails,
           TaskEnds, Call, CommitRejected, CallFails, CallLost, Terraform, AdminCommits,
           AdminReverts, StartTask, Raise, GoOn, Fails, End
  <2>2. pc = "ipsec" /\ todo = <<>> /\ ~ bad /\ running' = cand
    BY <2>1 DEF CommitTheChanges
  <2>3. Len(wanted) \in Nat /\ DOMAIN wanted = 1..Len(wanted) /\ Done = Len(wanted)
    BY <2>2 DEF IInv, TypeOK, Done
  <2>4. GatewaysOf(Len(wanted)) /\ InterfacesOf(Len(wanted)) /\ TunnelsOf(Len(wanted))
    BY <2>2, <2>3 DEF IInv, PlayInv, Made, Loops
  <2>5. PICK i \in 1..Len(wanted) : link = wanted[i]
    BY <2>3 DEF Range
  <2> DEFINE tunnel == [name |-> i - 1, interface |-> i - 1 + BeginTunnel, gateway |-> i]
  <2>6. tunnel \in Range(cand.tunnels)
    BY <2>4, <2>5 DEF TunnelsOf
  <2>7. /\ [name |-> tunnel.gateway, peer |-> link] \in Range(cand.gateways)
        /\ [name |-> tunnel.interface, link |-> link] \in cand.interfaces
    BY <2>4, <2>5 DEF GatewaysOf, InterfacesOf
  <2> HIDE DEF tunnel
  <2> QED BY <2>2, <2>6, <2>7 DEF Joined, Joins
<1> QED BY <1>1, Invariance, PTL DEF Spec, OkMeansJoined

(* What an item does to the tunnel of a link in place: the entries that    *)
(* carry it are replaced by themselves or left alone.                      *)
LEMMA ItemKeepsPlace ==
  ASSUME Configuration(cand), Numbered(cand), pc \in Loops, wanted \in Seq(Link),
         NEW k \in 1..Len(wanted), Item(pc, k) \in Calls,
         NEW i \in 1..Len(wanted), InPlace(cand, i, wanted[i])
  PROVE  InPlace(Edit(cand, Item(pc, k)), i, wanted[i])
<1> DEFINE call == Item(pc, k)
           d == Edit(cand, call)
           link == wanted[i]
<1>0. BeginTunnel \in Nat /\ BeginIpsec = BeginTunnel /\ i - 1 \in Nat /\ k \in Nat /\ i \in Nat
  BY SpokeVpnAssumption
<1>1. PICK tunnel \in Range(cand.tunnels) : tunnel.name = i - 1 /\ Joins(cand, tunnel, link)
  BY DEF InPlace
<1>2. tunnel.interface = i - 1 + BeginTunnel /\ tunnel.gateway = (i - 1) + 1
  BY <1>0, <1>1 DEF Numbered
<1> DEFINE g == [name |-> i, peer |-> link]
           e == [name |-> i - 1 + BeginTunnel, link |-> link]
<1>3. g \in Range(cand.gateways) /\ e \in cand.interfaces
  <2>1. tunnel.gateway = i
    BY <1>0, <1>2
  <2> QED BY <1>1, <1>2, <2>1 DEF Joins
<1>4. tunnel \in Tunnels
  <2>1. cand.tunnels \in Seq(Tunnels)
    BY DEF Configuration, Tunnels
  <2>2. PICK j \in 1..Len(cand.tunnels) : tunnel = cand.tunnels[j]
    BY <1>1, <2>1 DEF Range
  <2> HIDE DEF Tunnels
  <2> QED BY <2>1, <2>2
<1>5. call \in Calls
  OBVIOUS
<1>6. SUFFICES g \in Range(d.gateways) /\ e \in d.interfaces /\ tunnel \in Range(d.tunnels)
  <2>1. tunnel.gateway = i
    BY <1>0, <1>2
  <2> HIDE DEF d
  <2> SUFFICES ASSUME g \in Range(d.gateways), e \in d.interfaces, tunnel \in Range(d.tunnels)
               PROVE  InPlace(d, i, link)
    BY DEF d
  <2> QED BY <1>1, <1>2, <2>1 DEF InPlace, Joins
<1>7. g.name = i /\ e.name = i - 1 + BeginTunnel
  OBVIOUS
<1>8. CASE pc = "gateway"
  <2>1. call = [kind |-> "gateway", name |-> (k - 1) + 1, peer |-> wanted[k]]
    BY <1>8 DEF Item, GatewayItem
  <2>2. call.kind = "gateway" /\ call.name = k /\ call.peer = wanted[k]
    BY <1>0, <2>1
  <2> HIDE DEF call, d, g
  <2>3. /\ Range(d.gateways)
             = Besides(Range(cand.gateways), k) \cup {[name |-> k, peer |-> wanted[k]]}
        /\ d.interfaces = cand.interfaces /\ Range(d.tunnels) = Range(cand.tunnels)
    <3>1. Range(d.gateways) = Besides(Range(cand.gateways), call.name)
                                \cup {[name |-> call.name, peer |-> call.peer]}
      BY <1>5, <2>2, EditEffect DEF d
    <3>2. d.interfaces = cand.interfaces /\ Range(d.tunnels) = Range(cand.tunnels)
      BY <1>5, <2>2, EditEffect DEF d
    <3> QED BY <2>2, <3>1, <3>2
  <2>4. CASE i = k
    <3>1. g = [name |-> k, peer |-> wanted[k]]
      BY <2>4 DEF g
    <3> QED BY <1>1, <1>3, <2>3, <3>1
  <2>5. CASE i # k
    BY <1>1, <1>3, <1>7, <2>3, <2>5 DEF Besides
  <2> QED BY <2>4, <2>5
<1>9. CASE pc = "tunnel"
  <2>1. call = [kind |-> "interface", name |-> k - 1 + BeginTunnel, link |-> wanted[k]]
    BY <1>9 DEF Item, TunnelItem
  <2>2. call.kind = "interface" /\ call.name = k - 1 + BeginTunnel /\ call.link = wanted[k]
    BY <2>1
  <2> HIDE DEF call, d, e
  <2>3. /\ d.interfaces = Besides(cand.interfaces, k - 1 + BeginTunnel)
                            \cup {[name |-> k - 1 + BeginTunnel, link |-> wanted[k]]}
        /\ Range(d.gateways) = Range(cand.gateways) /\ Range(d.tunnels) = Range(cand.tunnels)
    <3>1. d.interfaces = Besides(cand.interfaces, call.name)
                           \cup {[name |-> call.name, link |-> call.link]}
      BY <1>5, <2>2, EditEffect DEF d
    <3>2. Range(d.gateways) = Range(cand.gateways) /\ Range(d.tunnels) = Range(cand.tunnels)
      BY <1>5, <2>2, EditEffect DEF d
    <3> QED BY <2>2, <3>1, <3>2
  <2>4. CASE i = k
    <3>1. e = [name |-> k - 1 + BeginTunnel, link |-> wanted[k]]
      BY <2>4 DEF e
    <3> QED BY <1>1, <1>3, <2>3, <3>1
  <2>5. CASE i # k
    <3>1. i - 1 + BeginTunnel # k - 1 + BeginTunnel
      BY <1>0, <2>5
    <3> QED BY <1>1, <1>3, <1>7, <2>3, <3>1 DEF Besides
  <2> QED BY <2>4, <2>5
<1>10. CASE pc = "ipsec"
  <2>1. call = [kind |-> "tunnel", name |-> k - 1, interface |-> k - 1 + BeginTunnel,
                gateway |-> (k - 1) + 1]
    BY <1>0, <1>10 DEF Item, IpsecItem
  <2>2. /\ call.kind = "tunnel" /\ call.name = k - 1
        /\ call.interface = k - 1 + BeginTunnel /\ call.gateway = (k - 1) + 1
    BY <2>1
  <2> HIDE DEF call, d
  <2>3. /\ Range(d.tunnels) = Besides(Range(cand.tunnels), k - 1)
             \cup {[name |-> k - 1, interface |-> k - 1 + BeginTunnel, gateway |-> (k - 1) + 1]}
        /\ Range(d.gateways) = Range(cand.gateways) /\ d.interfaces = cand.interfaces
    <3>1. Range(d.tunnels) = Besides(Range(cand.tunnels), call.name)
             \cup {[name |-> call.name, interface |-> call.interface, gateway |-> call.gateway]}
      BY <1>5, <2>2, EditEffect DEF d
    <3>2. Range(d.gateways) = Range(cand.gateways) /\ d.interfaces = cand.interfaces
      BY <1>5, <2>2, EditEffect DEF d
    <3> QED BY <2>2, <3>1, <3>2
  <2>4. CASE i = k
    <3>1. tunnel = [name |-> k - 1, interface |-> k - 1 + BeginTunnel, gateway |-> (k - 1) + 1]
      BY <1>1, <1>2, <1>4, <2>4 DEF Tunnels
    <3> QED BY <1>3, <2>3, <3>1
  <2>5. CASE i # k
    <3>1. tunnel.name # k - 1
      BY <1>0, <1>1, <2>5
    <3> QED BY <1>1, <1>3, <2>3, <3>1 DEF Besides
  <2> QED BY <2>4, <2>5
<1> QED BY <1>8, <1>9, <1>10 DEF Loops

(* A play never disturbs the tunnel of a link that is where it was, not    *)
(* even when it fails, for any number of links.                            *)
THEOREM PlayDisturbsNothing == Spec => WorkingStays
<1>1. IInv /\ [Next]_vars => (task = None /\ Step => \A i \in DOMAIN wanted :
        InPlace(cand, i, wanted[i]) => InPlace(cand', i, wanted[i]))
  <2> SUFFICES ASSUME IInv, [Next]_vars, task = None, Step, NEW i \in DOMAIN wanted,
                      InPlace(cand, i, wanted[i])
               PROVE  InPlace(cand', i, wanted[i])
    OBVIOUS
  <2>1. cand' = cand \/ Changed
    BY DEF Step, device, BeginGateways, BeginTunnels, BeginIpsecs, NextLoop, LoopFailed,
           CommitTheChanges, CommitFails, TaskEnds, Call, CommitRejected, CallFails, CallLost,
           Changed
  <2>2. CASE Changed
    <3>1. VarsOK /\ pc # "config" /\ todo # <<>>
      BY <2>2 DEF IInv, TypeOK, VarsOK, Changed
    <3>2. pc \in Loops /\ Remaining
      BY <3>1 DEF VarsOK, IInv, PlayInv
    <3>3. /\ Head(todo) = todo[1] /\ Head(todo) \in Calls /\ Len(todo) \in Nat \ {0}
      BY <3>1, TodoCalls DEF VarsOK
    <3>4. Len(wanted) \in Nat /\ DOMAIN wanted = 1..Len(wanted) /\ wanted \in Seq(Link)
      BY <3>1 DEF VarsOK
    <3>5. Done + 1 \in 1..Len(wanted) /\ Head(todo) = Item(pc, Done + 1)
      BY <3>2, <3>3, <3>4 DEF Remaining, Done
    <3>6. InPlace(Edit(cand, Item(pc, Done + 1)), i, wanted[i])
      BY <3>2, <3>3, <3>4, <3>5, ItemKeepsPlace DEF IInv, TypeOK
    <3> QED BY <2>2, <3>5, <3>6 DEF Changed
  <2> QED BY <2>1, <2>2
<1> QED BY <1>1, Invariance, PTL DEF Spec, WorkingStays

(* "Create an ipsec tunnel and IKE gateway on the device": a task of       *)
(* panos_ipsec_config that ends well leaves both or has removed both, in   *)
(* whatever order the firewall lists them and whoever else uses its        *)
(* gateway, if there were both or none when it began and nobody reverted   *)
(* the candidate under it.                                                 *)
THEOREM TaskLeavesBoth == Spec => OkMeansBoth
<1>1. IInv /\ [Next]_vars => \A t \in Task : task = t /\ pc' = "idle" /\ last' = "ok"
          /\ ~ torn /\ ~ reverted
        => Exists(cand, t)' = IF State[t] = "present" THEN <<TRUE, TRUE>> ELSE <<FALSE, FALSE>>
  <2> SUFFICES ASSUME IInv, [Next]_vars, NEW t \in Task, task = t, pc' = "idle", last' = "ok",
                      ~ torn, ~ reverted
               PROVE  Exists(cand, t)'
                        = IF State[t] = "present" THEN <<TRUE, TRUE>> ELSE <<FALSE, FALSE>>
    OBVIOUS
  <2>1. pc = "config"
    BY SpokeVpnAssumption DEF IInv, TypeOK
  <2>2. TaskEnds
    BY <2>1 DEF Loops, Next, Step, Others, vars, device, run, history, ReadState, NextLoop,
           BeginGateways, BeginTunnels, BeginIpsecs, LoopFailed, CommitTheChanges, CommitFails,
           TaskEnds, Call, CommitRejected, CallFails, CallLost, Terraform, AdminCommits,
           AdminReverts, StartTask, Raise, GoOn, Fails, End
  <2>3. todo = <<>> /\ cand' = cand
    BY <2>2 DEF TaskEnds, device
  <2>4. Progress(cand, <<>>, t)
    BY <2>1, <2>3 DEF IInv, TaskInv
  <2>5. IF State[t] = "present" THEN Each(cand, t) ELSE Neither(cand, t)
    BY <2>4, ProgressEnds
  <2>6. Exists(cand, t)' = <<Gateway[t] \in Names(cand.gateways), Name[t] \in Names(cand.tunnels)>>
    BY <2>3 DEF Exists
  <2>7. CASE State[t] = "present"
    <3>1. /\ (Gateway[t] \in Names(cand.gateways)) = TRUE
          /\ (Name[t] \in Names(cand.tunnels)) = TRUE
      BY <2>5, <2>7 DEF Each
    <3> QED BY <2>6, <2>7, <3>1
  <2>8. CASE State[t] # "present"
    <3>1. /\ (Gateway[t] \in Names(cand.gateways)) = FALSE
          /\ (Name[t] \in Names(cand.tunnels)) = FALSE
      BY <2>5, <2>8 DEF Neither
    <3> QED BY <2>6, <2>8, <3>1
  <2> QED BY <2>7, <2>8
<1> QED BY <1>1, Invariance, PTL DEF Spec, OkMeansBoth
=============================================================================
