------------------------- MODULE PartialLoadProofs -------------------------
(***************************************************************************)
(* The window of load_partial.py for every set of devices, files, groups   *)
(* and threads.  What holds in any case comes first: types, and that the   *)
(* boxes fit together.  What holds for a user who waits rests on Patience, *)
(* which says what the threads that are at work imply about the window.    *)
(***************************************************************************)
EXTENDS PartialLoad, TLAPS

(* The window by itself.  A text is one of the items; a list of files, and *)
(* the threads that connecting starts, are those of a connected window; a  *)
(* dialog is open only over a choice that has been made.                   *)
Shape ==
  /\ combo_from.text \in combo_from.items \cup {None}
  /\ combo_to.text \in combo_to.items \cup {None}
  /\ conn = None => /\ combo_file.items = {}
                    /\ \A s \in Slot : job[s].kind \notin {"combo", "ssh"}
  /\ dialog => conn # None /\ combo_from.text # None /\ combo_to.text # None

(* Source groups are offered only with a file chosen, which the file box   *)
(* shows unless it shows the prompt.                                       *)
Filed ==
  combo_from.items # {} => from_file \in File /\ combo_file.text \in {from_file, Prompt}

Window == TypeOK /\ Shape /\ Filed

(* A user who waits: what is at work tells what the window holds.          *)
Unmarked == combo_from = Empty /\ combo_to = Empty /\ flags = {} /\ color = Plain
Alone(s) == \A u \in Slot : u # s => Is(u, "none")
Connecting == \A s \in Slot :
  /\ Is(s, "connect") => Unmarked
  /\ Is(s, "combo")   => combo_to = Empty /\ job[s].dev = conn
  /\ \A u \in Slot : job[s].kind \in {"connect", "combo"} /\ job[u].kind \in {"connect", "combo"}
                     => s = u
Loading == \A s \in Slot :
  job[s].kind \in {"object", "rule"} =>
    /\ Alone(s) /\ Chosen(job[s])
    /\ job[s].part = IF Is(s, "object") THEN obj ELSE rule
    /\ Answered(s, "success") => job[s].part \in done
(* What is offered is what the device has, unless the list of its files is *)
(* being fetched or has just been, or an import may have changed them.     *)
AsRead ==
  combo_from.items # {} /\ combo_file.text # Prompt /\ "import" \notin told
    /\ (\A s \in Slot : ~ Is(s, "ssh"))
  => from_file \in On(conn) /\ combo_from.items = Has[saved[conn][from_file]]
Sound ==
  /\ combo_to.items # {} => /\ combo_to.items \subseteq Own[running_config]
                            /\ "running-config" \notin told => running_config = conn
  /\ AsRead
  /\ dialog => Quiet
Patience == steady => Connecting /\ Loading /\ Sound

Promises == Patience /\ GreenMeansLoaded /\ NoFalseAssurance

-----------------------------------------------------------------------------
(* Boxes and threads.                                                      *)

LEMMA ConstantFacts ==
  /\ \A d \in Device : Own[d] \in SUBSET Group /\ d # None
  /\ \A x \in Text : Has[x] \in SUBSET Group
  /\ \A f \in File : f # None /\ f # Prompt
  /\ \A g \in Group : g # None
  /\ None # Prompt
BY LoadAssumption

(* A file that a device has can be read: its groups are some of all.       *)
LEMMA StoreFacts ==
  ASSUME saved \in [Device -> Store], NEW d \in Device
  PROVE  /\ On(d) \in SUBSET File
         /\ \A f \in On(d) : Has[saved[d][f]] \in SUBSET Group
BY ConstantFacts DEF On, Store

(* An import leaves a device with files.                                   *)
LEMMA StoredFacts ==
  ASSUME saved \in [Device -> Store], NEW d \in Device, NEW f \in File, NEW x \in Text
  PROVE  [saved EXCEPT ![d][f] = x] \in [Device -> Store]
<1>1. [saved[d] EXCEPT ![f] = x] \in Store
  BY DEF Store
<1>2. [saved EXCEPT ![d][f] = x] = [saved EXCEPT ![d] = [saved[d] EXCEPT ![f] = x]]
  OBVIOUS
<1>3. QED
  BY <1>1, <1>2

(* Items that are added are offered together with those before, and the    *)
(* text of a box that had one stays.                                       *)
LEMMA AddFacts ==
  ASSUME NEW S, NEW box \in Box(S), NEW new \in SUBSET S, NEW b \in AddItems(box, new),
         box.text \in box.items \cup {None}, box.text = None => box.items = {}
  PROVE  /\ b \in Box(S) /\ b.items = box.items \cup new
         /\ b.text \in b.items \cup {None}
         /\ box.text # None => b.text = box.text
         /\ box = Empty /\ new = {} => b = Empty
<1>1. CASE box.text # None \/ new = {}
  BY <1>1 DEF AddItems, Box, Empty
<1>2. CASE ~ (box.text # None \/ new = {})
  BY <1>2 DEF AddItems, Box, Empty
<1>3. QED
  BY <1>1, <1>2

LEMMA EmptyFacts ==
  \A S : Empty \in Box(S) /\ Empty.items = {} /\ Empty.text = None
BY DEF Empty, Box

LEMMA LinkFacts ==
  ASSUME NEW kind \in {"connect", "combo", "ssh"}, NEW d \in Device
  PROVE  /\ Link(kind, d) \in LinkJob
         /\ Link(kind, d).kind = kind /\ Link(kind, d).dev = d /\ Link(kind, d).ans = "running"
BY DEF Link, LinkJob

LEMMA IdleFacts == Idle.kind = "none"
BY DEF Idle

(* A choice that is accepted is one that a load can be made of.            *)
LEMMA ChoiceFacts ==
  ASSUME TypeOK, Shape, Filed,
         conn # None, combo_from.text # None, combo_to.text # None
  PROVE  /\ conn \in Device /\ from_file \in File
         /\ combo_from.text \in Group /\ combo_to.text \in Group
<1>1. combo_from.items # {} /\ from_file \in File
  BY DEF Shape, Filed
<1>2. conn \in Device /\ combo_from.text \in Group /\ combo_to.text \in Group
  BY DEF TypeOK, Box
<1>3. QED
  BY <1>1, <1>2

LEMMA LoadFacts ==
  ASSUME TypeOK, Shape, Filed, NEW kind \in {"object", "rule"}, NEW p \in Part,
         conn # None, combo_from.text # None, combo_to.text # None
  PROVE  /\ Load(kind, p) \in LoadJob /\ Load(kind, p).kind = kind
         /\ Load(kind, p).part = p /\ Load(kind, p).ans = "running"
         /\ Chosen(Load(kind, p))
BY ChoiceFacts DEF Load, LoadJob, LoadsOf, Chosen

LEMMA SkilletFacts ==
  ASSUME TypeOK, Shape, Filed,
         conn # None, combo_from.text # None, combo_to.text # None
  PROVE  Load("skillet", None) \in LoadJob /\ Load("skillet", None).kind = "skillet"
BY ChoiceFacts DEF Load, LoadJob, LoadsOf

Jobs == LinkJob \cup LoadJob \cup {Idle}

LEMMA StartFacts ==
  ASSUME TypeOK, NEW j \in Jobs, Start(j)
  PROVE  /\ job' \in [Slot -> Jobs]
         /\ \A s \in Slot : job'[s] = job[s] \/ job'[s] = j
BY DEF TypeOK, Start, Jobs

LEMMA StartAlone ==
  ASSUME TypeOK, NEW j, Start(j), Quiet
  PROVE  \E s \in Slot : job'[s] = j /\ \A u \in Slot : u # s => job'[u].kind = "none"
BY DEF TypeOK, Start, Quiet, Is

(* What kinds of threads there are does not change when one answers.       *)
LEMMA AnswerFacts ==
  ASSUME TypeOK, NEW s \in Slot, NEW a, Answer(s, a),
         \/ job[s] \in LinkJob /\ a \in {"success", "error"}
         \/ job[s] \in LoadJob /\ a \in {"success", "error", "lost"}
  PROVE  /\ job' \in [Slot -> Jobs]
         /\ \A u \in Slot : u # s => job'[u] = job[u]
         /\ \A u \in Slot : job'[u].kind = job[u].kind
         /\ job'[s].ans = a /\ job'[s].dev = job[s].dev
         /\ job[s] \in LoadJob => job'[s].part = job[s].part /\ (Chosen(job[s]) <=> Chosen(job'[s]))
<1>1. /\ job \in [Slot -> Jobs]
      /\ job'[s] = [job[s] EXCEPT !.ans = a]
      /\ \A u \in Slot : u # s => job'[u] = job[u]
      /\ job' = [job EXCEPT ![s] = [job[s] EXCEPT !.ans = a]]
  BY DEF TypeOK, Answer, Jobs
<1>2. [job[s] EXCEPT !.ans = a] \in Jobs /\ job'[s].kind = job[s].kind /\ job'[s].ans = a
      /\ job'[s].dev = job[s].dev
  BY <1>1 DEF Jobs, LinkJob, LoadJob, LoadsOf
<1>3. ASSUME job[s] \in LoadJob
      PROVE  job'[s].part = job[s].part /\ (Chosen(job[s]) <=> Chosen(job'[s]))
  BY <1>1, <1>3 DEF LoadJob, LoadsOf, Chosen
<1>4. QED
  BY <1>1, <1>2, <1>3

LEMMA EndFacts ==
  ASSUME TypeOK, NEW s \in Slot, End(s)
  PROVE  /\ job' \in [Slot -> Jobs] /\ job'[s] = Idle
         /\ \A u \in Slot : u # s => job'[u] = job[u]
BY DEF TypeOK, End, Jobs

LEMMA KindFacts ==
  ASSUME TypeOK, NEW s \in Slot
  PROVE  /\ job[s].kind \in {"connect", "combo", "ssh"} => job[s] \in LinkJob
         /\ job[s].kind \in {"object", "rule", "skillet"} => job[s] \in LoadJob
         /\ job[s].kind \in {"connect", "combo", "ssh", "object", "rule", "skillet", "none"}
BY DEF TypeOK, LinkJob, LoadJob, LoadsOf, Idle

-----------------------------------------------------------------------------
(* In any case.                                                            *)

LEMMA WindowInit == Init => Window
<1> SUFFICES ASSUME Init PROVE Window
  OBVIOUS
<1>1. TypeOK
  <2>1. Plain \in [Part -> {"plain", "green", "red"}]
    BY DEF Plain
  <2>2. job \in [Slot -> LinkJob \cup LoadJob \cup {Idle}]
    BY DEF Init
  <2>3. saved \in [Device -> Store]
    BY LoadAssumption DEF Init
  <2>4. QED
    BY <2>1, <2>2, <2>3, EmptyFacts DEF Init, TypeOK
<1>2. Shape
  BY EmptyFacts, IdleFacts DEF Init, Shape
<1>3. Filed
  BY EmptyFacts DEF Init, Filed
<1>4. QED
  BY <1>1, <1>2, <1>3 DEF Window

LEMMA PlainFacts == Plain \in [Part -> {"plain", "green", "red"}]
BY DEF Plain

LEMMA RememberFacts ==
  ASSUME NEW s \in SUBSET Part, NEW d \in SUBSET Part, Remember(s, d)
  PROVE  sent' \in SUBSET Part /\ done' \in SUBSET Part
BY DEF Remember

Errors == {"import", "running-config"}

LEMMA TellFacts ==
  ASSUME NEW e \in SUBSET Errors, Tell(e)
  PROVE  told' \in SUBSET Errors
BY DEF Tell

LEMMA WindowRestart ==
  ASSUME TypeOK, Restart, saved' \in [Device -> Store]
  PROVE  Window'
<1>1. TypeOK'
  <2>1. job' \in [Slot -> LinkJob \cup LoadJob \cup {Idle}]
    BY DEF Restart
  <2>2. QED
    BY <2>1, PlainFacts, EmptyFacts DEF Restart, ResetFlagsButtons, TypeOK
<1>2. Shape'
  BY EmptyFacts, IdleFacts DEF Restart, Shape
<1>3. Filed'
  BY EmptyFacts DEF Restart, Filed
<1>4. QED
  BY <1>1, <1>2, <1>3 DEF Window

LEMMA WindowAbort == ASSUME TypeOK, Abort PROVE Window'
BY WindowRestart DEF Abort, TypeOK

LEMMA WindowUser ==
  ASSUME Window, User
  PROVE  Window'
<1> USE DEF Window
<1>1. CASE Quit
  BY <1>1, WindowAbort DEF Quit
<1>2. CASE OpenSkillet
  <2>1. TypeOK'
    BY <1>2, RememberFacts, TellFacts DEF Errors, OpenSkillet, UserActs, TypeOK, boxes, clicks, marks, Quiet
  <2>2. Shape' /\ Filed'
    BY <1>2 DEF OpenSkillet, Shape, Filed, boxes, Validated
  <2>3. QED
    BY <2>1, <2>2
<1>3. CASE CloseSkillet
  <2>1. conn # None /\ combo_from.text # None /\ combo_to.text # None
    BY <1>3 DEF CloseSkillet, Shape
  <2>2. Load("skillet", None) \in Jobs /\ Load("skillet", None).kind = "skillet"
    BY <2>1, SkilletFacts DEF Jobs
  <2>3. job' \in [Slot -> Jobs]
    BY <1>3, <2>2, StartFacts DEF CloseSkillet, TypeOK, Jobs
  <2>4. TypeOK'
    BY <1>3, <2>3 DEF CloseSkillet, TypeOK, boxes, clicks, marks, past, Jobs
  <2>5. Shape' /\ Filed'
    BY <1>3, <2>1 DEF CloseSkillet, Shape, Filed, boxes
  <2>6. QED
    BY <2>4, <2>5
<1>4. ASSUME NEW d \in Device, Connect(d) PROVE Window'
  <2>1. /\ job' \in [Slot -> Jobs]
        /\ \A s \in Slot : job'[s] = job[s] \/ job'[s].kind = "connect"
    BY <1>4, LinkFacts, StartFacts DEF Connect, TypeOK, Jobs
  <2>2. TypeOK'
    BY <1>4, <2>1, PlainFacts, EmptyFacts, RememberFacts, TellFacts
    DEF Errors, Connect, ClearGroups, ResetFlagsButtons, TypeOK, clicks, Jobs, Quiet
  <2>3. Shape' /\ Filed'
    BY <1>4, <2>1, EmptyFacts DEF Connect, ClearGroups, Shape, Filed
  <2>4. QED
    BY <2>2, <2>3
<1>5. ASSUME NEW f \in combo_file.items, SelectFile(f) PROVE Window'
  <2> USE DEF SelectFile
  <2>1. conn \in Device /\ f \in File \cup {Prompt}
    BY <1>5 DEF Shape, TypeOK, Box
  <2>2. /\ combo_file' \in Box(File \cup {Prompt}) /\ combo_file'.text = f
        /\ combo_file'.items = combo_file.items
    BY <1>5, <2>1 DEF TypeOK, Box
  <2>3. CASE IsFile(f)
    <3>1. f \in File
      BY <2>1, <2>3 DEF IsFile
    <3>2. combo_from' \in Box(Group) /\ combo_from'.text \in combo_from'.items \cup {None}
      <4>1. CASE combo_from' = Empty
        BY <4>1, EmptyFacts
      <4>2. CASE f \in On(conn) /\ combo_from' \in AddItems(Empty, Has[saved[conn][f]])
        <5>1. Has[saved[conn][f]] \in SUBSET Group /\ Empty \in Box(Group)
          BY <2>1, <4>2, EmptyFacts, StoreFacts DEF TypeOK
        <5>2. QED
          BY <4>2, <5>1, EmptyFacts, AddFacts
      <4>3. QED
        BY <1>5, <2>3, <4>1, <4>2 DEF ReadOrEmpty, Readable
    <3>3. TypeOK'
      BY <1>5, <2>2, <2>3, <3>1, <3>2, PlainFacts, RememberFacts, TellFacts
      DEF Errors, TypeOK, UserActs, Reselect, ResetFlagsButtons, clicks, Quiet
    <3>4. Shape' /\ Filed'
      BY <1>5, <2>1, <2>2, <2>3, <3>1, <3>2, ConstantFacts DEF Shape, Filed, UserActs
    <3>5. QED
      BY <3>3, <3>4
  <2>4. CASE ~ IsFile(f)
    <3>1. TypeOK'
      BY <1>5, <2>2, <2>4, RememberFacts, TellFacts DEF Errors, TypeOK, UserActs, clicks, marks, Quiet
    <3>2. Shape' /\ Filed'
      BY <1>5, <2>1, <2>2, <2>4, ConstantFacts DEF Shape, Filed, UserActs, IsFile
    <3>3. QED
      BY <3>1, <3>2
  <2>5. QED
    BY <2>3, <2>4
<1>6. ASSUME NEW g \in Group, SelectFrom(g) PROVE Window'
  <2> USE DEF SelectFrom
  <2>1. /\ combo_from' \in Box(Group) /\ combo_from'.text = g
        /\ combo_from'.items = combo_from.items /\ g \in combo_from.items
    BY <1>6 DEF TypeOK, Box
  <2>2. TypeOK'
    BY <1>6, <2>1, PlainFacts, RememberFacts, TellFacts
    DEF Errors, TypeOK, UserActs, Reselect, ResetFlagsButtons, clicks, Quiet
  <2>3. Shape' /\ Filed'
    BY <1>6, <2>1 DEF Shape, Filed, UserActs
  <2>4. QED
    BY <2>2, <2>3
<1>7. ASSUME NEW g \in Group, SelectTo(g) PROVE Window'
  <2> USE DEF SelectTo
  <2>1. /\ combo_to' \in Box(Group) /\ combo_to'.text = g
        /\ combo_to'.items = combo_to.items /\ g \in combo_to.items
    BY <1>7 DEF TypeOK, Box
  <2>2. TypeOK'
    BY <1>7, <2>1, PlainFacts, RememberFacts, TellFacts
    DEF Errors, TypeOK, UserActs, Reselect, ResetFlagsButtons, clicks, Quiet
  <2>3. Shape' /\ Filed'
    BY <1>7, <2>1 DEF Shape, Filed, UserActs
  <2>4. QED
    BY <2>2, <2>3
<1>8. ASSUME NEW p \in Obj \cup Report, LoadObjects(p) PROVE Window'
  <2> USE DEF LoadObjects
  <2>1. /\ job' \in [Slot -> Jobs]
        /\ \A s \in Slot : job'[s] = job[s] \/ job'[s].kind = "object"
    <3>1. CASE Validated
      <4>1. Load("object", p) \in Jobs /\ Load("object", p).kind = "object"
        <5>1. p \in Part
          BY DEF Part
        <5>2. QED
          BY <3>1, <5>1, LoadFacts DEF Validated, Jobs
      <4>2. QED
        BY <1>8, <3>1, <4>1, StartFacts
    <3>2. CASE ~ Validated
      BY <1>8, <3>2 DEF TypeOK, Jobs
    <3>3. QED
      BY <3>1, <3>2
  <2>2. TypeOK'
    BY <1>8, <2>1, RememberFacts, TellFacts DEF Errors, TypeOK, UserActs, Jobs, Part, boxes, Quiet
  <2>3. Shape' /\ Filed'
    BY <1>8, <2>1 DEF Shape, Filed, UserActs, boxes
  <2>4. QED
    BY <2>2, <2>3
<1>9. ASSUME NEW p \in Rule, LoadRulebase(p) PROVE Window'
  <2> USE DEF LoadRulebase
  <2>1. /\ job' \in [Slot -> Jobs]
        /\ \A s \in Slot : job'[s] = job[s] \/ job'[s].kind = "rule"
    <3>1. CASE Validated
      <4>1. Load("rule", p) \in Jobs /\ Load("rule", p).kind = "rule"
        <5>1. p \in Part
          BY DEF Part
        <5>2. QED
          BY <3>1, <5>1, LoadFacts DEF Validated, Jobs
      <4>2. QED
        BY <1>9, <3>1, <4>1, StartFacts
    <3>2. CASE ~ Validated
      BY <1>9, <3>2 DEF TypeOK, Jobs
    <3>3. QED
      BY <3>1, <3>2
  <2>2. TypeOK'
    BY <1>9, <2>1, RememberFacts, TellFacts DEF Errors, TypeOK, UserActs, Jobs, Part, boxes, marks, Quiet
  <2>3. Shape' /\ Filed'
    BY <1>9, <2>1 DEF Shape, Filed, UserActs, boxes
  <2>4. QED
    BY <2>2, <2>3
<1>10. ASSUME NEW f \in File, NEW x \in Text, Import(f, x) PROVE Window'
  <2>1. conn \in Device /\ saved' \in [Device -> Store]
    <3>1. conn \in Device
      BY <1>10 DEF Import, TypeOK
    <3>2. [saved EXCEPT ![conn][f] = x] \in [Device -> Store]
      BY <3>1, StoredFacts DEF TypeOK
    <3>3. QED
      BY <1>10, <3>1, <3>2 DEF Import, TypeOK
  <2>2. CASE Restart
    BY <1>10, <2>1, <2>2, WindowRestart DEF Import, TypeOK
  <2>3. CASE ~ Restart
    <3>1. job' \in [Slot -> Jobs]
      BY <1>10, <2>1, <2>3, LinkFacts, StartFacts DEF Import, TypeOK, Jobs
    <3>2. TypeOK'
      BY <1>10, <2>1, <2>3, <3>1, RememberFacts, TellFacts
      DEF Errors, Import, TypeOK, UserActs, Jobs, window, boxes, clicks, marks, Quiet
    <3>3. Shape' /\ Filed'
      BY <1>10, <2>1, <2>3, ConstantFacts DEF Import, Shape, Filed, window, boxes
    <3>4. QED
      BY <3>2, <3>3
  <2>4. QED
    BY <2>2, <2>3
<1>11. QED
  BY <1>1, <1>2, <1>3, <1>4, <1>5, <1>6, <1>7, <1>8, <1>9, <1>10, LoadAssumption DEF User

LEMMA WindowWorker ==
  ASSUME Window, NEW s \in Slot, Worker(s)
  PROVE  Window'
<1> USE DEF Window
<1>1. ASSUME job' \in [Slot -> Jobs], UNCHANGED <<window, saved, steady, sent, told>>,
             \A u \in Slot : job'[u].kind = job[u].kind, done' \in SUBSET Part
      PROVE  Window'
  <2>1. TypeOK'
    BY <1>1 DEF TypeOK, Jobs, window, boxes, clicks, marks
  <2>2. Shape' /\ Filed'
    BY <1>1 DEF Shape, Filed, window, boxes
  <2>3. QED
    BY <2>1, <2>2
<1>2. CASE ConnectThread(s) \/ ToComboBoxes(s)
  BY <1>1, <1>2, AnswerFacts, KindFacts
  DEF ConnectThread, ToComboBoxes, Runs, Is, past, TypeOK
<1>3. CASE IronSkillet(s)
  BY <1>1, <1>3, AnswerFacts, KindFacts DEF IronSkillet, Runs, Is, past, TypeOK
<1>4. CASE SetupSSH(s)
  <2>1. CASE Abort
    BY <2>1, WindowAbort
  <2>2. CASE ~ Abort
    <3>1. job[s] \in LinkJob /\ On(job[s].dev) \in SUBSET File
      BY <1>4, KindFacts, StoreFacts DEF SetupSSH, Runs, Is, TypeOK, LinkJob
    <3> DEFINE j == [job[s] EXCEPT !.ans = "success", !.files = On(job[s].dev)]
    <3>2. j \in LinkJob /\ j.kind = job[s].kind
      BY <3>1 DEF LinkJob
    <3>3. job' = [job EXCEPT ![s] = j]
      BY <1>4, <2>2 DEF SetupSSH
    <3>4. job' \in [Slot -> Jobs] /\ \A u \in Slot : job'[u].kind = job[u].kind
      BY <3>2, <3>3 DEF TypeOK, Jobs
    <3>5. QED
      BY <1>1, <1>4, <2>2, <3>4 DEF SetupSSH, past, TypeOK
  <2>3. QED
    BY <2>1, <2>2
<1>5. CASE APIRequest(s)
  <2>1. job[s] \in LoadJob /\ job[s].kind \in {"object", "rule"}
    BY <1>5, KindFacts DEF APIRequest, Runs, Is
  <2>2. PICK a \in {"success", "error", "lost"} : Answer(s, a)
    BY <1>5 DEF APIRequest
  <2>3. done' \in SUBSET Part
    <3>1. job[s].part \in Part
      BY <2>1 DEF LoadJob, LoadsOf
    <3>2. QED
      BY <1>5, <3>1 DEF APIRequest, Merged, TypeOK
  <2>4. QED
    BY <1>1, <1>5, <2>1, <2>2, <2>3, AnswerFacts DEF APIRequest
<1>6. QED
  BY <1>2, <1>3, <1>4, <1>5 DEF Worker

LEMMA WindowHandler ==
  ASSUME Window, NEW s \in Slot, Handler(s)
  PROVE  Window'
<1> USE DEF Window
<1>1. CASE SetConnectValues(s)
  <2>1. CASE Abort
    BY <2>1, WindowAbort
  <2>2. CASE Answered(s, "success") /\ ~ Abort
    <3>1. job[s].dev \in Device /\ conn' = job[s].dev
      BY <1>1, <2>2, KindFacts DEF SetConnectValues, Is, Answered, LinkJob
    <3>2. Link("combo", conn') \in Jobs /\ Link("ssh", conn') \in Jobs
      BY <3>1, LinkFacts DEF Jobs
    <3>3. job' \in [Slot -> Jobs]
      BY <1>1, <2>2, <3>2 DEF SetConnectValues, Answered, TypeOK, Jobs
    <3>4. TypeOK'
      BY <1>1, <2>2, <3>1, <3>3, RememberFacts, TellFacts
      DEF Errors, SetConnectValues, Answered, TypeOK, Jobs, boxes, clicks, marks
    <3>5. Shape' /\ Filed'
      BY <1>1, <2>2, <3>1, ConstantFacts
      DEF SetConnectValues, Answered, Shape, Filed, boxes
    <3>6. QED
      BY <3>4, <3>5
  <2>3. CASE ~ Answered(s, "success")
    <3>1. End(s) /\ UNCHANGED <<window, saved, past>>
      BY <1>1, <2>3 DEF SetConnectValues
    <3>2. TypeOK'
      BY <3>1, EndFacts DEF TypeOK, Jobs, window, boxes, clicks, marks, past
    <3>3. Shape' /\ Filed'
      BY <3>1, EndFacts, IdleFacts DEF Shape, Filed, window, boxes
    <3>4. QED
      BY <3>2, <3>3
  <2>4. QED
    BY <2>1, <2>2, <2>3
<1>2. CASE FillToComboBoxes(s)
  <2>1. job[s] \in LinkJob /\ conn # None
    BY <1>2, KindFacts DEF FillToComboBoxes, Is, Shape
  <2>2. running_config' \in Device /\ Own[running_config'] \in SUBSET Group
    BY <1>2, <2>1, ConstantFacts DEF FillToComboBoxes, TypeOK, LinkJob
  <2>4. /\ combo_to' \in Box(Group) /\ combo_to'.text \in combo_to'.items \cup {None}
        /\ combo_to.text # None => combo_to'.text # None
    <3>1. combo_to' \in AddItems(combo_to, Own[running_config'])
      BY <1>2 DEF FillToComboBoxes
    <3>2. CASE combo_to.text # None \/ Own[running_config'] = {}
      BY <2>2, <3>1, <3>2 DEF AddItems, TypeOK, Shape, Box
    <3>3. CASE combo_to.text = None /\ Own[running_config'] # {}
      BY <2>2, <3>1, <3>3 DEF AddItems, Box
    <3>4. QED
      BY <3>2, <3>3
  <2>5. /\ flags' \in SUBSET Obj /\ color' \in [Part -> {"plain", "green", "red"}]
        /\ sent' \in SUBSET Part /\ done' \in SUBSET Part /\ told' \in SUBSET Errors
    BY <1>2, PlainFacts, RememberFacts, TellFacts
    DEF Errors, FillToComboBoxes, Reselect, ResetFlagsButtons, TypeOK, marks
  <2>6. TypeOK'
    BY <1>2, <2>2, <2>4, <2>5, EndFacts DEF Errors, FillToComboBoxes, TypeOK, clicks, Jobs
  <2>7. Shape' /\ Filed'
    BY <1>2, <2>1, <2>4 DEF FillToComboBoxes, Shape, Filed
  <2>8. QED
    BY <2>6, <2>7
<1>3. CASE NothingToFill(s)
  BY <1>3, WindowAbort DEF NothingToFill
<1>4. CASE LoadSavedConfigs(s)
  <2>1. job[s].files \in SUBSET File /\ conn # None
    BY <1>4, KindFacts DEF LoadSavedConfigs, Is, Shape, LinkJob
  <2>2. combo_file' \in Box(File \cup {Prompt}) /\ combo_file'.text = Prompt
    BY <1>4, <2>1 DEF LoadSavedConfigs, Box
  <2>3. TypeOK'
    BY <1>4, <2>2, EndFacts DEF LoadSavedConfigs, TypeOK, Jobs, clicks, marks, past
  <2>4. Shape' /\ Filed'
    BY <1>4, <2>1, <2>2 DEF LoadSavedConfigs, Shape, Filed
  <2>5. QED
    BY <2>3, <2>4
<1>5. ASSUME End(s), UNCHANGED <<conn, running_config, boxes, from_file, clicks, flags, dialog, saved, past>>,
             color' \in [Part -> {"plain", "green", "red"}]
      PROVE  Window'
  <2>1. TypeOK'
    BY <1>5, EndFacts DEF TypeOK, Jobs, boxes, clicks, past
  <2>2. Shape' /\ Filed'
    BY <1>5, EndFacts, IdleFacts DEF Shape, Filed, boxes
  <2>3. QED
    BY <2>1, <2>2
<1>6. CASE ConnectValues(s)
  <2>1. color' \in [Part -> {"plain", "green", "red"}]
    BY <1>6 DEF ConnectValues, Colour, TypeOK
  <2>2. QED
    BY <1>5, <1>6, <2>1 DEF ConnectValues
<1>7. CASE ConnectRuleValues(s)
  <2>1. CASE Abort
    BY <2>1, WindowAbort
  <2>2. CASE ~ Abort
    <3>1. color' \in [Part -> {"plain", "green", "red"}]
      BY <1>7, <2>2 DEF ConnectRuleValues, Colour, TypeOK
    <3>2. QED
      BY <1>5, <1>7, <2>2, <3>1 DEF ConnectRuleValues
  <2>3. QED
    BY <2>1, <2>2
<1>8. CASE PrintIronSkillet(s)
  <2>1. CASE Abort
    BY <2>1, WindowAbort
  <2>2. CASE ~ Abort
    BY <1>5, <1>8, <2>2 DEF PrintIronSkillet, TypeOK, window, marks
  <2>3. QED
    BY <2>1, <2>2
<1>9. QED
  BY <1>1, <1>2, <1>3, <1>4, <1>6, <1>7, <1>8 DEF Handler

LEMMA WindowStep == Window /\ [Next]_vars => Window'
<1> SUFFICES ASSUME Window, [Next]_vars PROVE Window'
  OBVIOUS
<1>1. CASE Destroyed
  BY <1>1, WindowAbort DEF Destroyed, Window
<1>2. CASE UNCHANGED vars
  BY <1>2 DEF vars, window, boxes, clicks, marks, past, Window, TypeOK, Shape, Filed
<1>3. QED
  BY <1>1, <1>2, WindowUser, WindowWorker, WindowHandler DEF Next

(* What holds however the user and the threads interleave is kept by every *)
(* step.                                                                   *)
THEOREM InAnyCase == Spec => []Window
BY WindowInit, WindowStep, PTL DEF Spec

(* Every text, thread and answer is one the window has a meaning for: type *)
(* correctness of load_partial.py's window and its threads.                *)
THEOREM TypeCorrect == Spec => []TypeOK
<1>1. Window => TypeOK
  BY DEF Window
<1>2. QED
  BY <1>1, InAnyCase, PTL

-----------------------------------------------------------------------------
(* For a user who waits.                                                   *)

(* What is offered stays right while boxes, device and files stay and no   *)
(* list of files has come in.                                              *)
LEMMA SoundKept ==
  ASSUME Sound, told \subseteq told', dialog' => Quiet',
         UNCHANGED <<conn, running_config, combo_file, combo_from, combo_to, from_file, saved>>,
         \A s \in Slot : Is(s, "ssh") => \E u \in Slot : Is(u, "ssh")'
  PROVE  Sound'
<1>1. AsRead'
  BY DEF Sound, AsRead, On
<1>2. QED
  BY <1>1 DEF Sound

(* With no groups on offer there is nothing to be wrong.                   *)
LEMMA SoundEmpty ==
  ASSUME combo_from' = Empty, combo_to' = Empty, ~ dialog'
  PROVE  Sound'
BY EmptyFacts DEF Sound, AsRead

LEMMA PromisesRestart == Restart => Promises'
<1> SUFFICES ASSUME Restart PROVE Promises'
  OBVIOUS
<1>1. \A s \in Slot : job'[s].kind = "none"
  BY IdleFacts DEF Restart
<1>2. Connecting' /\ Loading' /\ Sound'
  BY <1>1, EmptyFacts, SoundEmpty DEF Restart, Connecting, Loading, Is
<1>3. GreenMeansLoaded' /\ NoFalseAssurance'
  BY DEF Restart, ResetFlagsButtons, Plain, GreenMeansLoaded, NoFalseAssurance
<1>4. QED
  BY <1>2, <1>3 DEF Promises, Patience

LEMMA PromisesInit == Init => Promises
<1> SUFFICES ASSUME Init PROVE Promises
  OBVIOUS
<1>1. \A s \in Slot : job[s].kind = "none"
  BY IdleFacts DEF Init
<1>2. Connecting /\ Loading /\ Sound
  BY <1>1, EmptyFacts DEF Init, Connecting, Loading, Sound, AsRead, Is
<1>3. GreenMeansLoaded /\ NoFalseAssurance
  BY DEF Init, Plain, GreenMeansLoaded, NoFalseAssurance
<1>4. QED
  BY <1>2, <1>3 DEF Promises, Patience

(* Threads that end, and nothing else: what they implied is implied by     *)
(* fewer.                                                                  *)
LEMMA Calmer ==
  ASSUME Connecting, Loading, UNCHANGED <<conn, combo_from, combo_to, from_file, clicks, marks>>,
         done' = done, \A s \in Slot : job'[s] = job[s] \/ job'[s].kind = "none"
  PROVE  Connecting' /\ Loading'
<1>1. Connecting'
  BY DEF Connecting, Unmarked, Is, marks
<1>2. Loading'
  BY DEF Loading, Alone, Chosen, Answered, Is, clicks
<1>3. QED
  BY <1>1, <1>2

(* While nothing is at work the user may choose as he likes.               *)
LEMMA Idling ==
  ASSUME Quiet, job' = job
  PROVE  Connecting' /\ Loading' /\ Quiet'
BY DEF Quiet, Connecting, Loading, Is

LEMMA Unpromised ==
  ASSUME flags' = {}, color' = Plain
  PROVE  GreenMeansLoaded' /\ NoFalseAssurance'
BY DEF GreenMeansLoaded, NoFalseAssurance, Plain

LEMMA PromisesUser ==
  ASSUME Window, Window', Promises, User
  PROVE  Promises'
<1> SUFFICES ASSUME steady' PROVE Promises'
  BY DEF Promises, Patience, GreenMeansLoaded, NoFalseAssurance
<1> USE DEF Window
<1>a. ASSUME UserActs PROVE Quiet /\ Connecting /\ Loading /\ Sound /\ steady /\ ~ dialog
  BY <1>a DEF UserActs, Promises, Patience
<1>b. ASSUME NEW s, NEW d, Remember(s, d) PROVE sent' = s /\ done' = d
  BY <1>b DEF Remember
<1>t. ASSUME NEW e, Tell(e) PROVE told' = e
  BY <1>t DEF Tell
<1>1. CASE Quit
  BY <1>1, PromisesRestart DEF Quit, Abort
<1>2. CASE OpenSkillet
  <2>1. Connecting' /\ Loading' /\ Sound'
    BY <1>2, <1>a, <1>t, Idling, SoundKept DEF OpenSkillet, boxes, Is
  <2>2. GreenMeansLoaded' /\ NoFalseAssurance'
    BY <1>2, <1>a, <1>b DEF OpenSkillet, Promises, GreenMeansLoaded, NoFalseAssurance, marks
  <2>3. QED
    BY <2>1, <2>2 DEF Promises, Patience
<1>3. CASE CloseSkillet
  <2>1. steady /\ Quiet /\ Sound
    BY <1>3 DEF CloseSkillet, past, Promises, Patience, Sound
  <2>2. \A s \in Slot : job'[s].kind \in {"none", "skillet"}
    <3>1. Load("skillet", None).kind = "skillet"
      BY DEF Load
    <3>2. \A s \in Slot : job'[s] \in {job[s], Load("skillet", None)}
      BY <1>3 DEF CloseSkillet, Start, TypeOK
    <3>3. QED
      BY <2>1, <3>1, <3>2 DEF Quiet, Is
  <2>3. Connecting' /\ Loading'
    BY <2>2 DEF Connecting, Loading, Is
  <2>4. Sound'
    BY <1>3, <2>1, SoundKept DEF CloseSkillet, Quiet, Is, boxes, past
  <2>5. GreenMeansLoaded' /\ NoFalseAssurance'
    BY <1>3 DEF CloseSkillet, past, Promises, GreenMeansLoaded, NoFalseAssurance, marks
  <2>6. QED
    BY <2>3, <2>4, <2>5 DEF Promises, Patience
<1>4. ASSUME NEW d \in Device, Connect(d) PROVE Promises'
  <2>1. /\ Quiet /\ ~ dialog' /\ combo_from' = Empty /\ combo_to' = Empty
        /\ flags' = {} /\ color' = Plain
    BY <1>4 DEF Connect, ClearGroups, ResetFlagsButtons
  <2>2. /\ \A s \in Slot : job'[s].kind \in {"none", "connect"}
        /\ \A s, u \in Slot : job'[s].kind = "connect" /\ job'[u].kind = "connect" => s = u
    <3>1. CASE Start(Link("connect", d))
      BY <2>1, <3>1, StartAlone, LinkFacts
    <3>2. CASE UNCHANGED job
      BY <2>1, <3>2 DEF Quiet, Is
    <3>3. QED
      BY <1>4, <3>1, <3>2 DEF Connect
  <2>3. Connecting' /\ Loading' /\ Sound'
    BY <2>1, <2>2, EmptyFacts, SoundEmpty DEF Connecting, Loading, Unmarked, Is
  <2>4. QED
    BY <2>1, <2>3, Unpromised DEF Promises, Patience
<1>5. ASSUME NEW f \in combo_file.items, SelectFile(f) PROVE Promises'
  <2> USE DEF SelectFile
  <2>1. Connecting' /\ Loading' /\ Quiet'
    BY <1>5, <1>a, Idling
  <2>2. CASE IsFile(f)
    <3>1. /\ conn \in Device /\ f \in File
          /\ UNCHANGED <<conn, running_config, combo_to, saved>> /\ from_file' = f
      BY <1>5, <2>2 DEF Shape, TypeOK, Box, IsFile
    <3>4. AsRead' => Sound'
      <4>1. told' = told \ {"import"} /\ ~ dialog' /\ Sound
        BY <1>5, <1>a, <1>t, <2>2
      <4>2. QED
        BY <3>1, <4>1 DEF Sound
    <3>2. ASSUME combo_from' = Empty PROVE Sound'
      <4>1. AsRead'
        BY <3>2, EmptyFacts DEF AsRead
      <4>2. QED
        BY <3>4, <4>1
    <3>3. ASSUME f \in On(conn), combo_from' \in AddItems(Empty, Has[saved[conn][f]])
          PROVE  Sound'
      <4>1. combo_from'.items = Has[saved[conn][f]]
        <5>1. Has[saved[conn][f]] \in SUBSET Group /\ Empty \in Box(Group)
          BY <3>1, <3>3, EmptyFacts, StoreFacts DEF TypeOK
        <5>2. combo_from'.items = Empty.items \cup Has[saved[conn][f]]
          BY <3>3, <5>1, EmptyFacts, AddFacts
        <5>3. QED
          BY <5>2, EmptyFacts
      <4>2. AsRead'
        BY <3>1, <3>3, <4>1 DEF AsRead, On
      <4>3. QED
        BY <3>4, <4>2
    <3>5. Sound'
      <4>1. combo_from' \in ReadOrEmpty(f)
        BY <1>5, <2>2
      <4>2. QED
        BY <3>2, <3>3, <4>1 DEF ReadOrEmpty, Readable
    <3>6. GreenMeansLoaded' /\ NoFalseAssurance'
      BY <1>5, <2>2, Unpromised DEF Reselect, ResetFlagsButtons
    <3>7. QED
      BY <2>1, <3>5, <3>6 DEF Promises, Patience
  <2>3. CASE ~ IsFile(f)
    <3>1. Sound'
      <4>1. combo_file'.text = Prompt
        BY <1>5, <2>3 DEF IsFile, TypeOK, Box
      <4>2. QED
        BY <1>5, <1>a, <1>t, <2>3, <4>1 DEF Sound, AsRead
    <3>2. GreenMeansLoaded' /\ NoFalseAssurance'
      BY <1>5, <1>a, <1>b, <2>3 DEF Promises, GreenMeansLoaded, NoFalseAssurance, marks
    <3>3. QED
      BY <2>1, <3>1, <3>2 DEF Promises, Patience
  <2>4. QED
    BY <2>2, <2>3
<1>6. ASSUME NEW g \in Group, SelectFrom(g) PROVE Promises'
  <2>1. Connecting' /\ Loading' /\ Quiet'
    BY <1>6, <1>a, Idling DEF SelectFrom
  <2>2. Sound'
    <3>1. combo_from'.items = combo_from.items
      BY <1>6 DEF SelectFrom, TypeOK, Box
    <3>2. AsRead'
      BY <1>6, <1>a, <1>t, <3>1 DEF SelectFrom, Sound, AsRead, On, Is
    <3>3. QED
      BY <1>6, <1>a, <1>t, <3>1, <3>2 DEF SelectFrom, Sound
  <2>3. QED
    BY <1>6, <2>1, <2>2, Unpromised DEF SelectFrom, Reselect, ResetFlagsButtons, Promises, Patience
<1>7. ASSUME NEW g \in Group, SelectTo(g) PROVE Promises'
  <2>1. Connecting' /\ Loading' /\ Quiet'
    BY <1>7, <1>a, Idling DEF SelectTo
  <2>2. Sound'
    <3>1. combo_to'.items = combo_to.items
      BY <1>7 DEF SelectTo, TypeOK, Box
    <3>2. AsRead'
      BY <1>7, <1>a, <1>t, <3>1 DEF SelectTo, Sound, AsRead, On, Is
    <3>3. QED
      BY <1>7, <1>a, <1>t, <3>1, <3>2 DEF SelectTo, Sound
  <2>3. QED
    BY <1>7, <2>1, <2>2, Unpromised DEF SelectTo, Reselect, ResetFlagsButtons, Promises, Patience
<1>8. ASSUME NEW kind \in {"object", "rule"}, NEW p \in Part, UserActs, Validated,
             Start(Load(kind, p)), Tell(told),
             UNCHANGED <<conn, running_config, boxes, from_file, dialog, saved>>,
             p = IF kind = "object" THEN obj' ELSE rule'
      PROVE  Connecting' /\ Loading' /\ Sound'
  <2>1. /\ Load(kind, p).kind = kind /\ Load(kind, p).part = p
        /\ Load(kind, p).ans = "running" /\ Chosen(Load(kind, p))
    BY <1>8, LoadFacts DEF Validated
  <2>2. PICK s \in Slot : job'[s] = Load(kind, p) /\ \A u \in Slot : u # s => job'[u].kind = "none"
    BY <1>8, <1>a, StartAlone
  <2>3. Connecting'
    BY <2>1, <2>2 DEF Connecting, Is
  <2>4. Loading'
    BY <1>8, <2>1, <2>2 DEF Loading, Alone, Chosen, Answered, Is, boxes
  <2>5. Sound'
    BY <1>8, <1>a, <1>t, SoundKept DEF Quiet, Is, boxes
  <2>6. QED
    BY <2>3, <2>4, <2>5
<1>9. ASSUME NEW p \in Obj \cup Report, LoadObjects(p) PROVE Promises'
  <2> USE DEF LoadObjects
  <2>1. Connecting' /\ Loading' /\ Sound'
    <3>1. CASE Validated
      BY <1>8, <1>9, <3>1 DEF Part
    <3>2. CASE ~ Validated
      BY <1>9, <1>a, <1>t, <3>2, Idling, SoundKept DEF boxes, Is
    <3>3. QED
      BY <3>1, <3>2
  <2>2. GreenMeansLoaded' /\ NoFalseAssurance'
    BY <1>9, <1>a, <1>b DEF Promises, GreenMeansLoaded, NoFalseAssurance
  <2>3. QED
    BY <2>1, <2>2 DEF Promises, Patience
<1>10. ASSUME NEW p \in Rule, LoadRulebase(p) PROVE Promises'
  <2> USE DEF LoadRulebase
  <2>1. Connecting' /\ Loading' /\ Sound'
    <3>1. CASE Validated
      BY <1>8, <1>10, <3>1 DEF Part
    <3>2. CASE ~ Validated
      BY <1>10, <1>a, <1>t, <3>2, Idling, SoundKept DEF boxes, Is
    <3>3. QED
      BY <3>1, <3>2
  <2>2. GreenMeansLoaded' /\ NoFalseAssurance'
    BY <1>10, <1>a, <1>b DEF Promises, GreenMeansLoaded, NoFalseAssurance, marks
  <2>3. QED
    BY <2>1, <2>2 DEF Promises, Patience
<1>11. ASSUME NEW f \in File, NEW x \in Text, Import(f, x) PROVE Promises'
  <2>1. CASE Restart
    BY <2>1, PromisesRestart
  <2>2. CASE ~ Restart
    <3>1. UserActs /\ UNCHANGED window /\ Remember(sent, done)
      BY <1>11, <2>2 DEF Import
    <3>2. \A s \in Slot : job'[s].kind \in {"none", "ssh"}
      <4>1. CASE UNCHANGED job
        BY <3>1, <4>1, <1>a DEF Quiet, Is
      <4>2. CASE Start(Link("ssh", conn))
        BY <3>1, <4>2, <1>a, StartAlone DEF Link
      <4>3. QED
        BY <1>11, <2>2, <4>1, <4>2 DEF Import
    <3>3. Connecting' /\ Loading'
      BY <3>2 DEF Connecting, Loading, Is
    <3>4. Sound'
      <4>1. CASE Start(Link("ssh", conn)) /\ Tell(told)
        <5>1. \E u \in Slot : Is(u, "ssh")'
          <6>1. \E u \in Slot : job'[u] = Link("ssh", conn)
            BY <3>1, <1>a, <4>1, StartAlone
          <6>2. QED
            BY <6>1 DEF Link, Is
        <5>2. AsRead'
          BY <5>1 DEF AsRead
        <5>3. QED
          BY <3>1, <1>a, <1>t, <4>1, <5>2 DEF Sound, window, boxes
      <4>2. CASE UNCHANGED <<job, saved>> /\ Tell(told)
        BY <3>1, <1>a, <1>t, <4>2, SoundKept DEF window, boxes, Is
      <4>3. CASE Tell(told \cup {"import"})
        <5>1. told' = told \cup {"import"}
          BY <1>t, <4>3
        <5>2. AsRead'
          BY <5>1 DEF AsRead
        <5>3. QED
          BY <3>1, <1>a, <5>1, <5>2 DEF Sound, window, boxes
      <4>4. QED
        BY <1>11, <2>2, <4>1, <4>2, <4>3 DEF Import
    <3>5. GreenMeansLoaded' /\ NoFalseAssurance'
      BY <3>1, <1>a, <1>b DEF Promises, GreenMeansLoaded, NoFalseAssurance, window, marks
    <3>6. QED
      BY <3>3, <3>4, <3>5 DEF Promises, Patience
  <2>3. QED
    BY <2>1, <2>2
<1>12. QED
  BY <1>1, <1>2, <1>3, <1>4, <1>5, <1>6, <1>7, <1>9, <1>10, <1>11, LoadAssumption DEF User

LEMMA PromisesWorker ==
  ASSUME Window, Window', Promises, NEW s \in Slot, Worker(s)
  PROVE  Promises'
<1> SUFFICES ASSUME steady' PROVE Promises'
  BY DEF Promises, Patience, GreenMeansLoaded, NoFalseAssurance
<1> USE DEF Window
<1>1. ASSUME steady, UNCHANGED <<window, saved, sent, told>>, done \subseteq done',
             \A u \in Slot : u # s => job'[u] = job[u],
             job'[s].kind = job[s].kind,
             Is(s, "combo") => job'[s].dev = job[s].dev,
             job[s].kind \in {"object", "rule"} =>
               /\ job'[s].part = job[s].part
               /\ Chosen(job[s]) => Chosen(job'[s])
               /\ job'[s].ans = "success" => job'[s].part \in done'
      PROVE  Promises'
  <2>1. Connecting /\ Loading /\ Sound
    BY <1>1 DEF Promises, Patience
  <2>2. \A u \in Slot : job'[u].kind = job[u].kind
    BY <1>1
  <2>3. Connecting'
    BY <1>1, <2>1, <2>2 DEF Connecting, Unmarked, Is, window, boxes, marks
  <2>4. Loading'
    <3> SUFFICES ASSUME NEW u \in Slot, job'[u].kind \in {"object", "rule"}
                 PROVE  /\ Alone(u)' /\ Chosen(job'[u])
                        /\ job'[u].part = IF job'[u].kind = "object" THEN obj ELSE rule
                        /\ job'[u].ans = "success" => job'[u].part \in done'
      BY <1>1 DEF Loading, Answered, Is, Chosen, window, boxes, clicks
    <3>1. /\ Alone(u) /\ Chosen(job[u])
          /\ job[u].part = IF job[u].kind = "object" THEN obj ELSE rule
          /\ job[u].ans = "success" => job[u].part \in done
      BY <2>1, <2>2 DEF Loading, Answered, Is
    <3>2. Alone(u)'
      BY <2>2, <3>1 DEF Alone, Is
    <3>3. QED
      BY <1>1, <2>2, <3>1, <3>2
  <2>5. Sound'
    <3>1. /\ told \subseteq told' /\ (dialog' => Quiet')
          /\ UNCHANGED <<conn, running_config, combo_file, combo_from, combo_to, from_file, saved>>
          /\ \A u \in Slot : Is(u, "ssh") => Is(u, "ssh")'
      BY <1>1, <2>1, <2>2 DEF Sound, Quiet, Is, window, boxes
    <3>2. QED
      BY <2>1, <3>1, SoundKept
  <2>6. GreenMeansLoaded' /\ NoFalseAssurance'
    BY <1>1 DEF Promises, GreenMeansLoaded, NoFalseAssurance, window, marks
  <2>7. QED
    BY <2>3, <2>4, <2>5, <2>6 DEF Promises, Patience
<1>2. CASE ConnectThread(s) \/ ToComboBoxes(s)
  <2>1. job[s].kind \in {"connect", "combo"} /\ job[s] \in LinkJob
    BY <1>2, KindFacts DEF ConnectThread, ToComboBoxes, Runs, Is
  <2>2. PICK a \in {"success", "error"} : Answer(s, a)
    BY <1>2 DEF ConnectThread, ToComboBoxes
  <2>3. QED
    BY <1>1, <1>2, <2>1, <2>2, AnswerFacts DEF ConnectThread, ToComboBoxes, past
<1>3. CASE IronSkillet(s)
  <2>1. job[s].kind = "skillet" /\ job[s] \in LoadJob
    BY <1>3, KindFacts DEF IronSkillet, Runs, Is
  <2>2. PICK a \in {"success", "lost"} : Answer(s, a)
    BY <1>3 DEF IronSkillet
  <2>3. QED
    BY <1>1, <1>3, <2>1, <2>2, AnswerFacts DEF IronSkillet, past, Is
<1>4. CASE SetupSSH(s)
  <2>1. CASE Abort
    BY <2>1, PromisesRestart DEF Abort
  <2>2. CASE ~ Abort
    <3>1. job[s].kind = "ssh" /\ job[s] \in LinkJob
      BY <1>4, KindFacts DEF SetupSSH, Runs, Is
    <3> DEFINE j == [job[s] EXCEPT !.ans = "success", !.files = On(job[s].dev)]
    <3>2. j.kind = job[s].kind
      BY <3>1 DEF LinkJob
    <3>3. job' = [job EXCEPT ![s] = j] /\ UNCHANGED <<window, saved, past>>
      BY <1>4, <2>2 DEF SetupSSH
    <3> HIDE DEF j
    <3>4. job'[s] = j /\ \A u \in Slot : u # s => job'[u] = job[u]
      BY <3>3 DEF TypeOK
    <3>5. QED
      BY <1>1, <3>1, <3>2, <3>3, <3>4 DEF past, Is
  <2>3. QED
    BY <2>1, <2>2
<1>5. CASE APIRequest(s)
  <2>1. /\ job[s].kind \in {"object", "rule"} /\ job[s] \in LoadJob
        /\ UNCHANGED <<window, saved, sent, told>> /\ steady
    BY <1>5, KindFacts DEF APIRequest, Runs, Is
  <2>2. Chosen(job[s])
    BY <2>1 DEF Promises, Patience, Loading
  <2>3. PICK a \in {"success", "error", "lost"} :
          /\ Answer(s, a)
          /\ \/ Merged(job[s])
             \/ a # "success" /\ UNCHANGED done
    BY <1>5 DEF APIRequest
  <2>4. done \subseteq done' /\ (a = "success" => job[s].part \in done')
    BY <2>1, <2>2, <2>3 DEF Merged
  <2>5. QED
    BY <1>1, <2>1, <2>3, <2>4, AnswerFacts DEF Is
<1>6. QED
  BY <1>2, <1>3, <1>4, <1>5 DEF Worker

LEMMA PromisesHandler ==
  ASSUME Window, Window', Promises, NEW s \in Slot, Handler(s)
  PROVE  Promises'
<1> SUFFICES ASSUME steady' PROVE Promises'
  BY DEF Promises, Patience, GreenMeansLoaded, NoFalseAssurance
<1> USE DEF Window
<1>a. CASE Abort
  BY <1>a, PromisesRestart DEF Abort
<1>b. ASSUME steady PROVE Connecting /\ Loading /\ Sound
  BY <1>b DEF Promises, Patience
(* A thread ends and at most a button changes.                             *)
<1>c. ASSUME End(s), steady, ~ Is(s, "none"), ~ Is(s, "ssh"),
             UNCHANGED <<conn, running_config, boxes, from_file, flags, dialog, saved, past>>,
             \/ UNCHANGED <<clicks, color>>
             \/ job[s].kind \in {"object", "rule"} /\ GreenMeansLoaded'
      PROVE  Promises'
  <2>1. \A u \in Slot : job'[u] = job[u] \/ job'[u].kind = "none"
    BY <1>c, EndFacts, IdleFacts
  <2>2. Connecting' /\ Loading'
    <3>1. CASE UNCHANGED <<clicks, color>>
      BY <1>b, <1>c, <2>1, <3>1, Calmer DEF marks, boxes, past
    <3>2. CASE job[s].kind \in {"object", "rule"}
      <4>1. \A u \in Slot : job'[u].kind = "none"
        BY <1>b, <1>c, <3>2, EndFacts, IdleFacts DEF Loading, Alone, Is
      <4>2. QED
        BY <4>1 DEF Connecting, Loading, Is
    <3>3. QED
      BY <1>c, <3>1, <3>2
  <2>3. Sound'
    <3>1. /\ \A u \in Slot : Is(u, "ssh") => Is(u, "ssh")'
          /\ told \subseteq told' /\ (dialog' => Quiet')
          /\ UNCHANGED <<conn, running_config, combo_file, combo_from, combo_to, from_file, saved>>
      BY <1>b, <1>c, EndFacts DEF Sound, Quiet, Is, boxes, past
    <3>2. QED
      BY <1>b, <1>c, <3>1, SoundKept
  <2>4. GreenMeansLoaded' /\ NoFalseAssurance'
    BY <1>c DEF past, Promises, GreenMeansLoaded, NoFalseAssurance
  <2>5. QED
    BY <2>2, <2>3, <2>4 DEF Promises, Patience
<1>1. CASE SetConnectValues(s) /\ ~ Abort
  <2>1. CASE ~ Answered(s, "success")
    <3>1. End(s) /\ UNCHANGED <<window, saved, past>>
      BY <1>1, <2>1 DEF SetConnectValues
    <3>2. ~ Is(s, "none") /\ ~ Is(s, "ssh")
      BY <1>1 DEF SetConnectValues, Is
    <3>3. QED
      BY <1>c, <3>1, <3>2 DEF window, boxes, clicks, marks, past
  <2>2. CASE Answered(s, "success")
    <3>1. /\ steady /\ conn' = job[s].dev /\ Is(s, "connect")
          /\ UNCHANGED <<boxes, from_file, clicks, marks, dialog, saved>>
      BY <1>1, <2>2 DEF SetConnectValues, Answered
    <3>2. PICK u \in Slot \ {s} :
            job' = [job EXCEPT ![s] = Link("combo", conn'), ![u] = Link("ssh", conn')]
      BY <1>1, <2>2 DEF SetConnectValues, Answered
    <3>3. /\ job'[s] = Link("combo", conn') /\ job'[u] = Link("ssh", conn')
          /\ \A v \in Slot : v # s /\ v # u => job'[v] = job[v]
      BY <3>2 DEF TypeOK
    <3>4. /\ job'[s].kind = "combo" /\ job'[s].dev = conn' /\ job'[u].kind = "ssh"
      BY <3>3 DEF Link
    <3>5. /\ \A v \in Slot : v # s => job[v].kind \notin {"connect", "combo"}
          /\ \A v \in Slot : job[v].kind \notin {"object", "rule"}
          /\ Unmarked /\ ~ dialog
      BY <1>b, <3>1 DEF Connecting, Loading, Sound, Alone, Quiet, Is
    <3>6. Connecting'
      BY <3>1, <3>3, <3>4, <3>5 DEF Connecting, Unmarked, Is, boxes
    <3>7. Loading'
      BY <3>3, <3>4, <3>5 DEF Loading
    <3>8. Sound'
      BY <3>1, <3>5, SoundEmpty DEF Unmarked, boxes
    <3>9. GreenMeansLoaded' /\ NoFalseAssurance'
      BY <3>1, <3>5, Unpromised DEF Unmarked, marks
    <3>10. QED
      BY <3>6, <3>7, <3>8, <3>9 DEF Promises, Patience
  <2>3. QED
    BY <2>1, <2>2
<1>2. CASE FillToComboBoxes(s)
  <2>1. /\ steady /\ Is(s, "combo") /\ running_config' # None
        /\ UNCHANGED <<conn, combo_file, combo_from, from_file, clicks, dialog, saved>> /\ End(s)
    BY <1>2 DEF FillToComboBoxes
  <2>2. /\ combo_to = Empty /\ job[s].dev = conn
    BY <1>b, <2>1 DEF Connecting
  <2>3. running_config' \in Device /\ Own[running_config'] \in SUBSET Group
    BY <2>1, ConstantFacts DEF TypeOK
  <2>4. combo_to'.items = Own[running_config']
    <3>1. combo_to' \in AddItems(Empty, Own[running_config'])
      BY <1>2, <2>1, <2>2 DEF FillToComboBoxes
    <3>2. Empty \in Box(Group)
      BY EmptyFacts
    <3>3. combo_to'.items = Empty.items \cup Own[running_config']
      BY <2>3, <3>1, <3>2, EmptyFacts, AddFacts
    <3>4. QED
      BY <3>3, EmptyFacts
  <2>5. \A u \in Slot : job'[u].kind \notin {"connect", "combo", "object", "rule"}
    <3>1. \A u \in Slot : u # s => job[u].kind \notin {"connect", "combo", "object", "rule"}
      BY <1>b, <2>1 DEF Connecting, Loading, Alone, Is
    <3>2. QED
      BY <2>1, <3>1, EndFacts, IdleFacts
  <2>6. Connecting' /\ Loading'
    BY <2>5 DEF Connecting, Loading, Is
  <2>7. Sound'
    <3>1. \/ Answered(s, "success") /\ running_config' = conn /\ told' = told
          \/ told' = told \cup {"running-config"}
      BY <1>2, <2>1, <2>2 DEF FillToComboBoxes, Tell
    <3>2. told \subseteq told' /\ \A u \in Slot : Is(u, "ssh") => Is(u, "ssh")'
      BY <2>1, <3>1, EndFacts DEF Is
    <3>3. AsRead'
      BY <1>b, <2>1, <3>2 DEF Sound, AsRead, On
    <3>4. QED
      BY <1>b, <2>1, <2>4, <3>1, <3>3 DEF Sound, Quiet, Is
  <2>8. GreenMeansLoaded' /\ NoFalseAssurance'
    <3>1. CASE combo_to'.text = combo_to.text
      BY <1>2, <2>1, <3>1
      DEF FillToComboBoxes, Remember, Promises, GreenMeansLoaded, NoFalseAssurance, marks
    <3>2. CASE combo_to'.text # combo_to.text
      BY <1>2, <3>2, Unpromised DEF FillToComboBoxes, Reselect, ResetFlagsButtons
    <3>3. QED
      BY <3>1, <3>2
  <2>9. QED
    BY <2>6, <2>7, <2>8 DEF Promises, Patience
<1>3. CASE LoadSavedConfigs(s)
  <2>1. /\ steady /\ Is(s, "ssh") /\ End(s) /\ combo_file'.text = Prompt
        /\ UNCHANGED <<conn, running_config, combo_from, combo_to, from_file, clicks, marks,
                       dialog, saved, past>>
    BY <1>3 DEF LoadSavedConfigs, past
  <2>2. Connecting' /\ Loading'
    BY <1>b, <2>1, EndFacts, IdleFacts, Calmer DEF past
  <2>3. AsRead'
    BY <2>1 DEF AsRead
  <2>4. Sound'
    BY <1>b, <2>1, <2>3 DEF Sound, Quiet, Is, past
  <2>5. GreenMeansLoaded' /\ NoFalseAssurance'
    BY <2>1 DEF Promises, GreenMeansLoaded, NoFalseAssurance, marks, past
  <2>6. QED
    BY <2>2, <2>4, <2>5 DEF Promises, Patience
<1>4. CASE ConnectValues(s)
  <2>1. /\ steady
        /\ UNCHANGED <<conn, running_config, boxes, from_file, clicks, flags, dialog, saved, past>>
        /\ job[s].kind = "object" /\ End(s)
    BY <1>4 DEF ConnectValues, Is, past
  <2>2. job[s].part = obj /\ (job[s].ans = "success" => obj \in done)
    BY <1>b, <2>1 DEF Loading, Answered, Is
  <2>3. GreenMeansLoaded'
    BY <1>4, <2>1, <2>2 DEF ConnectValues, Colour, Promises, GreenMeansLoaded, TypeOK, past
  <2>4. /\ ~ Is(s, "none") /\ ~ Is(s, "ssh") /\ job[s].kind \in {"object", "rule"}
        /\ UNCHANGED <<conn, running_config, boxes, from_file, flags, dialog, saved, past>>
    BY <2>1 DEF Is
  <2>5. QED
    BY <1>c, <2>1, <2>3, <2>4
<1>5. CASE ConnectRuleValues(s) /\ ~ Abort
  <2>1. /\ steady
        /\ UNCHANGED <<conn, running_config, boxes, from_file, clicks, flags, dialog, saved, past>>
        /\ job[s].kind = "rule" /\ End(s) /\ Colour(rule, job[s].ans)
    BY <1>5 DEF ConnectRuleValues, Is, past
  <2>2. job[s].part = rule /\ (job[s].ans = "success" => rule \in done)
    BY <1>b, <2>1 DEF Loading, Answered, Is
  <2>3. GreenMeansLoaded'
    BY <2>1, <2>2 DEF Colour, Promises, GreenMeansLoaded, TypeOK, past
  <2>4. /\ ~ Is(s, "none") /\ ~ Is(s, "ssh") /\ job[s].kind \in {"object", "rule"}
        /\ UNCHANGED <<conn, running_config, boxes, from_file, flags, dialog, saved, past>>
    BY <2>1 DEF Is
  <2>5. QED
    BY <1>c, <2>1, <2>3, <2>4
<1>6. CASE PrintIronSkillet(s) /\ ~ Abort
  BY <1>6, <1>c DEF PrintIronSkillet, Is, window, boxes, clicks, marks, past
<1>7. QED
  BY <1>a, <1>1, <1>2, <1>3, <1>4, <1>5, <1>6 DEF Handler, NothingToFill

LEMMA PromisesStep == Window /\ Window' /\ Promises /\ [Next]_vars => Promises'
<1> SUFFICES ASSUME Window, Window', Promises, [Next]_vars PROVE Promises'
  OBVIOUS
<1>1. CASE Destroyed
  BY <1>1, PromisesRestart DEF Destroyed, Abort
<1>2. CASE UNCHANGED vars
  <2>1. /\ UNCHANGED <<conn, running_config, combo_file, combo_from, combo_to, from_file>>
        /\ UNCHANGED <<flags, color, dialog, job, saved, obj, rule, steady, sent, done, told>>
    BY <1>2 DEF vars, window, boxes, clicks, marks, past
  <2>2. Patience'
    BY <2>1 DEF Promises, Patience, Connecting, Loading, Sound, AsRead, On, Unmarked, Alone,
                Chosen, Answered, Quiet, Is
  <2>3. QED
    BY <2>1, <2>2 DEF Promises, GreenMeansLoaded, NoFalseAssurance
<1>3. QED
  BY <1>1, <1>2, PromisesUser, PromisesWorker, PromisesHandler DEF Next

(* What holds for a user who waits is kept by every step of the window, of *)
(* its threads and of the user.                                            *)
THEOREM ForThePatient == Spec => []Promises
BY PromisesInit, PromisesStep, InAnyCase, PTL DEF Spec

(* For a user who has waited for every answer, and after a failed import   *)
(* chose his file again: the source groups are those of the file that will *)
(* be loaded, as the connected device has it, whatever files of that name  *)
(* there are on other devices or were there before.                        *)
THEOREM Sourced == Spec => []FromOfFile
<1>1. Window /\ Promises => FromOfFile
  <2> SUFFICES ASSUME Window, Promises PROVE FromOfFile
    OBVIOUS
  <2>1. combo_from.items # {} => combo_file.text \in {from_file, Prompt}
    BY DEF Window, Filed
  <2>2. ASSUME steady, Quiet, Validated, "import" \notin told
        PROVE  from_file \in On(conn) /\ combo_from.items = Has[saved[conn][from_file]]
    <3>1. combo_from.items # {} /\ combo_file.text # Prompt
      BY <2>2 DEF Validated, Window, Shape
    <3>2. \A s \in Slot : ~ Is(s, "ssh")
      BY <2>2 DEF Quiet, Is
    <3>3. QED
      BY <2>2, <3>1, <3>2 DEF Promises, Patience, Sound, AsRead
  <2>3. QED
    BY <2>1, <2>2 DEF FromOfFile
<1>2. QED
  BY <1>1, InAnyCase, ForThePatient, PTL

(* For a user who has waited for every answer: the target is a group of    *)
(* the device whose configuration was read last, and unless the window has *)
(* said that reading it failed, that is the connected device.              *)
THEOREM Existing == Spec => []SelectionExists
<1>1. Window /\ Promises => SelectionExists
  <2> SUFFICES ASSUME Window, Promises, steady, Validated
               PROVE  /\ combo_to.text \in Own[running_config]
                      /\ "running-config" \notin told => running_config = conn
    BY DEF SelectionExists
  <2>1. combo_to.text \in combo_to.items
    BY DEF Validated, Window, Shape
  <2>2. QED
    BY <2>1 DEF Promises, Patience, Sound
<1>2. QED
  BY <1>1, InAnyCase, ForThePatient, PTL

(* And a green button stands for a part that has been merged from what is  *)
(* chosen into what is chosen.                                             *)
THEOREM Truthful == Spec => []GreenMeansLoaded
<1>1. Promises => GreenMeansLoaded
  BY DEF Promises
<1>2. QED
  BY <1>1, ForThePatient, PTL

(* And no warning is left out for objects that were never asked for.       *)
THEOREM Assured == Spec => []NoFalseAssurance
<1>1. Promises => NoFalseAssurance
  BY DEF Promises
<1>2. QED
  BY <1>1, ForThePatient, PTL
=============================================================================
