--------------------------- MODULE SocketNodeProofs ---------------------------
(***************************************************************************)
(* The theorems about the socket node of create_unix_listener and          *)
(* SocketNodeGuard, for any number of daemons, directories and inodes.     *)
(***************************************************************************)
EXTENDS SocketNode, TLAPS

USE SocketNodeAssumption, SMTT(20), ZenonT(20)

-----------------------------------------------------------------------------
(* The inductive invariant                                                   *)

\* The daemon answers for the node it captured: its guard is armed, or already
\* consumed by the removal in progress.
Guards(p) ==
  \/ dpc[p] \in {"listen", "serve", "inspect", "unlink"}
  \/ dpc[p] \in {"close", "remove"} /\ state_[p] = "Armed"

\* The node of p is under the leaf name of the directory p fixed.
Placed(p) ==
  /\ entry[parent_identity_[p]] # None
  /\ entry[parent_identity_[p]].gen = own[p]

\* Where a daemon is says what it holds.
SetUpInv ==
  \A p \in Daemons :
    /\ dpc[p] \notin {"open", "exited", "crashed"} => parent_identity_[p] \in Directories
    /\ dpc[p] \in {"open", "check_parent", "check_leaf", "bind"} =>
         own[p] = 0 /\ node_identity_[p] = None
    /\ dpc[p] \in {"open", "check_parent", "check_leaf", "bind", "capture",
                   "capture_parent"} => state_[p] # "Armed"

\* Generations are given once, and those of daemons to sockets.
GenerationInv ==
  /\ \A d \in Directories : entry[d] # None => entry[d].gen <= nodes
  /\ \A p \in Daemons : own[p] <= nodes
  /\ \A p, q \in Daemons : own[p] = own[q] /\ own[p] # 0 => p = q
  /\ \A p \in Daemons, d \in Directories :
       entry[d] # None /\ entry[d].gen = own[p] => entry[d].kind = "socket"

\* Between the look and the unlink the entry stays, unless it is noted.
LookInv ==
  \A p \in Daemons : dpc[p] = "unlink" /\ p \notin raced =>
    /\ entry[parent_identity_[p]] # None
    /\ entry[parent_identity_[p]].ino = node_identity_[p]

\* Undisturbed, a daemon's node is where the daemon looks for it, from the bind
\* until it removes the node itself.
UndisturbedInv ==
  ~unlinked /\ raced = {} => \A p \in Daemons :
    Guards(p) \/ (dpc[p] \in {"capture", "capture_parent"} /\ parent = parent_identity_[p])
      => Placed(p)

\* While the parent path stays, a node a daemon left can only be the one whose
\* number it captured, and it has a guard that will remove it
\* unless a call of the removal fails.
StayingInv ==
  ~moved => \A p \in Daemons :
    /\ parent_identity_[p] \in {None, parent}
    /\ \A d \in Directories : entry[d] # None /\ entry[d].gen = own[p] =>
         d = parent /\ (node_identity_[p] # None => entry[d].ino = node_identity_[p])
    /\ dpc[p] \in {"close", "remove"} /\ node_identity_[p] # None => state_[p] = "Armed"
    /\ dpc[p] = "exited" /\ node_identity_[p] # None /\ p \notin inconclusive =>
         \A d \in Directories : entry[d] # None => entry[d].gen # own[p]

NodeInv == /\ TypeOK /\ SetUpInv /\ GenerationInv /\ LookInv
           /\ UndisturbedInv /\ StayingInv

-----------------------------------------------------------------------------
(* The steps                                                                 *)

\* A new node is a node, with a generation nothing has yet.
LEMMA NewNode ==
  ASSUME nodes \in 0..MaxNodes, nodes < MaxNodes, NEW kind \in {"socket", "other"},
         NEW n \in NewNodes(kind)
  PROVE  /\ n \in Node /\ n # None /\ nodes + 1 \in 1..MaxNodes
         /\ n.gen = nodes + 1 /\ n.kind = kind
<1>1. n.ino \in Inodes BY Zenon DEF NewNodes, FreeInodes
<1>2. nodes + 1 \in 1..MaxNodes /\ n.gen = nodes + 1 /\ n.kind = kind BY DEF NewNodes
<1>3. n \in Node BY Zenon, <1>1, <1>2 DEF NewNodes, Node
<1> QED BY Zenon, <1>2, <1>3

\* Steps keep the types.
LEMMA TypeStep ==
  ASSUME NodeInv, [Next]_vars
  PROVE  TypeOK'
<1> USE DEF NodeInv, TypeOK, Goto, GiveUp, fsVars, guardVars, ghostVars
<1>1. ASSUME NEW p \in Daemons, OpenParent(p) \/ CheckParent(p) \/ CheckLeaf(p)
      PROVE  TypeOK'
  BY <1>1 DEF OpenParent, CheckParent, CheckLeaf, DaemonStates
<1>2. ASSUME NEW p \in Daemons, Bind(p) PROVE TypeOK'
  <2>1. CASE /\ Goto(p, "bind", "close")
             /\ UNCHANGED <<entry, nodes, bound, own>>
    BY Zenon, <1>2, <2>1 DEF Bind, DaemonStates
  <2>2. CASE ~Goto(p, "bind", "close")
    <3>1. PICK n \in NewNodes("socket") :
             /\ entry' = [entry EXCEPT ![parent] = n]
             /\ bound' = [bound EXCEPT ![p] = n]
      BY Zenon, <1>2, <2>2 DEF Bind
    <3>2. n \in Node /\ nodes + 1 \in 1..MaxNodes BY Zenon, <1>2, <2>2, NewNode DEF Bind
    <3> QED BY <1>2, <2>2, <3>1, <3>2 DEF Bind, DaemonStates
  <2> QED BY Zenon, <1>2, <2>1, <2>2 DEF Bind
<1>3. ASSUME NEW p \in Daemons, CaptureLeaf(p) PROVE TypeOK'
  <2>1. parent_identity_[p] \in Directories BY Zenon, <1>3 DEF CaptureLeaf, SetUpInv
  <2>2. entry[parent_identity_[p]] # None => entry[parent_identity_[p]].ino \in Inodes
    BY Zenon, <2>1 DEF Node
  <2> QED BY Zenon, <1>3, <2>2 DEF CaptureLeaf, Abandon, DaemonStates
<1>4. ASSUME NEW p \in Daemons, CaptureParent(p) PROVE TypeOK'
  BY Zenon, <1>4 DEF CaptureParent, Abandon, DaemonStates
<1>5. ASSUME NEW p \in Daemons, Listen(p) \/ Stop(p) \/ CloseListener(p) \/ Crash(p)
      PROVE  TypeOK'
  BY Zenon, <1>5 DEF Listen, Stop, CloseListener, Crash, DaemonStates
<1>6. ASSUME NEW p \in Daemons, RemoveParent(p) \/ RemoveLeaf(p) \/ Unlink(p)
      PROVE  TypeOK'
  BY Zenon, <1>6 DEF RemoveParent, RemoveLeaf, Unlink, Looking, DaemonStates
<1>7. ASSUME NEW d \in Directories, RemoveEntry(d) \/ MoveParent(d) PROVE TypeOK'
  BY Zenon, <1>7 DEF RemoveEntry, MoveParent, Looking, SettingUp
<1>8. ASSUME NEW d \in Directories, CreateOther(d) PROVE TypeOK'
  <2>1. PICK n \in NewNodes("other") : entry' = [entry EXCEPT ![d] = n]
    BY Zenon, <1>8 DEF CreateOther
  <2>2. n \in Node /\ nodes + 1 \in 1..MaxNodes BY Zenon, <1>8, NewNode DEF CreateOther
  <2> QED BY <1>8, <2>1, <2>2 DEF CreateOther
<1>9. CASE UNCHANGED vars BY Zenon, <1>9 DEF vars
<1> QED
  BY Zenon, <1>1, <1>2, <1>3, <1>4, <1>5, <1>6, <1>7, <1>8, <1>9 DEF Next, DaemonStep

\* Steps keep SetUpInv.
LEMMA SetUpStep ==
  ASSUME NodeInv, [Next]_vars
  PROVE  SetUpInv'
<1> USE DEF NodeInv, TypeOK, SetUpInv, Goto, GiveUp, fsVars, guardVars, ghostVars
<1>1. ASSUME NEW p \in Daemons, OpenParent(p) \/ CheckParent(p) \/ CheckLeaf(p)
      PROVE  SetUpInv'
  BY ZenonT(60), <1>1 DEF OpenParent, CheckParent, CheckLeaf
<1>2. ASSUME NEW p \in Daemons, Bind(p) PROVE SetUpInv' BY Zenon, <1>2 DEF Bind
<1>3. ASSUME NEW p \in Daemons, CaptureLeaf(p) \/ CaptureParent(p) PROVE SetUpInv'
  BY ZenonT(60), <1>3 DEF CaptureLeaf, CaptureParent, Abandon
<1>4. ASSUME NEW p \in Daemons, Listen(p) \/ Stop(p) \/ CloseListener(p) \/ Crash(p)
      PROVE  SetUpInv'
  BY ZenonT(60), <1>4 DEF Listen, Stop, CloseListener, Crash
<1>5. ASSUME NEW p \in Daemons, RemoveParent(p) \/ RemoveLeaf(p) \/ Unlink(p)
      PROVE  SetUpInv'
  BY ZenonT(60), <1>5 DEF RemoveParent, RemoveLeaf, Unlink
<1>6. ASSUME NEW d \in Directories, RemoveEntry(d) \/ MoveParent(d) \/ CreateOther(d)
      PROVE  SetUpInv'
  BY Zenon, <1>6 DEF RemoveEntry, MoveParent, CreateOther
<1>7. CASE UNCHANGED vars BY Zenon, <1>7 DEF vars
<1> QED BY Zenon, <1>1, <1>2, <1>3, <1>4, <1>5, <1>6, <1>7 DEF Next, DaemonStep

\* The entry of one directory is removed, or none; or a new node appears in d.
Emptied == /\ UNCHANGED <<nodes, own>>
           /\ \A d \in Directories : entry'[d] \in {entry[d], None}
Created(d, kind) ==
  /\ entry[d] = None /\ nodes < MaxNodes /\ nodes' = nodes + 1
  /\ \E n \in NewNodes(kind) : entry' = [entry EXCEPT ![d] = n]

\* What each step does to the entries and the generations.
LEMMA EntrySteps ==
  ASSUME NodeInv, [Next]_vars
  PROVE  \/ Emptied
         \/ \E p \in Daemons : /\ Bind(p) /\ Created(parent, "socket")
                               /\ own' = [own EXCEPT ![p] = nodes + 1]
                               /\ own[p] = 0
         \/ \E d \in Directories : CreateOther(d) /\ Created(d, "other") /\ UNCHANGED own
<1> USE DEF NodeInv
<1>1. ASSUME NEW p \in Daemons, Bind(p), ~Emptied
      PROVE  /\ Created(parent, "socket") /\ own' = [own EXCEPT ![p] = nodes + 1]
             /\ own[p] = 0
  <2>1. UNCHANGED <<entry, nodes, own>> => Emptied BY Zenon DEF Emptied
  <2>2. own[p] = 0 BY Zenon, <1>1 DEF Bind, Goto, SetUpInv
  <2> QED BY Zenon, <1>1, <2>1, <2>2 DEF Bind, Created
<1>2. ASSUME NEW d \in Directories, CreateOther(d)
      PROVE  Created(d, "other") /\ UNCHANGED own
  BY Zenon, <1>2 DEF CreateOther, Created, ghostVars
<1>3. ASSUME NEW p \in Daemons, Unlink(p) PROVE Emptied
  BY Zenon, <1>3 DEF Unlink, Emptied, TypeOK
<1>4. ASSUME NEW d \in Directories, RemoveEntry(d) PROVE Emptied
  BY Zenon, <1>4 DEF RemoveEntry, Emptied, TypeOK
<1>5. CASE UNCHANGED <<entry, nodes, own>> BY Zenon, <1>5 DEF Emptied
<1> QED BY Zenon, <1>1, <1>2, <1>3, <1>4, <1>5
        DEF Next, DaemonStep, vars, OpenParent, CheckParent, CheckLeaf, CaptureLeaf,
            CaptureParent, Listen, Stop, CloseListener, RemoveParent, RemoveLeaf, Crash,
            MoveParent, fsVars, ghostVars

\* Steps keep GenerationInv.
LEMMA GenerationStep ==
  ASSUME NodeInv, [Next]_vars
  PROVE  GenerationInv'
<1> USE DEF NodeInv, TypeOK
<1>1. CASE Emptied BY Zenon, <1>1 DEF Emptied, GenerationInv
<1>2. ASSUME NEW p \in Daemons, Created(parent, "socket"),
             own' = [own EXCEPT ![p] = nodes + 1]
      PROVE  GenerationInv'
  <2>1. PICK n \in NewNodes("socket") : entry' = [entry EXCEPT ![parent] = n]
    BY Zenon, <1>2 DEF Created
  <2>2. n.gen = nodes + 1 /\ n.kind = "socket" BY Zenon, <1>2, NewNode DEF Created
  <2>3. nodes \in Nat /\ nodes' = nodes + 1 /\ \A q \in Daemons : own[q] \in Nat
    BY <1>2 DEF Created
  <2>4. \A d \in Directories : entry[d] # None => entry[d].gen \in Nat BY DEF Node
  <2>5. \A d \in Directories : entry'[d] = IF d = parent THEN n ELSE entry[d]
    BY Zenon, <2>1
  <2>6. \A q \in Daemons : own'[q] = IF q = p THEN nodes + 1 ELSE own[q] BY Zenon, <1>2
  <2> QED BY <2>2, <2>3, <2>4, <2>5, <2>6 DEF GenerationInv
<1>3. ASSUME NEW d \in Directories, Created(d, "other"), UNCHANGED own
      PROVE  GenerationInv'
  <2>1. PICK n \in NewNodes("other") : entry' = [entry EXCEPT ![d] = n]
    BY Zenon, <1>3 DEF Created
  <2>2. n.gen = nodes + 1 BY Zenon, <1>3, NewNode DEF Created
  <2>3. nodes \in Nat /\ nodes' = nodes + 1 /\ \A q \in Daemons : own[q] \in Nat
    BY <1>3 DEF Created
  <2>4. \A e \in Directories : entry[e] # None => entry[e].gen \in Nat BY DEF Node
  <2>5. \A e \in Directories : entry'[e] = IF e = d THEN n ELSE entry[e] BY Zenon, <2>1
  <2> QED BY <1>3, <2>2, <2>3, <2>4, <2>5 DEF GenerationInv
<1> QED BY Zenon, <1>1, <1>2, <1>3, EntrySteps

\* A daemon changes its own locals only.
LEMMA OtherDaemons ==
  ASSUME TypeOK, NEW p \in Daemons, DaemonStep(p), NEW q \in Daemons, q # p
  PROVE  /\ dpc'[q] = dpc[q] /\ parent_identity_'[q] = parent_identity_[q]
         /\ node_identity_'[q] = node_identity_[q] /\ state_'[q] = state_[q]
<1> USE DEF TypeOK, Goto, GiveUp, guardVars
<1>1. CASE OpenParent(p) \/ CheckParent(p) \/ CheckLeaf(p) \/ Bind(p)
  BY Zenon, <1>1 DEF OpenParent, CheckParent, CheckLeaf, Bind
<1>2. CASE CaptureLeaf(p) \/ CaptureParent(p) \/ Listen(p) \/ Stop(p)
  BY Zenon, <1>2 DEF CaptureLeaf, CaptureParent, Listen, Stop, Abandon
<1>3. CASE CloseListener(p) \/ RemoveParent(p) \/ RemoveLeaf(p) \/ Unlink(p) \/ Crash(p)
  BY Zenon, <1>3 DEF CloseListener, RemoveParent, RemoveLeaf, Unlink, Crash
<1> QED BY Zenon, <1>1, <1>2, <1>3 DEF DaemonStep

\* Steps of other processes change no local of a daemon, and what is noted stays.
LEMMA Outside ==
  ASSUME [Next]_vars
  PROVE  /\ inconclusive \subseteq inconclusive' /\ raced \subseteq raced'
         /\ (unlinked => unlinked') /\ (moved => moved')
         /\ \/ \E p \in Daemons : DaemonStep(p)
            \/ UNCHANGED <<dpc, guardVars>>
         /\ \/ UNCHANGED parent
            \/ \E d \in Directories : MoveParent(d)
<1>1. ASSUME NEW p \in Daemons, DaemonStep(p)
      PROVE  /\ UNCHANGED <<parent, unlinked, moved>>
             /\ inconclusive \subseteq inconclusive' /\ raced \subseteq raced'
  BY Zenon, <1>1
     DEF DaemonStep, OpenParent, CheckParent, CheckLeaf, Bind, CaptureLeaf,
         CaptureParent, Listen, Stop, CloseListener, RemoveParent, RemoveLeaf, Unlink,
         Crash, GiveUp, fsVars, ghostVars
<1>2. ASSUME NEW d \in Directories, RemoveEntry(d) \/ CreateOther(d) \/ MoveParent(d)
      PROVE  /\ UNCHANGED <<dpc, guardVars, inconclusive>> /\ raced \subseteq raced'
             /\ (unlinked => unlinked') /\ (moved => moved')
             /\ UNCHANGED parent \/ MoveParent(d)
  BY <1>2 DEF RemoveEntry, CreateOther, MoveParent, ghostVars, guardVars
<1>3. CASE UNCHANGED vars BY Zenon, <1>3 DEF vars, fsVars, ghostVars, guardVars
<1> QED BY Zenon, <1>1, <1>2, <1>3 DEF Next

\* A node that is there stays, unless a daemon or another process unlinks it.
LEMMA NodeStays ==
  ASSUME NodeInv, [Next]_vars, NEW d \in Directories, entry[d] # None
  PROVE  \/ entry'[d] = entry[d]
         \/ \E p \in Daemons : Unlink(p) /\ parent_identity_[p] = d
         \/ RemoveEntry(d)
<1> USE DEF NodeInv, TypeOK
<1>1. ASSUME NEW p \in Daemons, Unlink(p), parent_identity_[p] # d
      PROVE  entry'[d] = entry[d]
  BY Zenon, <1>1 DEF Unlink
<1>2. ASSUME NEW e \in Directories, RemoveEntry(e), e # d PROVE entry'[d] = entry[d]
  BY Zenon, <1>2 DEF RemoveEntry
<1>3. ASSUME NEW e \in Directories, NEW kind, Created(e, kind) PROVE entry'[d] = entry[d]
  BY Zenon, <1>3 DEF Created
<1>4. ASSUME NEW p \in Daemons, Bind(p)
      PROVE  UNCHANGED entry \/ Created(parent, "socket")
  BY Zenon, <1>4 DEF Bind, Created
<1>5. ASSUME NEW e \in Directories, CreateOther(e) PROVE Created(e, "other")
  BY Zenon, <1>5 DEF CreateOther, Created
<1>6. CASE UNCHANGED entry BY Zenon, <1>6
<1> QED BY Zenon, <1>1, <1>2, <1>3, <1>4, <1>5, <1>6
        DEF Next, DaemonStep, vars, OpenParent, CheckParent, CheckLeaf, CaptureLeaf,
            CaptureParent, Listen, Stop, CloseListener, RemoveParent, RemoveLeaf, Crash,
            MoveParent, fsVars

\* Steps keep LookInv.
LEMMA LookStep ==
  ASSUME NodeInv, [Next]_vars
  PROVE  LookInv'
<1> USE DEF NodeInv
<1> SUFFICES ASSUME NEW p \in Daemons, dpc'[p] = "unlink", p \notin raced'
             PROVE  /\ entry'[parent_identity_'[p]] # None
                    /\ entry'[parent_identity_'[p]].ino = node_identity_'[p]
  BY Zenon DEF LookInv
<1>1. p \notin raced BY Zenon, Outside
<1>2. CASE DaemonStep(p)
  <2>1. RemoveLeaf(p)
    BY Zenon, <1>2 DEF DaemonStep, OpenParent, CheckParent, CheckLeaf, Bind, CaptureLeaf,
           CaptureParent, Listen, Stop, CloseListener, RemoveParent, Unlink, Crash,
           Goto, GiveUp, TypeOK
  <2> QED BY Zenon, <2>1 DEF RemoveLeaf, Goto, GiveUp, TypeOK, fsVars, guardVars
<1>3. CASE ~DaemonStep(p)
  <2>1. /\ dpc[p] = "unlink" /\ parent_identity_'[p] = parent_identity_[p]
        /\ node_identity_'[p] = node_identity_[p]
    <3>1. CASE UNCHANGED <<dpc, guardVars>> BY Zenon, <3>1 DEF guardVars
    <3>2. CASE \E q \in Daemons : DaemonStep(q) BY Zenon, <1>3, <3>2, OtherDaemons
    <3> QED BY Zenon, <3>1, <3>2, Outside
  <2> DEFINE d == parent_identity_[p]
  <2>2. d \in Directories BY Zenon, <2>1 DEF SetUpInv
  <2>3. entry[d] # None /\ entry[d].ino = node_identity_[p]
    BY Zenon, <1>1, <2>1 DEF LookInv
  <2>4. p \in Looking(d) BY Zenon, <2>1 DEF Looking
  <2>5. ~RemoveEntry(d) BY Zenon, <2>4 DEF RemoveEntry
  <2>6. ASSUME NEW q \in Daemons, Unlink(q)
        PROVE  parent_identity_[q] # d \/ UNCHANGED entry
    <3>1. q # p BY Zenon, <1>3, <2>6 DEF DaemonStep
    <3> QED BY Zenon, <2>4, <2>6, <3>1 DEF Unlink
  <2>7. entry'[d] = entry[d] BY Zenon, <2>2, <2>3, <2>5, <2>6, NodeStays
  <2> QED BY Zenon, <2>1, <2>3, <2>7
<1> QED BY Zenon, <1>2, <1>3

\* The daemons that answer for the node they bound.
Answers(p) ==
  \/ Guards(p)
  \/ dpc[p] \in {"capture", "capture_parent"} /\ parent = parent_identity_[p]

\* A daemon comes to answer for a node only by binding it, or when the path is
\* moved behind its back.
LEMMA AnswersFrom ==
  ASSUME NodeInv, [Next]_vars, NEW p \in Daemons, Answers(p)', raced' = {}
  PROVE  \/ Answers(p) /\ ~Unlink(p)
         \/ Bind(p) /\ own'[p] # own[p]
<1> USE DEF NodeInv, TypeOK, SetUpInv, Answers, Guards
<1>1. CASE DaemonStep(p)
  <2> USE DEF Goto, GiveUp, fsVars, guardVars, ghostVars
  <2>1. CASE OpenParent(p) \/ CheckParent(p) \/ CheckLeaf(p)
    BY Zenon, <2>1 DEF OpenParent, CheckParent, CheckLeaf
  <2>2. CASE Bind(p) BY <2>2 DEF Bind
  <2>3. CASE CaptureLeaf(p) \/ CaptureParent(p)
    BY Zenon, <2>3 DEF CaptureLeaf, CaptureParent, Abandon, Unlink
  <2>4. CASE Listen(p) \/ Stop(p) \/ CloseListener(p)
    BY Zenon, <2>4 DEF Listen, Stop, CloseListener, Unlink
  <2>5. CASE RemoveParent(p) \/ RemoveLeaf(p) \/ Unlink(p) \/ Crash(p)
    BY Zenon, <2>5 DEF RemoveParent, RemoveLeaf, Unlink, Crash
  <2> QED BY Zenon, <1>1, <2>1, <2>2, <2>3, <2>4, <2>5 DEF DaemonStep
<1>2. CASE ~DaemonStep(p)
  <2>1. /\ dpc'[p] = dpc[p] /\ parent_identity_'[p] = parent_identity_[p]
        /\ state_'[p] = state_[p]
    <3>1. CASE UNCHANGED <<dpc, guardVars>> BY Zenon, <3>1 DEF guardVars
    <3>2. CASE \E q \in Daemons : DaemonStep(q) BY Zenon, <1>2, <3>2, OtherDaemons
    <3> QED BY Zenon, <3>1, <3>2, Outside
  <2>2. CASE UNCHANGED parent BY Zenon, <1>2, <2>1, <2>2 DEF DaemonStep
  <2>3. CASE \E d \in Directories : MoveParent(d)
    BY Zenon, <1>2, <2>1, <2>3 DEF MoveParent, SettingUp, DaemonStep
  <2> QED BY Zenon, <2>2, <2>3, Outside
<1> QED BY Zenon, <1>1, <1>2

\* Steps keep UndisturbedInv: nobody but its owner unlinks a node that is where
\* its owner looks for it.
LEMMA UndisturbedStep ==
  ASSUME NodeInv, [Next]_vars
  PROVE  UndisturbedInv'
<1> USE DEF NodeInv
<1> SUFFICES ASSUME ~unlinked', raced' = {}, NEW p \in Daemons, Answers(p)'
             PROVE  Placed(p)'
  BY Zenon DEF UndisturbedInv, Answers
<1>0. ~unlinked /\ raced = {} BY Zenon, Outside
<1>1. CASE Bind(p) /\ own'[p] # own[p]
  <2>1. PICK n \in NewNodes("socket") : entry' = [entry EXCEPT ![parent] = n]
    BY Zenon, <1>1 DEF Bind
  <2>2. own'[p] = nodes + 1 /\ nodes < MaxNodes /\ dpc'[p] = "capture"
        /\ UNCHANGED <<parent, parent_identity_>>
    BY Zenon, <1>1 DEF Bind, Goto, TypeOK, guardVars
  <2>3. n # None /\ n.gen = nodes + 1 BY Zenon, <2>2, NewNode DEF TypeOK
  <2>4. parent = parent_identity_[p] BY Zenon, <2>2 DEF Answers, Guards
  <2>5. entry'[parent] = n BY Zenon, <2>1 DEF TypeOK
  <2> QED BY Zenon, <2>2, <2>3, <2>4, <2>5 DEF Placed
<1>2. CASE Answers(p) /\ ~Unlink(p)
  <2> DEFINE d == parent_identity_[p]
  <2>1. d \in Directories BY Zenon, <1>2 DEF Answers, Guards, SetUpInv
  <2>2. entry[d] # None /\ entry[d].gen = own[p]
    BY Zenon, <1>0, <1>2 DEF UndisturbedInv, Answers, Placed
  <2>3. own[p] # 0 BY <2>1, <2>2 DEF TypeOK, Node
  <2>4. own'[p] = own[p] BY Zenon, <2>3, EntrySteps DEF Emptied, TypeOK
  <2>5. parent_identity_'[p] = d
    <3>1. ASSUME NEW q \in Daemons, DaemonStep(q) PROVE parent_identity_'[p] = d
      <4>1. CASE q = p
        <5>1. ~OpenParent(p) BY Zenon, <1>2 DEF Answers, Guards, OpenParent, Goto
        <5> QED BY Zenon, <3>1, <4>1, <5>1
                DEF DaemonStep, CheckParent, CheckLeaf, Bind, CaptureLeaf, CaptureParent,
                    Listen, Stop, CloseListener, RemoveParent, RemoveLeaf, Unlink, Crash,
                    guardVars
      <4>2. CASE q # p BY Zenon, <3>1, <4>2, OtherDaemons
      <4> QED BY Zenon, <4>1, <4>2
    <3> QED BY Zenon, <3>1, Outside DEF guardVars
  <2>6. ~RemoveEntry(d) BY Zenon DEF RemoveEntry
  <2>7. ASSUME NEW q \in Daemons, Unlink(q) PROVE parent_identity_[q] # d
    <3>1. Placed(q) BY Zenon, <1>0, <2>7 DEF Unlink, GiveUp, Goto, UndisturbedInv, Guards
    <3>2. q # p BY Zenon, <1>2, <2>7
    <3> QED BY Zenon, <2>2, <2>3, <3>1, <3>2 DEF Placed, GenerationInv
  <2>8. entry'[d] = entry[d] BY Zenon, <2>1, <2>2, <2>6, <2>7, NodeStays
  <2> QED BY Zenon, <2>2, <2>4, <2>5, <2>8 DEF Placed
<1> QED BY Zenon, <1>1, <1>2, AnswersFrom

\* While the path stays, the only entry that can hold a daemon's node is the one
\* under it.
LEMMA StayingNodes ==
  ASSUME NodeInv, [Next]_vars, ~moved', NEW p \in Daemons, NEW d \in Directories,
         entry'[d] # None, entry'[d].gen = own'[p]
  PROVE  /\ d = parent
         /\ \/ entry'[d] = entry[d] /\ own'[p] = own[p]
            \/ node_identity_'[p] = None /\ dpc'[p] = "capture"
<1> USE DEF NodeInv, TypeOK
<1>0. ~moved BY Zenon, Outside
<1>1. nodes \in Nat /\ own[p] \in Nat /\ own[p] <= nodes BY DEF GenerationInv
<1>2. CASE Emptied
  <2>1. entry'[d] = entry[d] /\ own'[p] = own[p] BY Zenon, <1>2 DEF Emptied
  <2> QED BY Zenon, <1>0, <2>1 DEF StayingInv
<1>3. ASSUME NEW q \in Daemons, Bind(q), Created(parent, "socket"),
             own' = [own EXCEPT ![q] = nodes + 1]
      PROVE  /\ d = parent
             /\ \/ entry'[d] = entry[d] /\ own'[p] = own[p]
                \/ node_identity_'[p] = None /\ dpc'[p] = "capture"
  <2>1. PICK n \in NewNodes("socket") : entry' = [entry EXCEPT ![parent] = n]
    BY Zenon, <1>3 DEF Created
  <2>2. n.gen = nodes + 1 BY Zenon, <1>3, NewNode DEF Created
  <2>3. CASE q = p
    <3>1. own'[p] = nodes + 1 BY Zenon, <1>3, <2>3
    <3>2. d = parent
      <4>1. entry[d] # None => entry[d].gen \in Nat /\ entry[d].gen <= nodes
        BY DEF GenerationInv, Node
      <4> QED BY <1>1, <2>1, <3>1, <4>1
    <3>3. own[p] # own'[p] BY <1>1, <3>1
    <3>4. node_identity_'[p] = None /\ dpc'[p] = "capture"
      BY Zenon, <1>3, <2>3, <3>3 DEF Bind, Goto, guardVars, SetUpInv
    <3> QED BY Zenon, <3>2, <3>4
  <2>4. CASE q # p
    <3>1. own'[p] = own[p] BY Zenon, <1>3, <2>4
    <3>2. d # parent BY <1>1, <2>1, <2>2, <3>1
    <3>3. entry'[d] = entry[d] BY Zenon, <2>1, <3>2
    <3> QED BY Zenon, <1>0, <3>1, <3>3 DEF StayingInv
  <2> QED BY Zenon, <2>3, <2>4
<1>4. ASSUME NEW e \in Directories, Created(e, "other"), UNCHANGED own
      PROVE  d = parent /\ entry'[d] = entry[d] /\ own'[p] = own[p]
  <2>1. PICK n \in NewNodes("other") : entry' = [entry EXCEPT ![e] = n]
    BY Zenon, <1>4 DEF Created
  <2>2. n.gen = nodes + 1 BY Zenon, <1>4, NewNode DEF Created
  <2>3. d # e BY <1>1, <1>4, <2>1, <2>2
  <2>4. entry'[d] = entry[d] /\ own'[p] = own[p] BY Zenon, <1>4, <2>1, <2>3
  <2> QED BY Zenon, <1>0, <2>4 DEF StayingInv
<1> QED BY Zenon, <1>2, <1>3, <1>4, EntrySteps

\* What a daemon's own step does to its locals while the path stays.
LEMMA StayingDaemon ==
  ASSUME NodeInv, NEW p \in Daemons, DaemonStep(p), ~moved
  PROVE  /\ parent_identity_'[p] \in {None, parent}
         /\ \/ node_identity_'[p] \in {node_identity_[p], None}
            \/ /\ CaptureLeaf(p) /\ parent_identity_[p] = parent
               /\ node_identity_'[p] = entry[parent].ino /\ dpc'[p] = "capture_parent"
         /\ dpc'[p] \in {"close", "remove"} /\ node_identity_'[p] # None
              => state_'[p] = "Armed"
         /\ dpc'[p] = "exited" /\ node_identity_'[p] # None /\ p \notin inconclusive' =>
              /\ RemoveLeaf(p) \/ Unlink(p)
              /\ parent_identity_[p] = parent
              /\ node_identity_'[p] = node_identity_[p]
<1> USE DEF NodeInv, TypeOK, SetUpInv, Goto, GiveUp, fsVars, guardVars, ghostVars
<1>0. /\ parent_identity_[p] \in {None, parent}
      /\ dpc[p] \in {"close", "remove"} /\ node_identity_[p] # None
           => state_[p] = "Armed"
  BY Zenon DEF StayingInv
<1>1. CASE OpenParent(p) \/ CheckParent(p) \/ CheckLeaf(p) \/ Bind(p)
  BY Zenon, <1>0, <1>1 DEF OpenParent, CheckParent, CheckLeaf, Bind
<1>2. CASE CaptureLeaf(p)
  BY <1>0, <1>2 DEF CaptureLeaf, Abandon
<1>3. CASE CaptureParent(p) \/ Listen(p) \/ Stop(p) \/ CloseListener(p) \/ Crash(p)
  BY Zenon, <1>0, <1>3 DEF CaptureParent, Abandon, Listen, Stop, CloseListener, Crash
<1>4. CASE RemoveParent(p) BY Zenon, <1>0, <1>4 DEF RemoveParent
<1>5. CASE RemoveLeaf(p) \/ Unlink(p)
  BY Zenon, <1>0, <1>5 DEF RemoveLeaf, Unlink
<1> QED BY Zenon, <1>1, <1>2, <1>3, <1>4, <1>5 DEF DaemonStep

\* Steps keep StayingInv.
LEMMA StayingStep ==
  ASSUME NodeInv, [Next]_vars
  PROVE  StayingInv'
<1> USE DEF NodeInv
<1> SUFFICES ASSUME ~moved', NEW p \in Daemons
             PROVE  /\ parent_identity_'[p] \in {None, parent'}
                    /\ \A d \in Directories : entry'[d] # None /\ entry'[d].gen = own'[p] =>
                         /\ d = parent'
                         /\ node_identity_'[p] # None => entry'[d].ino = node_identity_'[p]
                    /\ dpc'[p] \in {"close", "remove"} /\ node_identity_'[p] # None
                         => state_'[p] = "Armed"
                    /\ dpc'[p] = "exited" /\ node_identity_'[p] # None
                         /\ p \notin inconclusive' =>
                         \A d \in Directories : entry'[d] # None => entry'[d].gen # own'[p]
  BY Zenon DEF StayingInv
<1>0. ~moved BY Zenon, Outside
<1>1. parent' = parent
  <2>1. \A d \in Directories : ~MoveParent(d) BY Zenon DEF MoveParent
  <2> QED BY Zenon, <2>1, Outside
<1>2. CASE DaemonStep(p)
  <2>1. /\ parent_identity_'[p] \in {None, parent}
        /\ dpc'[p] \in {"close", "remove"} /\ node_identity_'[p] # None
             => state_'[p] = "Armed"
    BY Zenon, <1>0, <1>2, StayingDaemon
  <2>2. ASSUME NEW d \in Directories, entry'[d] # None, entry'[d].gen = own'[p],
               node_identity_'[p] # None
        PROVE  /\ entry'[d].ino = node_identity_'[p]
               /\ dpc'[p] = "exited" => p \in inconclusive'
    <3>1. d = parent /\ entry'[d] = entry[d] /\ own'[p] = own[p]
      BY Zenon, <2>2, StayingNodes
    <3>2. node_identity_[p] # None => entry[d].ino = node_identity_[p]
      BY Zenon, <1>0, <2>2, <3>1 DEF StayingInv
    <3>3. entry'[d].ino = node_identity_'[p]
      BY Zenon, <1>0, <1>2, <2>2, <3>1, <3>2, StayingDaemon
    <3>4. ASSUME dpc'[p] = "exited", p \notin inconclusive' PROVE FALSE
      <4>1. /\ RemoveLeaf(p) \/ Unlink(p)
            /\ parent_identity_[p] = parent /\ node_identity_'[p] = node_identity_[p]
        BY Zenon, <1>0, <1>2, <2>2, <3>4, StayingDaemon
      <4>2. entry[d].kind = "socket" BY Zenon, <2>2, <3>1 DEF GenerationInv
      <4>3. CASE RemoveLeaf(p)
        BY Zenon, <2>2, <3>1, <3>3, <3>4, <4>1, <4>2, <4>3
           DEF RemoveLeaf, GiveUp, Goto, TypeOK
      <4>4. CASE Unlink(p)
        BY Zenon, <2>2, <3>1, <3>4, <4>1, <4>4 DEF Unlink, GiveUp, TypeOK
      <4> QED BY Zenon, <4>1, <4>3, <4>4
    <3> QED BY Zenon, <3>3, <3>4
  <2>3. \A d \in Directories : entry'[d] # None /\ entry'[d].gen = own'[p] => d = parent
    BY Zenon, StayingNodes
  <2> QED BY Zenon, <1>1, <2>1, <2>2, <2>3
<1>3. CASE ~DaemonStep(p)
  <2>1. /\ dpc'[p] = dpc[p] /\ parent_identity_'[p] = parent_identity_[p]
        /\ node_identity_'[p] = node_identity_[p] /\ state_'[p] = state_[p]
    <3>1. CASE UNCHANGED <<dpc, guardVars>> BY Zenon, <3>1 DEF guardVars
    <3>2. CASE \E q \in Daemons : DaemonStep(q)
      BY Zenon, <1>3, <3>2, OtherDaemons DEF TypeOK
    <3> QED BY Zenon, <3>1, <3>2, Outside
  <2>2. ASSUME NEW d \in Directories, entry'[d] # None, entry'[d].gen = own'[p],
               node_identity_'[p] # None
        PROVE  entry'[d] = entry[d] /\ own'[p] = own[p]
    <3>1. \/ entry'[d] = entry[d] /\ own'[p] = own[p]
          \/ node_identity_'[p] = None
      BY Zenon, <2>2, StayingNodes
    <3> QED BY Zenon, <2>2, <3>1
  <2>3. \A d \in Directories : entry'[d] # None /\ entry'[d].gen = own'[p] => d = parent
    BY Zenon, StayingNodes
  <2>4. parent_identity_'[p] \in {None, parent'}
    BY Zenon, <1>0, <1>1, <2>1 DEF StayingInv
  <2>5. ASSUME NEW d \in Directories, entry'[d] # None, entry'[d].gen = own'[p]
        PROVE  /\ d = parent'
               /\ node_identity_'[p] # None => entry'[d].ino = node_identity_'[p]
    BY ZenonT(60), <1>0, <1>1, <2>1, <2>2, <2>3, <2>5 DEF StayingInv
  <2>6. dpc'[p] \in {"close", "remove"} /\ node_identity_'[p] # None
          => state_'[p] = "Armed"
    BY Zenon, <1>0, <2>1 DEF StayingInv
  <2>7. ASSUME dpc'[p] = "exited", node_identity_'[p] # None, p \notin inconclusive',
               NEW d \in Directories, entry'[d] # None, entry'[d].gen = own'[p]
        PROVE  FALSE
    <3>1. p \notin inconclusive BY Zenon, <2>7, Outside
    <3> QED BY Zenon, <1>0, <2>1, <2>2, <2>7, <3>1 DEF StayingInv
  <2> QED BY Zenon, <2>4, <2>5, <2>6, <2>7
<1> QED BY Zenon, <1>2, <1>3

-----------------------------------------------------------------------------
(* The theorems                                                              *)

\* The invariant holds throughout, for any daemons, directories and inodes.
THEOREM NodeInvariant == Spec => []NodeInv
<1>1. Init => NodeInv
  <2> SUFFICES ASSUME Init PROVE NodeInv BY Zenon
  <2>1. TypeOK
    <3>1. nodes \in 0..MaxNodes /\ own \in [Daemons -> 0..MaxNodes] BY DEF Init
    <3>2. unlinked \in BOOLEAN /\ moved \in BOOLEAN BY Zenon DEF Init
    <3>3. /\ parent \in Directories
          /\ entry \in [Directories -> Node \cup {None}]
          /\ dpc \in [Daemons -> DaemonStates]
          /\ parent_identity_ \in [Daemons -> Directories \cup {None}]
          /\ node_identity_ \in [Daemons -> Inodes \cup {None}]
          /\ state_ \in [Daemons -> {"Empty", "Prepared", "Armed", "Consumed"}]
          /\ bound \in [Daemons -> Node \cup {None}]
          /\ inconclusive \subseteq Daemons /\ raced \subseteq Daemons
      BY Zenon DEF Init, DaemonStates
    <3>4. \A p \in Daemons : dpc[p] = "open" BY Zenon DEF Init
    <3> QED BY Zenon, <3>1, <3>2, <3>3, <3>4 DEF TypeOK
  <2>2. SetUpInv /\ GenerationInv /\ LookInv
    BY DEF Init, SetUpInv, GenerationInv, LookInv
  <2>3. UndisturbedInv /\ StayingInv
    BY Zenon DEF Init, UndisturbedInv, StayingInv, Guards
  <2> QED BY Zenon, <2>1, <2>2, <2>3 DEF NodeInv
<1>2. NodeInv /\ [Next]_vars => NodeInv'
  BY Zenon, TypeStep, SetUpStep, GenerationStep, LookStep, UndisturbedStep, StayingStep
     DEF NodeInv
<1> QED BY <1>1, <1>2, PTL DEF Spec

\* Every variable keeps its type, and a daemon that listens has an armed guard.
THEOREM NodeTypeCorrect == Spec => []TypeOK
<1>1. NodeInv => TypeOK BY Zenon DEF NodeInv
<1> QED BY <1>1, NodeInvariant, PTL

\* Daemons on one path never take away the node of one that serves, as long as
\* nothing else does and nobody met the window between a look and its use.
THEOREM NobodyUnlinksAServingNode == Spec => []ServingNodeStays
<1>1. NodeInv => ServingNodeStays
  <2> SUFFICES ASSUME NodeInv, ~unlinked, raced = {}, NEW p \in Daemons, dpc[p] = "serve"
               PROVE  \E d \in Directories : entry[d] # None /\ entry[d].gen = own[p]
    BY Zenon DEF ServingNodeStays
  <2>1. Placed(p) BY Zenon DEF NodeInv, UndisturbedInv, Guards
  <2>2. parent_identity_[p] \in Directories BY Zenon DEF NodeInv, SetUpInv
  <2> QED BY Zenon, <2>1, <2>2 DEF Placed
<1> QED BY <1>1, NodeInvariant, PTL

\* While the parent path stays, a daemon whose guard was armed leaves its node
\* behind only by a crash or by a failing call of SocketNodeGuard::remove, also
\* when listen failed.
THEOREM GuardLeavesNoResidue == Spec => []NoResidue
<1>1. NodeInv => NoResidue BY Zenon DEF NodeInv, StayingInv, NoResidue
<1> QED BY <1>1, NodeInvariant, PTL

\* The unlink of SocketNodeGuard takes the daemon's own node, or one that was put
\* in its place in one of the two windows, or one that inherited its number.
THEOREM UnlinksOnlyItsNode == Spec => RemovesOnlyItsNode
<1>1. ASSUME NodeInv, NEW p \in Daemons, dpc[p] = "unlink"
      PROVE  LET n == entry[parent_identity_[p]]
             IN \/ n = None \/ n.gen = own[p]
                \/ p \in raced
                \/ n.ino = node_identity_[p] /\ (unlinked \/ raced # {})
  <2>1. p \notin raced => entry[parent_identity_[p]].ino = node_identity_[p]
    BY Zenon, <1>1 DEF NodeInv, LookInv
  <2>2. ~unlinked /\ raced = {} => entry[parent_identity_[p]].gen = own[p]
    BY Zenon, <1>1 DEF NodeInv, UndisturbedInv, Guards, Placed
  <2> QED BY Zenon, <2>1, <2>2
<1>2. NodeInv /\ [Next]_vars =>
        [\A p \in Daemons :
           dpc[p] = "unlink" /\ dpc'[p] = "exited" =>
             LET n == entry[parent_identity_[p]]
             IN \/ n = None \/ n.gen = own[p]
                \/ p \in raced
                \/ n.ino = node_identity_[p] /\ (unlinked \/ raced # {})]_vars
  BY Zenon, <1>1
<1> QED BY <1>2, NodeInvariant, PTL DEF Spec, RemovesOnlyItsNode

=============================================================================
