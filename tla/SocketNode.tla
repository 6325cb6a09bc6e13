----------------------------- MODULE SocketNode -----------------------------
(***************************************************************************)
(* create_unix_listener and SocketNodeGuard of src/lib/ipc/unix_socket.cpp *)
(* for several daemons given one socket path, while other processes of the *)
(* user remove and create entries and exchange the parent directory.       *)
(*                                                                         *)
(* One action is one system call, which may fail.  An identity is st_dev   *)
(* and st_ino; an inode number is free again once no entry and no bound    *)
(* socket holds it.                                                        *)
(* Generations are not part of the code: they tell apart nodes that had    *)
(* the same number.                                                        *)
(***************************************************************************)
EXTENDS Naturals, FiniteSets

CONSTANTS
  Daemons,          \* daemon processes
  Directories,      \* directories the parent path may name
  Inodes,           \* inode numbers for entries
  MaxNodes,         \* nodes created in a behaviour
  None

Node == [ino : Inodes, gen : 1..MaxNodes, kind : {"socket", "other"}]

ASSUME SocketNodeAssumption ==
  /\ IsFiniteSet(Daemons) /\ Directories # {}
  /\ MaxNodes \in Nat \ {0}
  /\ None \notin Inodes /\ None \notin Directories /\ None \notin Node

VARIABLES
  parent,            \* directory the parent path resolves to
  entry,             \* node under the leaf name in each directory
  nodes,             \* nodes created so far
  dpc,               \* control state of each daemon
  parent_identity_,  \* directory the guard's descriptor is open on
  node_identity_,    \* inode number the guard captured
  state_,            \* state of the guard
  bound,             \* node the daemon's open listener is bound to
  own,               \* generation of the node the daemon created, 0 if none
  inconclusive,      \* daemons whose remove met a system call that failed
  raced,             \* daemons whose entry was replaced behind a fresh look
  unlinked,          \* whether another process removed an entry
  moved              \* whether the parent path was made to name another one

fsVars == <<parent, entry, nodes>>
guardVars == <<parent_identity_, node_identity_, state_>>
ghostVars == <<own, inconclusive, raced, unlinked, moved>>
vars == <<fsVars, dpc, guardVars, bound, ghostVars>>

DaemonStates == {"open", "check_parent", "check_leaf", "bind", "capture",
                 "capture_parent", "listen", "serve", "close", "remove", "inspect",
                 "unlink", "exited", "crashed"}

\* Every variable has the type the code gives it, and a daemon whose socket is
\* ready has a guard that is armed.
TypeOK ==
  /\ parent \in Directories
  /\ entry \in [Directories -> Node \cup {None}]
  /\ nodes \in 0..MaxNodes
  /\ dpc \in [Daemons -> DaemonStates]
  /\ parent_identity_ \in [Daemons -> Directories \cup {None}]
  /\ node_identity_ \in [Daemons -> Inodes \cup {None}]
  /\ state_ \in [Daemons -> {"Empty", "Prepared", "Armed", "Consumed"}]
  /\ bound \in [Daemons -> Node \cup {None}]
  /\ own \in [Daemons -> 0..MaxNodes]
  /\ inconclusive \subseteq Daemons /\ raced \subseteq Daemons
  /\ unlinked \in BOOLEAN /\ moved \in BOOLEAN
  /\ \A p \in Daemons : dpc[p] \in {"listen", "serve"} => state_[p] = "Armed"

Init ==
  /\ parent \in Directories
  /\ entry = [d \in Directories |-> None]
  /\ nodes = 0
  /\ dpc = [p \in Daemons |-> "open"]
  /\ parent_identity_ = [p \in Daemons |-> None]
  /\ node_identity_ = [p \in Daemons |-> None]
  /\ state_ = [p \in Daemons |-> "Empty"]
  /\ bound = [p \in Daemons |-> None]
  /\ own = [p \in Daemons |-> 0]
  /\ inconclusive = {} /\ raced = {} /\ unlinked = FALSE /\ moved = FALSE

Goto(p, from, to) == dpc[p] = from /\ dpc' = [dpc EXCEPT ![p] = to]

FreeInodes ==
  Inodes \ ({entry[d].ino : d \in {e \in Directories : entry[e] # None}}
              \cup {bound[p].ino : p \in {q \in Daemons : bound[q] # None}})

NewNodes(kind) == [ino : FreeInodes, gen : {nodes + 1}, kind : {kind}]

\* The daemons whose next step takes the entry of d for what they left there.
Looking(d) ==
  {p \in Daemons : parent_identity_[p] = d /\ dpc[p] \in {"capture", "unlink"}}

\* The daemons that are setting up under d.
SettingUp(d) ==
  {p \in Daemons : /\ parent_identity_[p] = d
                   /\ dpc[p] \in {"check_parent", "check_leaf", "bind",
                                  "capture", "capture_parent"}}

-----------------------------------------------------------------------------
(* create_unix_listener_impl                                                 *)

\* open and fstat of the parent directory, one of which may fail.
OpenParent(p) ==
  /\ \/ Goto(p, "open", "exited") /\ UNCHANGED parent_identity_
     \/ /\ Goto(p, "open", "check_parent")
        /\ parent_identity_' = [parent_identity_ EXCEPT ![p] = parent]
  /\ UNCHANGED <<fsVars, node_identity_, state_, bound, ghostVars>>

\* parent_path_matches, whose stat may fail.
CheckParent(p) ==
  /\ \/ parent = parent_identity_[p] /\ Goto(p, "check_parent", "check_leaf")
     \/ Goto(p, "check_parent", "exited")
  /\ UNCHANGED <<fsVars, guardVars, bound, ghostVars>>

\* Whatever the leaf names already is left alone, as when the look at it fails;
\* otherwise the guard is made.
CheckLeaf(p) ==
  /\ \/ Goto(p, "check_leaf", "exited") /\ UNCHANGED state_
     \/ /\ Goto(p, "check_leaf", "bind")
        /\ entry[parent_identity_[p]] = None
        /\ state_' = [state_ EXCEPT ![p] = "Prepared"]
  /\ UNCHANGED <<fsVars, parent_identity_, node_identity_, bound, ghostVars>>

\* The socket is made and bound.  The kernel resolves the whole path again, and
\* creates the node or fails, as it does when the entry exists.
Bind(p) ==
  /\ \/ /\ Goto(p, "bind", "close")
        /\ UNCHANGED <<entry, nodes, bound, own>>
     \/ /\ entry[parent] = None /\ nodes < MaxNodes
        /\ Goto(p, "bind", "capture")
        /\ \E n \in NewNodes("socket") :
             /\ entry' = [entry EXCEPT ![parent] = n]
             /\ bound' = [bound EXCEPT ![p] = n]
        /\ nodes' = nodes + 1
        /\ own' = [own EXCEPT ![p] = nodes + 1]
  /\ UNCHANGED <<parent, guardVars, inconclusive, raced, unlinked, moved>>

\* abandon_unverified_bind: the identity that was seen is dropped.
Abandon(p) ==
  /\ state_' = [state_ EXCEPT ![p] = "Consumed"]
  /\ node_identity_' = [node_identity_ EXCEPT ![p] = None]

\* fstatat of the leaf under the fixed directory, which may fail.
CaptureLeaf(p) ==
  /\ LET n == entry[parent_identity_[p]]
     IN \/ /\ Goto(p, "capture", "capture_parent")
           /\ n # None /\ n.kind = "socket"
           /\ node_identity_' = [node_identity_ EXCEPT ![p] = n.ino]
           /\ UNCHANGED state_
        \/ Goto(p, "capture", "close") /\ Abandon(p)
  /\ UNCHANGED <<fsVars, parent_identity_, bound, ghostVars>>

\* Mutant: arm is not called.
CaptureParent_Unarmed(p) ==
  /\ \/ /\ parent = parent_identity_[p]
        /\ Goto(p, "capture_parent", "listen")
        /\ UNCHANGED <<node_identity_, state_>>
     \/ Goto(p, "capture_parent", "close") /\ Abandon(p)
  /\ UNCHANGED <<fsVars, parent_identity_, bound, ghostVars>>

\* Mutant: the parent path is not looked at again after bind.
CaptureParent_Unchecked(p) ==
  /\ Goto(p, "capture_parent", "listen")
  /\ state_' = [state_ EXCEPT ![p] = "Armed"]
  /\ UNCHANGED <<fsVars, parent_identity_, node_identity_, bound, ghostVars>>

\* parent_path_matches once more, then arm; the generation is not proved either
\* when the stat fails.
CaptureParent(p) ==
  /\ \/ /\ parent = parent_identity_[p]
        /\ Goto(p, "capture_parent", "listen")
        /\ state_' = [state_ EXCEPT ![p] = "Armed"]
        /\ UNCHANGED node_identity_
     \/ Goto(p, "capture_parent", "close") /\ Abandon(p)
  /\ UNCHANGED <<fsVars, parent_identity_, bound, ghostVars>>

\* Mutant: a listener that cannot listen gives up its guard too.
Listen_Abandons(p) ==
  /\ \/ Goto(p, "listen", "serve") /\ UNCHANGED state_
     \/ /\ Goto(p, "listen", "close")
        /\ state_' = [state_ EXCEPT ![p] = "Consumed"]
  /\ UNCHANGED <<fsVars, parent_identity_, node_identity_, bound, ghostVars>>

\* listen succeeds and the server serves, or set-up is rolled back.
Listen(p) ==
  /\ \E next \in {"serve", "close"} : Goto(p, "listen", next)
  /\ UNCHANGED <<fsVars, guardVars, bound, ghostVars>>

\* The server stops.
Stop(p) ==
  /\ Goto(p, "serve", "close")
  /\ UNCHANGED <<fsVars, guardVars, bound, ghostVars>>

\* The listener is closed before the guard acts, in stop as in the rollback.
CloseListener(p) ==
  /\ Goto(p, "close", "remove")
  /\ bound' = [bound EXCEPT ![p] = None]
  /\ UNCHANGED <<fsVars, guardVars, ghostVars>>

-----------------------------------------------------------------------------
(* SocketNodeGuard::remove                                                   *)

\* A system call of the removal fails: the pathname is kept, and the guard, which
\* is consumed already, does not try again.
GiveUp(p, from) ==
  /\ Goto(p, from, "exited")
  /\ inconclusive' = inconclusive \cup {p}

\* The state is consumed; the fixed directory must still be the path's.  The
\* fstat of the one and the stat of the other may fail.
RemoveParent(p) ==
  /\ \/ /\ Goto(p, "remove",
                IF state_[p] = "Armed" /\ parent = parent_identity_[p]
                THEN "inspect" ELSE "exited")
        /\ UNCHANGED inconclusive
     \/ state_[p] = "Armed" /\ GiveUp(p, "remove")
  /\ state_' = [state_ EXCEPT ![p] = "Consumed"]
  /\ UNCHANGED <<fsVars, parent_identity_, node_identity_, bound, own, raced,
                 unlinked, moved>>

\* Mutant: any socket under the name is taken for the daemon's own.
RemoveLeaf_AnySocket(p) ==
  /\ LET n == entry[parent_identity_[p]]
     IN \/ /\ Goto(p, "inspect",
                   IF n # None /\ n.kind = "socket" THEN "unlink" ELSE "exited")
           /\ UNCHANGED inconclusive
        \/ GiveUp(p, "inspect")
  /\ UNCHANGED <<fsVars, guardVars, bound, own, raced, unlinked, moved>>

\* fstatat, which may fail: a socket with the captured identity.
RemoveLeaf(p) ==
  /\ LET n == entry[parent_identity_[p]]
     IN \/ /\ Goto(p, "inspect",
                   IF n # None /\ n.kind = "socket" /\ n.ino = node_identity_[p]
                   THEN "unlink" ELSE "exited")
           /\ UNCHANGED inconclusive
        \/ GiveUp(p, "inspect")
  /\ UNCHANGED <<fsVars, guardVars, bound, own, raced, unlinked, moved>>

\* unlinkat removes whatever is there now, or fails, which nobody looks at.
Unlink(p) ==
  /\ \/ /\ Goto(p, "unlink", "exited")
        /\ entry' = [entry EXCEPT ![parent_identity_[p]] = None]
        /\ raced' = raced \cup (Looking(parent_identity_[p]) \ {p})
        /\ UNCHANGED inconclusive
     \/ GiveUp(p, "unlink") /\ UNCHANGED <<entry, raced>>
  /\ UNCHANGED <<parent, nodes, guardVars, bound, own, unlinked, moved>>

\* The process is killed: the kernel closes its listener and nothing else.
Crash(p) ==
  /\ dpc[p] \notin {"exited", "crashed"}
  /\ dpc' = [dpc EXCEPT ![p] = "crashed"]
  /\ bound' = [bound EXCEPT ![p] = None]
  /\ UNCHANGED <<fsVars, guardVars, ghostVars>>

-----------------------------------------------------------------------------
(* Other processes of the user.                                              *)

RemoveEntry(d) ==
  /\ entry[d] # None
  /\ entry' = [entry EXCEPT ![d] = None]
  /\ raced' = raced \cup Looking(d)
  /\ unlinked' = TRUE
  /\ UNCHANGED <<parent, nodes, dpc, guardVars, bound, own, inconclusive, moved>>

CreateOther(d) ==
  /\ entry[d] = None /\ nodes < MaxNodes
  /\ \E n \in NewNodes("other") : entry' = [entry EXCEPT ![d] = n]
  /\ nodes' = nodes + 1
  /\ UNCHANGED <<parent, dpc, guardVars, bound, ghostVars>>

\* The path comes to name d; a daemon that set up under d meanwhile cannot tell.
MoveParent(d) ==
  /\ d # parent
  /\ parent' = d
  /\ raced' = raced \cup SettingUp(d)
  /\ moved' = TRUE
  /\ UNCHANGED <<entry, nodes, dpc, guardVars, bound, own, inconclusive, unlinked>>

DaemonStep(p) ==
  \/ OpenParent(p) \/ CheckParent(p) \/ CheckLeaf(p) \/ Bind(p)
  \/ CaptureLeaf(p) \/ CaptureParent(p) \/ Listen(p) \/ Stop(p)
  \/ CloseListener(p) \/ RemoveParent(p) \/ RemoveLeaf(p) \/ Unlink(p)
  \/ Crash(p)

Next ==
  \/ \E p \in Daemons : DaemonStep(p)
  \/ \E d \in Directories : RemoveEntry(d) \/ CreateOther(d) \/ MoveParent(d)

Spec == Init /\ [][Next]_vars

-----------------------------------------------------------------------------
(* Properties                                                                *)

\* "Same-user status does not permit an old instance to remove or mutate a
\* replacement inode" (ADR 0001), as far as the code can keep it: a daemon
\* unlinks another node than its own only if the node was replaced in one of the
\* two windows between a look and its use, or if its own node was removed by
\* another process, or by a daemon that met such a window, and the replacement
\* inherited the inode number.
RemovesOnlyItsNode ==
  [][\A p \in Daemons :
       dpc[p] = "unlink" /\ dpc'[p] = "exited" =>
         LET n == entry[parent_identity_[p]]
         IN \/ n = None \/ n.gen = own[p]
            \/ p \in raced
            \/ n.ino = node_identity_[p] /\ (unlinked \/ raced # {})]_vars

\* Without an outside removal, daemons that start, stop, fail or crash on one
\* path never take away the node of one that serves: not even when the parent
\* directory was exchanged.  Excepted are the windows raced stands for: an entry
\* replaced between a look and its use, and a parent path that came back to the
\* directory of a daemon still setting up, which then took another's node for its
\* own.
ServingNodeStays ==
  ~unlinked /\ raced = {} =>
    \A p \in Daemons :
      dpc[p] = "serve" =>
        \E d \in Directories : entry[d] # None /\ entry[d].gen = own[p]

\* While the parent path names the same directory, a daemon whose guard was armed
\* leaves its node behind only by a crash or by a system call of
\* SocketNodeGuard::remove that fails ("Inconclusive parent/node state and every
\* mismatch preserve the current pathname. The attempt occurs at most once.",
\* unix_socket.hpp:149): whatever other daemons and processes do to the entry, and
\* also when listen failed, so that the next daemon can start.
NoResidue ==
  ~moved => \A p \in Daemons :
    dpc[p] = "exited" /\ node_identity_[p] # None /\ p \notin inconclusive =>
      \A d \in Directories : entry[d] # None => entry[d].gen # own[p]

=============================================================================
