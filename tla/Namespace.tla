------------------------------ MODULE Namespace ------------------------------
(***************************************************************************)
(* How a sandbox enters a user namespace of its own (box/isolation.py):    *)
(* a child that stays outside writes the maps, once a byte through a pipe  *)
(* says that the parent is inside.  Either may be killed between any two   *)
(* system calls, and the host may refuse the namespace.                    *)
(***************************************************************************)
EXTENDS Naturals

VARIABLES
  parent,   \* its next step, or how it ended
  child,    \* its next step, or how it ended
  sent,     \* whether the byte is in the pipe
  writers,  \* who has the pipe's write end open
  unshared, \* whether the parent is in a namespace of its own
  maps      \* which of that namespace's files have been written

namespaceVars == <<parent, child, sent, writers, unshared, maps>>

Files == {"setgroups", "gid_map", "uid_map"}
Ended == {"done", "failed", "killed"}

NamespaceInit ==
  /\ parent = "start" /\ child = "none"
  /\ sent = FALSE /\ writers = {}
  /\ unshared = FALSE /\ maps = {}

\* _acquire_privileges: a caller that already has what it needs stays where it is.
StayOutside ==
  /\ parent = "start" /\ parent' = "done"
  /\ UNCHANGED <<child, sent, writers, unshared, maps>>

\* The child keeps the write end it inherited.
ForkMutant ==
  /\ parent = "start"
  /\ parent' = "unshare" /\ child' = "read"
  /\ writers' = {"parent", "child"}
  /\ UNCHANGED <<sent, unshared, maps>>

\* fork, and what either process closes first.
Fork ==
  /\ parent = "start"
  /\ parent' = "unshare" /\ child' = "read"
  /\ writers' = {"parent"}
  /\ UNCHANGED <<sent, unshared, maps>>

Unshare ==
  /\ parent = "unshare"
  /\ unshared' \in BOOLEAN
  /\ parent' = "tell"
  /\ UNCHANGED <<child, sent, writers, maps>>

\* The byte is sent either way, and the end is closed after it.
Tell ==
  /\ parent = "tell"
  /\ sent' = TRUE /\ writers' = writers \ {"parent"}
  /\ parent' = "wait"
  /\ UNCHANGED <<child, unshared, maps>>

\* waitpid; the refused namespace is the error that is reported.
Wait ==
  /\ parent = "wait" /\ child \in Ended
  /\ parent' = IF unshared /\ child = "done" THEN "done" ELSE "failed"
  /\ UNCHANGED <<child, sent, writers, unshared, maps>>

\* read returns with the byte, or when nobody is left who could send one.
ReadByte ==
  /\ child = "read"
  /\ sent \/ writers = {}
  /\ child' = "setgroups"
  /\ UNCHANGED <<parent, sent, writers, unshared, maps>>

(* /proc/<parent>/<file>: the kernel takes each once, of a process that is *)
(* there and in a namespace below the writer's, and the group map of an    *)
(* unprivileged writer only after setgroups.                               *)
Takes(file) ==
  /\ parent # "killed" /\ unshared /\ file \notin maps
  /\ file = "gid_map" => "setgroups" \in maps

Follows == [setgroups |-> "gid_map", gid_map |-> "uid_map", uid_map |-> "done"]

WriteMap ==
  /\ child \in Files
  /\ IF Takes(child)
       THEN maps' = maps \cup {child} /\ child' = Follows[child]
       ELSE child' = "failed" /\ UNCHANGED maps
  /\ UNCHANGED <<parent, sent, writers, unshared>>

KillEither ==
  \/ /\ parent \notin Ended \cup {"start"}
     /\ parent' = "killed" /\ writers' = writers \ {"parent"}
     /\ UNCHANGED <<child, sent, unshared, maps>>
  \/ /\ child \notin Ended \cup {"none"}
     /\ child' = "killed" /\ writers' = writers \ {"child"}
     /\ UNCHANGED <<parent, sent, unshared, maps>>

NamespaceNext ==
  \/ StayOutside \/ Fork \/ Unshare \/ Tell \/ Wait \/ ReadByte \/ WriteMap \/ KillEither

NamespaceSpec == NamespaceInit /\ [][NamespaceNext]_namespaceVars

(* Nobody goes on in a namespace that is half mapped, and nobody waits for *)
(* a process that is gone: a child still reads only while somebody else    *)
(* can tell it something, and a parent only waits for a child that has yet *)
(* to end, whichever of them is killed (unprivileged_user_namespace).      *)
HandshakeSound ==
  /\ parent = "done" => child = "none" \/ maps = Files
  /\ child = "read" /\ ~sent => writers \subseteq {"parent"}
  /\ writers # {} => parent \in {"unshare", "tell"}
  /\ parent = "wait" /\ child = "read" => sent
=============================================================================
