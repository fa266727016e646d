------------------------------- MODULE MCNodeLog -------------------------------
(***************************************************************************)
(* One space.  The controller bootstraps it for "writer" and gives a       *)
(* delegable grant to "admin"; admin invites "device" for a bounded time,  *)
(* and tries to grant it more than admin was given.                        *)
(* The writer creates a note; writer and device revise, hide or delete it  *)
(* concurrently; the controller revokes admin's grant.                     *)
(*                                                                         *)
(* And the access of paired devices: one device with a grant that reads    *)
(* and appends and ends in time, three signed requests, two requests       *)
(* served at once.  A behaviour runs the log or the access; the other      *)
(* stays in its initial state.                                             *)
(***************************************************************************)
EXTENDS NodeLog, PeerAccess, TLC

CONSTANT s
VARIABLE machine        \* "log" or "access"

NodeInit ==
    machine \in {"log", "access"} /\ Init /\ AccessInit /\ (machine = "access" => wall = 0)
NodeNext ==
    \/ machine = "log" /\ Next /\ UNCHANGED <<machine, accessVars>>
    \/ machine = "access" /\ AccessNext /\ UNCHANGED <<machine, vars>>
NodeSpec == NodeInit /\ [][NodeNext]_<<machine, vars, accessVars>>
-------------------------------------------------------------------------------
MCWorkspaceOf == [d \in Sessions |-> s]
MCPermits == [d \in Sessions |-> {"append", "read"}]
MCValidUntil == [d \in Sessions |-> PeerMaxTime]

MCActors == {"controller", "writer", "admin", "device"}
MCOps == {"genesis", "initial", "delegable", "invite", "overreach", "note", "edit", "fork",
          "hide", "delete", "again", "revoke"}
MCEntities == {"space", "cap1", "cap2", "cap3", "cap4", "cap5", "note"}

Notes == {"note", "edit", "fork", "hide", "delete", "again"}
Grants == {"initial", "delegable", "invite", "overreach"}

MCSchema == [o \in MCOps |-> CASE o = "genesis" -> "space.genesis"
                               [] o \in Grants -> "capability.grant"
                               [] o = "revoke" -> "capability.revoke"
                               [] o \in Notes -> "record"]
MCTombstone == [o \in MCOps |-> o = "delete"]
MCSpaceOf == [o \in MCOps |-> s]
MCEntityOf == [o \in MCOps |-> CASE o = "genesis" -> "space"
                                 [] o = "initial" -> "cap1"
                                 [] o = "delegable" -> "cap2"
                                 [] o = "invite" -> "cap3"
                                 [] o = "revoke" -> "cap4"
                                 [] o = "overreach" -> "cap5"
                                 [] o \in Notes -> "note"]
MCParents == [o \in MCOps |-> CASE o \in {"edit", "fork", "hide", "delete"} -> {"note"}
                                [] OTHER -> {}]
MCAuthorization == [o \in MCOps |->
    CASE o = "genesis" -> {}
      [] o \in {"initial", "delegable", "revoke"} -> {"genesis"}
      [] o \in {"invite", "overreach"} -> {"delegable"}
      [] o \in {"note", "fork", "hide", "again"} -> {"initial"}
      [] o \in {"edit", "delete"} -> {"invite"}]
MCActorOf == [o \in MCOps |->
    CASE o \in {"genesis", "initial", "delegable", "revoke"} -> "controller"
      [] o \in {"invite", "overreach"} -> "admin"
      [] o \in {"edit", "delete"} -> "device"
      [] OTHER -> "writer"]
MCDeclared == [o \in MCOps |-> CASE o \in {"note", "edit", "fork", "again"} -> "public"
                                 [] o = "hide" -> "private"
                                 [] OTHER -> NoVisibility]
MCGrant == [o \in MCOps |->
    CASE o = "delegable" -> [subject |-> "admin", actions |-> {"append", "issue"},
                             scope |-> Scopes, bytes |-> 1, depth |-> 1,
                             from |-> -1, until |-> MaxTime + 1]
      [] o = "invite" -> [subject |-> "device", actions |-> {"append"},
                          scope |-> {"record", "public"}, bytes |-> 1, depth |-> 0,
                          from |-> 1, until |-> 2]
      [] o = "overreach" -> [subject |-> "device", actions |-> {"append", "read"},
                             scope |-> Scopes, bytes |-> 1, depth |-> 0,
                             from |-> -1, until |-> MaxTime + 1]
      [] OTHER -> [subject |-> "writer", actions |-> {"append", "read", "write", "link"},
                   scope |-> Scopes, bytes |-> 1, depth |-> 0,
                   from |-> -1, until |-> MaxTime + 1]]
MCRevokedBy == [o \in MCOps |-> "delegable"]
================================================================================
