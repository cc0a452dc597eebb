----------------------------- MODULE Membership ------------------------------
(***************************************************************************)
(* What the conversation service of services/message promises about who    *)
(* belongs to a conversation, with every request taking effect in a single *)
(* step: a conversation exists as long as somebody belongs to it, its      *)
(* roles are granted and taken back by the authority the service           *)
(* documents, and its last owner can neither leave nor be demoted.         *)
(*                                                                         *)
(* Conversations.tla is the service itself; it implements this module when *)
(* no two requests overlap.                                                *)
(***************************************************************************)
EXTENDS Naturals

CONSTANTS Users,    \* user identifiers
          Convs     \* conversation identifiers

Roles == {"member", "admin", "owner"}
None == "none"

VARIABLES roles,    \* roles[c][u]: the role of u in c, or None
          used      \* identifiers that can never name a new conversation

vars == <<roles, used>>

OwnersOf(c) == {u \in Users : roles[c][u] = "owner"}
Members(c)  == {u \in Users : roles[c][u] # None}
Nobody      == [u \in Users |-> None]

Init == /\ roles = [c \in Convs |-> Nobody]
        /\ used = {}

-----------------------------------------------------------------------------
(* A fresh identifier is given to a conversation owned by its creator.     *)
Create(c, creator) ==
    /\ c \notin used
    /\ roles' = [roles EXCEPT ![c][creator] = "owner"]
    /\ used' = used \cup {c}

(* A creation that failed half way consumes its identifier.                *)
Abandon(c) ==
    /\ c \notin used
    /\ used' = used \cup {c}
    /\ UNCHANGED roles

(* An owner adds anybody with any role, an admin adds plain members.       *)
Add(c, actor, u, role) ==
    /\ \/ roles[c][actor] = "owner"
       \/ roles[c][actor] = "admin" /\ role = "member"
    /\ roles[c][u] = None
    /\ roles' = [roles EXCEPT ![c][u] = role]
    /\ UNCHANGED used

(* u is not the only owner of c *)
Spare(c, u) == OwnersOf(c) \ {u} # {}

(* An owner removes anybody but the last owner, an admin plain members.    *)
Remove(c, actor, u) ==
    /\ actor # u
    /\ \/ roles[c][actor] = "owner" /\ roles[c][u] # None
       \/ roles[c][actor] = "admin" /\ roles[c][u] = "member"
    /\ roles' = [roles EXCEPT ![c][u] = None]
    /\ UNCHANGED used

Leave(c, u) ==
    /\ roles[c][u] # None
    /\ roles[c][u] = "owner" => Spare(c, u)
    /\ roles' = [roles EXCEPT ![c][u] = None]
    /\ UNCHANGED used

(* Only owners change roles, and never the last owner's.                   *)
UpdateRole(c, actor, u, role) ==
    /\ roles[c][actor] = "owner"
    /\ roles[c][u] \notin {None, role}
    /\ roles[c][u] = "owner" => Spare(c, u)
    /\ roles' = [roles EXCEPT ![c][u] = role]
    /\ UNCHANGED used

(* An owner closes the conversation for everybody at once.                 *)
Delete(c, actor) ==
    /\ roles[c][actor] = "owner"
    /\ roles' = [roles EXCEPT ![c] = Nobody]
    /\ UNCHANGED used

Next == \E c \in Convs :
          \/ Abandon(c)
          \/ \E u \in Users :
               \/ Create(c, u)
               \/ Leave(c, u)
               \/ Delete(c, u)
               \/ \E v \in Users : Remove(c, u, v)
               \/ \E v \in Users, r \in Roles : Add(c, u, v, r) \/ UpdateRole(c, u, v, r)

Spec == Init /\ [][Next]_vars
=============================================================================
