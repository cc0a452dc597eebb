------------------------------ MODULE Authority ------------------------------
(***************************************************************************)
(* Conversations observed: what authority the actor of a request has had   *)
(* since it arrived.  The service reads a role in one call and writes in a *)
(* later one, so that the authority of a write can be one its actor no     *)
(* longer has; what it may never be is one the actor has not had at all.   *)
(***************************************************************************)
EXTENDS Conversations

VARIABLE held   \* history: held[h], the grounds of h's request since it arrived

observed == <<vars, held>>

(* What can entitle a request: that its actor owns the conversation, that  *)
(* it is an admin of it, that whom it removes is a plain member.  With the *)
(* first nothing else matters.                                             *)
Grounds(h) ==
    LET q == handler[h]
        actorRole == members[q.conv][q.actor]
        targetRole == members[q.conv][q.target]
    IN  CASE h[2] \in {"GROUP_UPDATE_ROLE", "GROUP_DELETE"} -> {actorRole} \cap {"owner"}
          [] h[2] = "GROUP_ADD_MEMBER"    -> {actorRole} \cap {"owner", "admin"}
          [] h[2] = "GROUP_REMOVE_MEMBER" -> ({actorRole} \cap {"owner", "admin"})
                                             \cup ({targetRole} \cap {"member"})
          [] OTHER -> {}

Enough(grounds) == IF "owner" \in grounds THEN {"owner"} ELSE grounds

Observe ==
    held' = [h \in Handlers |-> IF handler'[h] = Idle THEN {}
                                ELSE Enough(held[h] \cup Grounds(h)')]

ObservedSpec ==
    /\ Init /\ held = [h \in Handlers |-> {}]
    /\ [][Next /\ Observe]_observed

-----------------------------------------------------------------------------
(* The request h is one for which the role of u in c may become role:      *)
(* owners add, promote, demote, remove and delete; admins add plain        *)
(* members and remove them; everybody leaves; a creator becomes the owner. *)
(* Nobody becomes a member twice: a role that is there is changed by those *)
(* who may change it, never by a second addition.                          *)
MayWrite(h, c, u, role) ==
    LET q == handler[h]
        owner == "owner" \in held[h]
        admin == "admin" \in held[h]
        new   == members[c][u] = None
    IN /\ q.conv = c
       /\ \/ h[2] = "GROUP_CREATE" /\ q.actor = u /\ role = "owner" /\ new
          \/ /\ h[2] = "GROUP_ADD_MEMBER" /\ q.target = u /\ role = q.role /\ new
             /\ owner \/ (admin /\ role = "member")
          \/ h[2] = "GROUP_UPDATE_ROLE" /\ q.target = u /\ role = q.role /\ ~new /\ owner
          \/ /\ h[2] \in {"GROUP_REMOVE_MEMBER", "GROUP_LEAVE"} /\ q.target = u /\ role = None
             /\ q.actor = u \/ owner \/ (admin /\ "member" \in held[h])
          \/ h[2] = "GROUP_DELETE" /\ role = None /\ owner /\ conversations[c] = "deleted"

(* Whatever overlaps a request, and whoever is promoted, demoted, removed  *)
(* or added again between its calls, a membership is changed only for an   *)
(* actor who has had the authority for that change since the request       *)
(* arrived (conversation_service.go, ErrForbidden), and the two additions  *)
(* of one user that both found no membership do not both take effect.      *)
GrantsAuthorised ==
    [][\A c \in Convs, u \in Users :
         members'[c][u] # members[c][u] => \E h \in Handlers : MayWrite(h, c, u, members'[c][u])]_observed
=============================================================================
