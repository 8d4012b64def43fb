---------------------------- MODULE MixerLease ------------------------------
(***************************************************************************)
(* What the backend promises the vocs core about mixers: a session asks    *)
(* once, holds at most one mixer, never shares it, is told when it has it, *)
(* and once the session has ended nothing is leased to it any more.        *)
(***************************************************************************)
EXTENDS Naturals

CONSTANTS Sockets, Users

VARIABLES lease,    \* lease[u]: the mixer reserved for session u, 0 for none
          own       \* own[u]: what the session's owner has been told

OwnStates == {"new", "asked", "held", "gone"}

LeaseTypeOK == lease \in [Users -> Sockets \cup {0}] /\ own \in [Users -> OwnStates]

LeaseInit == lease = [u \in Users |-> 0] /\ own = [u \in Users |-> "new"]

Grant(u, s) ==
    /\ own[u] = "new"
    /\ \A v \in Users : lease[v] # s
    /\ lease' = [lease EXCEPT ![u] = s]
    /\ own' = [own EXCEPT ![u] = "asked"]

Refuse(u) == own[u] = "new" /\ own' = [own EXCEPT ![u] = "gone"] /\ UNCHANGED lease

Confirm(u) ==
    /\ own[u] = "asked" /\ lease[u] # 0
    /\ own' = [own EXCEPT ![u] = "held"]
    /\ UNCHANGED lease

\* Released by its owner, refused by the mixer, or the mixer is lost.
End(u) ==
    /\ own[u] \in {"asked", "held"}
    /\ lease' = [lease EXCEPT ![u] = 0]
    /\ own' = [own EXCEPT ![u] = "gone"]

\* The mixer refused after the request had expired: only the lease ends.
Revoke(u) == own[u] = "asked" /\ lease' = [lease EXCEPT ![u] = 0] /\ UNCHANGED own

LeaseNext ==
    \E u \in Users :
        \/ \E s \in Sockets : Grant(u, s)
        \/ Refuse(u)
        \/ Confirm(u)
        \/ End(u)
        \/ Revoke(u)

LeaseSpec == LeaseInit /\ [][LeaseNext]_<<lease, own>>
=============================================================================
