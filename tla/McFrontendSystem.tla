-------------------------- MODULE McFrontendSystem --------------------------
(***************************************************************************)
(* The frontend with its environment: proxies that connect, are lost and   *)
(* answer, ICE of the clients completing or failing, and a caller that     *)
(* creates sessions, uses the ones it was told of and drops them, as the   *)
(* vocs core does.                                                         *)
(***************************************************************************)
EXTENDS McFrontend

CONSTANTS Losses        \* bound: proxy connections that may be lost

ASSUME LossesAssumption == Losses \in Nat

VARIABLES fe,           \* the frontend and the proxies
          told,         \* what the caller knows of each session
          issued,       \* request uuids used so far
          lost,         \* proxy connections lost so far, bounded by Losses
          stranded      \* ghost: sessions a proxy kept over a lost connection

vars == <<fe, told, issued, lost, stranded>>

Init ==
    /\ fe = FrontendInit
    /\ told = [S \in Sessions |-> "new"]
    /\ issued = {} /\ lost = 0 /\ stranded = {}

\* The caller gives up the sessions in ss.
Gone(ss) == [S \in Sessions |-> IF S \in ss THEN "gone" ELSE told[S]]

ProxyConnect(p) ==
    /\ ~fe.open[p]
    /\ fe' = RegisterProxy(fe, p)
    /\ UNCHANGED <<told, issued, lost, stranded>>

ProxyLost(p) ==
    /\ fe.open[p] /\ lost < Losses
    /\ \E kept \in SUBSET fe.live[p] :
          /\ fe' = UnregisterProxy(fe, p, kept)
          /\ stranded' = stranded \cup kept
    /\ told' = Gone(fe.owned[p])
    /\ lost' = lost + 1
    /\ UNCHANGED issued

Create(r) ==
    /\ r \notin issued
    /\ fe' = CreateSession(fe, r)
    /\ issued' = issued \cup {r}
    /\ UNCHANGED <<told, lost, stranded>>

\* The core drops a session that has no mixer once more (drop_connection is
\* called again from the release of the mixer).
Drop(S, again) ==
    /\ told[S] = "known"
    /\ fe' = IF again THEN DropSession(DropSession(fe, S), S) ELSE DropSession(fe, S)
    /\ told' = Gone({S})
    /\ UNCHANGED <<issued, lost, stranded>>

SwitchTalk(r, S, on, l) ==
    /\ told[S] = "known" /\ r \notin issued
    /\ fe' = Talk(fe, r, S, on, l)
    /\ issued' = issued \cup {r}
    /\ UNCHANGED <<told, lost, stranded>>

\* The answer to a create request: a fresh session or an error.
AnswerCreate(p) ==
    /\ Said(fe, p).op = "create"
    /\ \/ \E S \in Sessions :
             /\ told[S] = "new"
             /\ fe' = SessionCreated(fe, p, S)
             /\ told' = [told EXCEPT ![S] = "known"]
       \/ fe' = Consume(fe, p) /\ told' = told

AnswerDrop(p) ==
    /\ Said(fe, p).op = "drop"
    /\ LET S == Said(fe, p).session IN
       /\ fe' = IF DropFails(fe, p) THEN EndSession(fe, p, S) ELSE SessionDropped(fe, p)
       /\ told' = Gone({S})

AnswerTalk(p) ==
    /\ Said(fe, p).op \in {"talk on", "talk off"}
    /\ fe' = Talked(fe, p) /\ told' = told

SecondFailure(p) ==
    /\ Said(fe, p).op = "failed"
    /\ fe' = Consume(fe, p)
    /\ told' = Gone({Said(fe, p).session})

ProxyAnswers(p) ==
    /\ fe.wire[p] # <<>>
    /\ AnswerCreate(p) \/ AnswerDrop(p) \/ AnswerTalk(p) \/ SecondFailure(p)
    /\ UNCHANGED <<issued, lost, stranded>>

IceFails(p, S) ==
    /\ fe.open[p] /\ S \in fe.live[p]
    /\ fe' = IceFailed(fe, p, S)
    /\ told' = Gone({S})
    /\ UNCHANGED <<issued, lost, stranded>>

Next ==
    \/ \E p \in Proxies : ProxyConnect(p)
    \/ \E p \in Proxies : ProxyLost(p)
    \/ \E p \in Proxies : ProxyAnswers(p)
    \/ \E p \in Proxies, S \in Sessions : IceFails(p, S)
    \/ \E r \in Reqs : Create(r)
    \/ \E S \in Sessions, again \in BOOLEAN : Drop(S, again)
    \/ \E r \in Reqs, S \in Sessions, on \in BOOLEAN, l \in Loops : SwitchTalk(r, S, on, l)

\* Proxies answer the requests they receive, one after the other.
Fairness == \A p \in Proxies : WF_vars(ProxyAnswers(p))

Spec == Init /\ [][Next]_vars
FairSpec == Spec /\ Fairness

-----------------------------------------------------------------------------
(* Every field of the frontend and of the caller's bookkeeping keeps the   *)
(* type the C structs give it.                                             *)
TypeOK ==
    /\ fe \in FrontendStates
    /\ told \in [Sessions -> {"new", "known", "gone"}]
    /\ issued \subseteq Reqs
    /\ lost \in 0..Losses
    /\ stranded \subseteq Sessions

(* The load the balancer compares is the number of sessions the dictionary *)
(* places at the proxy, over lost connections, second drops and failures.  *)
LoadCountsSessions ==
    \A p \in Proxies : fe.load[p] = Cardinality({S \in Sessions : fe.home[S] = p})

DropPending(p, S) == \E i \in DOMAIN fe.wire[p] :
    fe.wire[p][i].op = "drop" /\ fe.wire[p][i].session = S

(* A session the caller may use is alive in the process behind the open    *)
(* connection that the dictionary and that connection's table name.        *)
KnownIsServed ==
    \A S \in Sessions : told[S] = "known" =>
        HasProxy(fe, S) /\ S \in fe.owned[fe.home[S]] \cap fe.live[fe.home[S]]

(* No session leaks in a proxy: one the caller has given up is being       *)
(* dropped, unless the proxy kept it over a lost connection.               *)
NoOrphanSessions ==
    \A p \in Proxies : \A S \in fe.live[p] :
        told[S] = "known" \/ DropPending(p, S) \/ S \in stranded

(* A connection's table holds no session twice, and none the dictionary    *)
(* places elsewhere: losing the connection drops exactly its sessions.     *)
OwnedAtHome == \A p \in Proxies : \A S \in fe.owned[p] : fe.home[S] = p /\ fe.open[p]

(* A session the caller drops ends in its proxy and leaves the registry,   *)
(* or the proxy is lost.                                                   *)
DropEnds ==
    \A p \in Proxies, S \in Sessions :
        DropPending(p, S) ~> ((S \notin fe.live[p] /\ fe.home[S] = NoProxy) \/ ~fe.open[p])
=============================================================================
