----------------------------- MODULE McFrontend -----------------------------
(***************************************************************************)
(* The multicast frontend of the vocs service (ov_mc_frontend.c with its   *)
(* registry) and the ICE proxy processes it drives                         *)
(* (ov_ice_proxy_vocs_app.c, ov_ice_proxy_vocs.c), as operators on a       *)
(* record f with the fields                                                *)
(*   open[p]   a proxy is registered at socket p                           *)
(*   load[p]   .load of the connection, never reset                        *)
(*   owned[p]  .sessions of the connection                                 *)
(*   home[S]   the registry's dictionary from sessions to sockets, 0: miss *)
(*   wire[p]   requests sent to the proxy, not answered yet                *)
(*   live[p]   the sessions that exist in the proxy process                *)
(*   talk[S]   the loops the proxy forwards the client's audio to          *)
(*                                                                         *)
(* As with mixers, requests and answers of one proxy form one FIFO and the *)
(* proxy executes a request, or has an ICE event of its own, when the      *)
(* frontend handles the message the proxy sends about it.                  *)
(***************************************************************************)
EXTENDS Integers, FiniteSets, Sequences

CONSTANTS Proxies,      \* file descriptors proxies may be accepted at
          Sessions,     \* session ids, uuids made by the proxies
          Loops,        \* voice loops
          Reqs,         \* request uuids
          None          \* no session, no loop, no request

ASSUME ProxiesAssumption == Proxies \subseteq Nat \ {0}
ASSUME FrontendNoneAssumption == None \notin Sessions \cup Loops \cup Reqs

NoProxy == 0

FrontendInit ==
    [open |-> [p \in Proxies |-> FALSE], load |-> [p \in Proxies |-> 0],
     owned |-> [p \in Proxies |-> {}], home |-> [S \in Sessions |-> NoProxy],
     wire |-> [p \in Proxies |-> <<>>], live |-> [p \in Proxies |-> {}],
     talk |-> [S \in Sessions |-> {}]]

(* "failed" is no request: it is the second of the two events a proxy      *)
(* sends about a session whose ICE failed, queued before its next answer.  *)
FrontendOps == {"create", "update", "candidate", "drop", "talk on", "talk off", "failed"}

ProxyMessage(op, id, S, l) == [op |-> op, id |-> id, session |-> S, loop |-> l]

ProxyMessages ==
    [op : FrontendOps, id : Reqs \cup {None}, session : Sessions \cup {None}, loop : Loops \cup {None}]

FrontendStates ==
    [open : [Proxies -> BOOLEAN], load : [Proxies -> Nat], owned : [Proxies -> SUBSET Sessions],
     home : [Sessions -> Proxies \cup {NoProxy}], wire : [Proxies -> Seq(ProxyMessages)],
     live : [Proxies -> SUBSET Sessions], talk : [Sessions -> SUBSET Loops]]

SendProxy(f, p, m) == [f EXCEPT !.wire[p] = Append(@, m)]

(***************************************************************************)
(* The registry.                                                           *)
(***************************************************************************)

RegisterProxy(f, p) == [f EXCEPT !.open[p] = TRUE, !.wire[p] = <<>>]

\* Mutant: the connection's table of sessions is not freed.
UnregisterProxyKeepsTable(f, p, kept) ==
    [f EXCEPT !.open[p] = FALSE, !.wire[p] = <<>>, !.live[p] = kept]

\* The connection is gone; the caller is told "dropped" for owned[p].  load
\* and home are kept.  The proxy process does not close its sessions: the
\* ones in kept are still there when it connects again.
UnregisterProxy(f, p, kept) ==
    [f EXCEPT !.open[p] = FALSE, !.owned[p] = {}, !.wire[p] = <<>>, !.live[p] = kept]

OpenProxies(f) == {p \in Proxies : f.open[p]}

\* Strictly smaller loads win while scanning upwards: the first of the least loaded.
GetProxySocket(f) ==
    CHOOSE p \in OpenProxies(f) : \A q \in OpenProxies(f) :
        f.load[p] < f.load[q] \/ (f.load[p] = f.load[q] /\ p <= q)

\* Mutant: the session is not entered in the connection's table.
RegisterSessionNotOwned(f, p, S) == [f EXCEPT !.home[S] = p, !.load[p] = @ + 1]

RegisterSession(f, p, S) ==
    [f EXCEPT !.owned[p] = @ \cup {S}, !.home[S] = p, !.load[p] = @ + 1]

\* Mutant: an unknown session lowers the load of some proxy, below zero too.
UnregisterSessionUnchecked(f, S) ==
    LET p == IF f.home[S] = NoProxy THEN CHOOSE q \in Proxies : TRUE ELSE f.home[S]
    IN [f EXCEPT !.owned[p] = @ \ {S}, !.home[S] = NoProxy, !.load[p] = @ - 1]

\* Mutant: the load is not lowered.
UnregisterSessionKeepsLoad(f, S) ==
    IF f.home[S] = NoProxy THEN f
    ELSE [f EXCEPT !.owned[f.home[S]] = @ \ {S}, !.home[S] = NoProxy]

UnregisterSession(f, S) ==
    IF f.home[S] = NoProxy THEN f
    ELSE [f EXCEPT !.owned[f.home[S]] = @ \ {S}, !.home[S] = NoProxy,
                   !.load[f.home[S]] = IF @ > 0 THEN @ - 1 ELSE 0]

(***************************************************************************)
(* The interface the vocs core calls.                                      *)
(***************************************************************************)

\* FALSE: the call fails.
ProxyAvailable(f) == OpenProxies(f) # {}

CreateSession(f, r) ==
    IF ~ProxyAvailable(f) THEN f
    ELSE SendProxy(f, GetProxySocket(f), ProxyMessage("create", r, None, None))

\* FALSE: nothing can be sent about the session.
HasProxy(f, S) == f.home[S] # NoProxy /\ f.open[f.home[S]]

\* Mutant: the session is taken out of the registry at once, the proxy is not asked.
DropSessionUnsent(f, S) == UnregisterSession(f, S)

DropSession(f, S) ==
    IF ~HasProxy(f, S) THEN f
    ELSE SendProxy(f, f.home[S], ProxyMessage("drop", None, S, None))

Talk(f, r, S, on, l) ==
    IF ~HasProxy(f, S) THEN f
    ELSE SendProxy(f, f.home[S], ProxyMessage(IF on THEN "talk on" ELSE "talk off", r, S, l))

UpdateSession(f, r, S) ==
    IF ~HasProxy(f, S) THEN f
    ELSE SendProxy(f, f.home[S], ProxyMessage("update", r, S, None))

\* ov_mc_frontend_candidate and _end_of_candidates
Candidate(f, r, S) ==
    IF ~HasProxy(f, S) THEN f
    ELSE SendProxy(f, f.home[S], ProxyMessage("candidate", r, S, None))

(***************************************************************************)
(* What the proxy at p says next, and what the frontend makes of it.       *)
(***************************************************************************)

Said(f, p) == Head(f.wire[p])

Consume(f, p) == [f EXCEPT !.wire[p] = Tail(@)]

\* create: the caller is told "created" with the new session S, or an error.
SessionCreated(f, p, S) ==
    RegisterSession([Consume(f, p) EXCEPT !.live[p] = @ \cup {S}], p, S)

\* Mutant: the failure is announced but the session is not freed.
EndSessionKeepsSession(f, p, S) == [f EXCEPT !.talk[S] = {}]

\* The session ends in the proxy process (session_free).
EndSession(f, p, S) == [f EXCEPT !.live[p] = @ \ {S}, !.talk[S] = {}]

\* drop of a session the proxy has: before the answer goes out session_free
\* sends that ICE has failed; the caller is told "failed".
DropFails(f, p) == Said(f, p).op = "drop" /\ Said(f, p).session \in f.live[p]

\* drop: dictionaries are deleted from without complaint, the answer is
\* success for an unknown session too; the caller is told "dropped".
SessionDropped(f, p) == UnregisterSession(Consume(f, p), Said(f, p).session)

TalkSucceeds(f, p) == Said(f, p).session \in f.live[p]

\* talk: the caller is told the result.
Talked(f, p) ==
    LET m == Said(f, p) IN
    IF ~TalkSucceeds(f, p) THEN Consume(f, p)
    ELSE [Consume(f, p) EXCEPT !.talk[m.session] =
             IF m.op = "talk on" THEN @ \cup {m.loop} ELSE @ \ {m.loop}]

\* update, candidate: whether the proxy takes what the client sends, if it has
\* the session.  An answer that says no does not name the session.
SignalResults(f, p) == IF Said(f, p).session \in f.live[p] THEN BOOLEAN ELSE {FALSE}

\* ICE of session S fails: the caller is told "failed", and once more.
IceFailed(f, p, S) ==
    LET g == EndSession(f, p, S) IN
    [g EXCEPT !.wire[p] = <<ProxyMessage("failed", None, S, None)>> \o @]
=============================================================================
