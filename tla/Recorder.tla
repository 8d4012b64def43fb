------------------------------ MODULE Recorder ------------------------------
(***************************************************************************)
(* Recording of loops (ov_vocs_recorder.c, ov_vocs_record.c).  Recorder    *)
(* processes connect and register; the server gives each loop that is to   *)
(* be recorded a recorder of its own and marks that recorder as blocked.   *)
(* Recorders are known by their sockets, and a socket is used again.       *)
(*                                                                         *)
(* A request is remembered by a callback under its uuid until the answer   *)
(* comes or it expires; here the message itself carries cb, whether its    *)
(* callback is (still) there.  The handlers call what they find, and what  *)
(* they find may be a null pointer: then the process dies.                 *)
(***************************************************************************)
EXTENDS Integers, Sequences, FiniteSets, Functions

CONSTANTS Recorders,     \* sockets of recorder processes
          Loops,
          None,
          Queue,         \* bound: requests on their way to a recorder
          Retry,         \* switch: a loop that has a recorder is started again
          Pipelining,    \* switch: a loop is stopped while requests are open
          EarlyStart,    \* switch: loops are started before the startup timer
          Reregister     \* switch: recorders register again on a connection

ASSUME QueueAssumption == Queue \in Nat \ {0}

\* ov_vocs_record: known says that id is that of the recording its recorder runs.
Records == [running : BOOLEAN, recorder : Recorders \cup {None}, known : BOOLEAN]

ASSUME NoneAssumption ==
    None \notin Recorders /\ None \notin Loops /\ None \notin {"empty", "blocked"} /\ None \notin Records

VARIABLES process,       \* "up" or "down"
          timer,         \* the startup timer is still running
          link,          \* connections: "closed", "open", "registered", "left"
          recorder,      \* registered recorders: None, "empty" or "blocked"
          recordings,    \* records of loops, or None
          recorded,      \* loops marked as recorded in the database
          requests,      \* messages to the recorders
          answers,       \* messages from the recorders
          recs           \* loops each recorder process records

vars == <<process, timer, link, recorder, recordings, recorded, requests, answers, recs>>

Record(running, r, known) == [running |-> running, recorder |-> r, known |-> known]

Fresh == Record(FALSE, None, FALSE)

Message(kind, l, cb, known) == [kind |-> kind, loop |-> l, cb |-> cb, known |-> known]

\* What a process without connections starts with.
Each(v) == [r \in Recorders |-> v]

NoRecordings == [l \in Loops |-> None]

Init ==
    /\ process = "up" /\ timer = TRUE
    /\ link = Each("closed") /\ recorder = Each(None)
    /\ recordings = NoRecordings
    /\ recorded \in SUBSET Loops
    /\ requests = Each(<<>>) /\ answers = Each(<<>>) /\ recs = Each({})

Open(r) == process = "up" /\ link[r] # "closed"

Empty == {r \in Recorders : recorder[r] = "empty"}

\* The socket of the record of l, if it has one.
RecorderOf(l) == IF recordings[l] = None THEN None ELSE recordings[l].recorder

Running(l) == recordings[l] # None /\ recordings[l].running

\* No message about l is on its way.
Quiet(l) ==
    \A r \in Recorders : \A i \in 1..Len(requests[r] \o answers[r]) :
        (requests[r] \o answers[r])[i].loop # l

-----------------------------------------------------------------------------
(* Connections *)

Connect(r) ==
    /\ process = "up" /\ link[r] = "closed"
    /\ link' = [link EXCEPT ![r] = "open"]
    /\ UNCHANGED <<process, timer, recorder, recordings, recorded, requests, answers, recs>>

\* event_recorder_register: a new entry replaces an old one and is empty.
Register(r) ==
    /\ Open(r) /\ (link[r] = "open" \/ Reregister)
    /\ link' = [link EXCEPT ![r] = "registered"]
    /\ recorder' = [recorder EXCEPT ![r] = "empty"]
    /\ UNCHANGED <<process, timer, recordings, recorded, requests, answers, recs>>

\* event_recorder_unregister: records that name the recorder are left alone.
Unregister(r) ==
    /\ Open(r) /\ link[r] = "registered"
    /\ link' = [link EXCEPT ![r] = "left"]
    /\ recorder' = [recorder EXCEPT ![r] = None]
    /\ UNCHANGED <<process, timer, recordings, recorded, requests, answers, recs>>

-----------------------------------------------------------------------------
(* Starting.  given maps loops to the empty recorders they get.            *)

Assignments(ls) == {f \in [ls -> Empty] : IsInjective(f)}

\* Mutant: a recorder that is given a loop is not blocked.
RecordersBlockedLate(given) == recorder

\* find_empty_recorder, and "we block the recorder here"
RecordersBlocked(given) ==
    [r \in Recorders |-> IF \E l \in DOMAIN given : given[l] = r
                         THEN "blocked" ELSE recorder[r]]

RecordsNamed(given) ==
    [l \in Loops |-> IF l \in DOMAIN given THEN Record(FALSE, given[l], FALSE)
                                           ELSE recordings[l]]

\* name[l] is what the message says the loop is called.
StartsSent(given, name, cb) ==
    [r \in Recorders |->
        LET ls == {l \in DOMAIN given : given[l] = r} IN
        IF ls = {} THEN requests[r]
        ELSE Append(requests[r], Message("start", name[CHOOSE l \in ls : TRUE], cb, FALSE))]

Give(given, cb) ==
    /\ recorder' = RecordersBlocked(given)
    /\ recordings' = RecordsNamed(given)
    /\ requests' = StartsSent(given, [l \in Loops |-> l], cb)

\* ov_vocs_recorder_start_recording keeps no callback (cb FALSE),
\* ov_vocs_recorder_start_loop_recording does.
Start(l, cb) ==
    /\ process = "up"
    /\ EarlyStart \/ ~timer
    /\ Retry \/ RecorderOf(l) = None
    /\ ~Running(l)
    /\ \E given \in Assignments({l}) :
        /\ Len(requests[given[l]]) < Queue
        /\ Give(given, cb)
    /\ recorded' = recorded \cup {l}
    /\ UNCHANGED <<process, timer, link, answers, recs>>

\* The same without an empty recorder, or for a loop that has no multicast
\* group now (line 1108): the record remains.
StartFails(l) ==
    /\ process = "up" /\ recordings[l] = None
    /\ recordings' = [recordings EXCEPT ![l] = Fresh]
    /\ UNCHANGED <<process, timer, link, recorder, recorded, requests, answers, recs>>

\* start_all_recordings: request_new_recording for the loops of the database
\* until there is no empty recorder left.
StartAll ==
    /\ process = "up" /\ timer
    /\ timer' = FALSE
    /\ \E ls \in SUBSET recorded :
        /\ ls = recorded \/ Cardinality(ls) = Cardinality(Empty)
        /\ \E given \in Assignments(ls) : Give(given, FALSE)
    /\ UNCHANGED <<process, link, recorded, answers, recs>>

-----------------------------------------------------------------------------
(* Stopping: stop_recording without, stop_loop_recording with a callback.  *)

Registered(l) == RecorderOf(l) # None /\ recorder[RecorderOf(l)] # None

Stop(l, cb) ==
    LET r == RecorderOf(l) IN
    /\ process = "up" /\ Registered(l)
    /\ Pipelining \/ Quiet(l)
    /\ Len(requests[r]) < Queue
    /\ requests' = [requests EXCEPT ![r] =
                      Append(@, Message("stop", l, cb, recordings[l].known))]
    /\ recorded' = recorded \ {l}
    /\ UNCHANGED <<process, timer, link, recorder, recordings, answers, recs>>

\* The recorder is not registered: nothing is sent, the mark stays.
StopFails(l) ==
    /\ process = "up" /\ recordings[l] # None /\ ~Registered(l)
    /\ recordings' = [recordings EXCEPT ![l].running = FALSE]
    /\ UNCHANGED <<process, timer, link, recorder, recorded, requests, answers, recs>>

-----------------------------------------------------------------------------
(* A recorder is lost: cb_recorder_socket_close.                           *)

\* What goes down with the connection; a recorder then stops recording.
Disconnect(r) ==
    /\ link' = [link EXCEPT ![r] = "closed"]
    /\ answers' = [answers EXCEPT ![r] = <<>>]
    /\ recs' = [recs EXCEPT ![r] = {}]
    /\ UNCHANGED <<process, timer, recorded>>

\* No loop is recorded with r.
CloseUnused(r) ==
    /\ Open(r) /\ \A l \in Loops : RecorderOf(l) # r
    /\ recorder' = [recorder EXCEPT ![r] = None]
    /\ requests' = [requests EXCEPT ![r] = <<>>]
    /\ recordings' = recordings
    /\ Disconnect(r)

\* Mutant: the record of a lost recorder is left as it is.
CloseFailsKeeps(r, l) ==
    /\ Open(r) /\ RecorderOf(l) = r /\ Empty = {}
    /\ recordings' = recordings
    /\ recorder' = [recorder EXCEPT ![r] = None]
    /\ requests' = [requests EXCEPT ![r] = <<>>]
    /\ Disconnect(r)

\* No other recorder is empty: the recording ends.
CloseFails(r, l) ==
    /\ Open(r) /\ RecorderOf(l) = r /\ Empty = {}
    /\ recordings' = [recordings EXCEPT ![l] = Fresh]
    /\ recorder' = [recorder EXCEPT ![r] = None]
    /\ requests' = [requests EXCEPT ![r] = <<>>]
    /\ Disconnect(r)

\* The loop gets another recorder.  Its name is read from the old record,
\* which request_new_recording has freed by then: the recorder is told the
\* name, or (None) what the memory holds now.
CloseMoves(r, l) ==
    /\ Open(r) /\ RecorderOf(l) = r
    /\ \E given \in Assignments({l}), name \in [{l} -> {l, None}] :
        /\ recorder' = [RecordersBlocked(given) EXCEPT ![r] = None]
        /\ recordings' = RecordsNamed(given)
        /\ requests' = [StartsSent(given, name, FALSE) EXCEPT ![r] = <<>>]
    /\ Disconnect(r)

Close(r) ==
    \/ CloseUnused(r)
    \/ \E l \in Loops : CloseFails(r, l) \/ CloseMoves(r, l)

-----------------------------------------------------------------------------
(* Answers *)

\* The process dies; nothing of it is left but the files of the database.
Die ==
    /\ process' = "down" /\ timer' = TRUE
    /\ link' = Each("closed") /\ recorder' = Each(None)
    /\ recordings' = NoRecordings
    /\ recorded' \in SUBSET Loops
    /\ requests' = Each(<<>>) /\ answers' = Each(<<>>) /\ recs' = Each({})

Receives(r, kind, codes) ==
    /\ Open(r) /\ answers[r] # <<>>
    /\ Head(answers[r]).kind = kind /\ Head(answers[r]).code \in codes

Received(r) == answers' = [answers EXCEPT ![r] = Tail(@)]

\* start_record for a loop without a record: "loop recoding not enabled".
StartAnsweredUnknown(r) ==
    /\ Receives(r, "start", {"ok"}) /\ Head(answers[r]).loop = None
    /\ Received(r)
    /\ UNCHANGED <<process, timer, link, recorder, recordings, recorded, requests, recs>>

\* start_record
StartAnswered(r) ==
    LET m == Head(answers[r]) IN
    /\ Receives(r, "start", {"ok"}) /\ m.loop # None
    /\ \/ /\ m.cb
          /\ recordings' = [recordings EXCEPT ![m.loop] = Record(TRUE, r, TRUE)]
          /\ Received(r)
          /\ UNCHANGED <<process, timer, link, recorder, recorded, requests, recs>>
       \/ ~m.cb /\ Die

\* start_record after an error: the recorder stays blocked.  An answer that
\* has no file name in it is freed twice, which may be the end.
StartRefused(r) ==
    /\ Receives(r, "start", {"error"})
    /\ \/ /\ Received(r)
          /\ UNCHANGED <<process, timer, link, recorder, recordings, recorded, requests, recs>>
       \/ Die

\* Mutant: the recorder stays blocked when its recording has been stopped.
StopAnsweredBlocked(r) ==
    LET m == Head(answers[r]) IN
    /\ Receives(r, "stop", {"ok", "not_recording"})
    /\ \/ /\ m.cb
          /\ recordings' = [recordings EXCEPT ![m.loop] = Fresh]
          /\ Received(r)
          /\ UNCHANGED <<process, timer, link, recorder, recorded, requests, recs>>
       \/ ~m.cb /\ Die

\* stop_record: a recorder that does not record is as good as a stopped one.
StopAnswered(r) ==
    LET m == Head(answers[r]) IN
    /\ Receives(r, "stop", {"ok", "not_recording"})
    /\ \/ /\ m.cb
          /\ recordings' = [recordings EXCEPT ![m.loop] = Fresh]
          /\ recorder' = [recorder EXCEPT ![r] = IF @ = None THEN None ELSE "empty"]
          /\ Received(r)
          /\ UNCHANGED <<process, timer, link, recorded, requests, recs>>
       \/ ~m.cb /\ Die

\* stop_record after another error
StopRefused(r) ==
    LET m == Head(answers[r]) IN
    /\ Receives(r, "stop", {"error"})
    /\ \/ /\ m.cb
          /\ Received(r)
          /\ UNCHANGED <<process, timer, link, recorder, recordings, recorded, requests, recs>>
       \/ ~m.cb /\ Die

\* The timer of the callback registry
Expire(r) ==
    /\ process = "up"
    /\ \/ \E i \in DOMAIN requests[r] :
            /\ requests[r][i].cb
            /\ requests' = [requests EXCEPT ![r][i].cb = FALSE] /\ answers' = answers
       \/ \E i \in DOMAIN answers[r] :
            /\ answers[r][i].cb
            /\ answers' = [answers EXCEPT ![r][i].cb = FALSE] /\ requests' = requests
    /\ UNCHANGED <<process, timer, link, recorder, recordings, recorded, recs>>

Boot ==
    /\ process = "down" /\ process' = "up"
    /\ UNCHANGED <<timer, link, recorder, recordings, recorded, requests, answers, recs>>

-----------------------------------------------------------------------------
(* Recorder processes: external.  A start is obeyed or refused, a stop is   *)
(* obeyed if it has the id of the recording, or fails.                     *)

Reply(r, code) ==
    /\ requests' = [requests EXCEPT ![r] = Tail(@)]
    /\ answers' = [answers EXCEPT ![r] =
                     Append(@, [kind |-> Head(requests[r]).kind, loop |-> Head(requests[r]).loop,
                                cb |-> Head(requests[r]).cb, code |-> code])]
    /\ UNCHANGED <<process, timer, link, recorder, recordings, recorded>>

RecorderActs(r) ==
    LET m == Head(requests[r]) IN
    /\ Open(r) /\ requests[r] # <<>>
    /\ \/ /\ m.kind = "start" /\ Reply(r, "ok")
          /\ recs' = [recs EXCEPT ![r] = @ \cup {m.loop}]
       \/ /\ m.kind = "stop" /\ m.known /\ m.loop \in recs[r] /\ Reply(r, "ok")
          /\ recs' = [recs EXCEPT ![r] = @ \ {m.loop}]
       \/ /\ m.kind = "stop" /\ ~(m.known /\ m.loop \in recs[r]) /\ Reply(r, "not_recording")
          /\ recs' = recs
       \/ Reply(r, "error") /\ recs' = recs

-----------------------------------------------------------------------------
Next ==
    \/ \E r \in Recorders :
        \/ Connect(r) \/ Register(r) \/ Unregister(r) \/ Close(r)
        \/ StartAnsweredUnknown(r) \/ StartAnswered(r) \/ StartRefused(r)
        \/ StopAnswered(r) \/ StopRefused(r) \/ Expire(r) \/ RecorderActs(r)
    \/ \E l \in Loops :
        \/ StartFails(l) \/ StopFails(l)
        \/ \E cb \in BOOLEAN : Start(l, cb) \/ Stop(l, cb)
    \/ StartAll \/ Boot

Spec == Init /\ [][Next]_vars

-----------------------------------------------------------------------------
(* Properties *)

\* A recorder that is offered for a new recording is not recording a loop and
\* has not been asked to: two loops never share a recorder.  What it records
\* under a name read from freed memory is not seen by the server at all.
OfferedIsIdle ==
    \A r \in Recorders : recorder[r] = "empty" =>
        /\ recs[r] \subseteq {None}
        /\ \A i \in DOMAIN requests[r] : requests[r][i].kind # "start"

\* No recorder is lost: a blocked recorder belongs to a record, through which
\* it can be stopped and used again.
BlockedIsNamed ==
    \A r \in Recorders : recorder[r] = "blocked" => \E l \in Loops : RecorderOf(l) = r

\* A loop that is shown as recorded is being recorded, by the recorder its
\* record names, until the answer to a stop is in.
RunningIsRecorded ==
    \A l \in Loops : Running(l) =>
        LET r == RecorderOf(l) IN
        \/ l \in recs[r]
        \/ \E i \in DOMAIN answers[r] : answers[r][i].kind = "stop" /\ answers[r][i].loop = l
=============================================================================
