--------------------------- MODULE RecorderProofs ---------------------------
(***************************************************************************)
(* Proofs about Recorder for any number of recorders and loops and any     *)
(* length of the queues, with lost recorders, expiring requests and a      *)
(* dying server.  They are about a server that is used with care: loops    *)
(* are started once and after the startup timer, stopped when no request   *)
(* about them is open, and recorders register once per connection.         *)
(***************************************************************************)
EXTENDS Recorder, SequenceTheorems, TLAPS

UsedWithCare == ~Retry /\ ~Pipelining /\ ~EarlyStart /\ ~Reregister

-----------------------------------------------------------------------------
(* The inductive invariant.  What holds of one recorder: lk is its         *)
(* connection, x its entry, w the requests and z the answers on their way, *)
(* k what it records, ns the loops whose records name it, rn those shown   *)
(* as running and kn those whose recording's id is known.                  *)

Requests == {m \in [kind : {"start", "stop"}, loop : Loops \cup {None}, cb : BOOLEAN, known : BOOLEAN] :
                m.kind = "stop" => m.loop \in Loops}

Answers == {m \in [kind : {"start", "stop"}, loop : Loops \cup {None}, cb : BOOLEAN,
                   code : {"ok", "error", "not_recording"}] :
                m.kind = "stop" => m.loop \in Loops}

Typed ==
    /\ link \in [Recorders -> {"closed", "open", "registered", "left"}]
    /\ recorder \in [Recorders -> {None, "empty", "blocked"}]
    /\ recordings \in [Loops -> {None} \cup Records]
    /\ recorded \subseteq Loops
    /\ requests \in [Recorders -> Seq(Requests)]
    /\ answers \in [Recorders -> Seq(Answers)]
    /\ recs \in [Recorders -> SUBSET (Loops \cup {None})]

(* Only a registered recorder has an entry, and nothing reaches one that   *)
(* has not registered.                                                     *)
EntryRegistered(lk, x) == x # None <=> lk = "registered"

Untouched(lk, w, z, k, ns) ==
    lk \in {"closed", "open"} => w = <<>> /\ z = <<>> /\ k = {} /\ ns = {}

(* An empty recorder belongs to no record and is asked for nothing.        *)
EmptyUnnamed(x, w, ns) ==
    x = "empty" => ns = {} /\ \A i \in 1..Len(w) : w[i].kind # "start"

BlockedNamed(x, ns) == x = "blocked" => ns # {}

(* One record names it; requests, answers and recordings are about that    *)
(* record's loop, or about the name that was read from freed memory.       *)
NamedOnce(ns) == \A a, b \in ns : a = b

AboutNamed(w, z, k, ns) ==
    /\ \A i \in 1..Len(w) : w[i].loop \in ns \cup {None}
    /\ \A i \in 1..Len(z) : z[i].loop \in ns \cup {None}
    /\ k \subseteq ns \cup {None}

(* At most one message about a loop is on its way.                         *)
OneMessage(w, z) ==
    /\ \A i, j \in 1..Len(w) : w[i].loop # None /\ w[j].loop # None => i = j
    /\ \A i, j \in 1..Len(z) : z[i].loop # None /\ z[j].loop # None => i = j
    /\ \A i \in 1..Len(w), j \in 1..Len(z) : w[i].loop = None \/ z[j].loop = None

(* A start that succeeded is recorded until the stop is obeyed, and the    *)
(* server knows the recording's id or is about to.                         *)
StartTrue(m, l) == m.kind = "start" /\ m.code = "ok" /\ m.loop = l

StartsRecorded(z, k) == \A i \in 1..Len(z), l \in Loops : StartTrue(z[i], l) => l \in k

RecordedKnown(z, k, kn) == \A l \in k : l = None \/ l \in kn \/ \E i \in 1..Len(z) : StartTrue(z[i], l)

(* A stop without the id finds nothing to stop; one that succeeded has     *)
(* stopped it.                                                             *)
StopTrue(m, l) == m.kind = "stop" /\ m.code # "error" /\ m.loop = l

UnknownNotRecorded(w, k) == \A i \in 1..Len(w) : w[i].kind = "stop" /\ ~w[i].known => w[i].loop \notin k

StopsDone(z, k) == \A i \in 1..Len(z), l \in Loops : StopTrue(z[i], l) => l \notin k

(* What is shown as running is recorded or its stop has just been obeyed.  *)
RunningTrue(z, k, rn) == \A l \in rn : l \in k \/ \E i \in 1..Len(z) : StopTrue(z[i], l)

(* No start comes after a stop.                                            *)
StartsBeforeStops(w, z) ==
    /\ \A i, j \in 1..Len(w) : i < j /\ w[i].kind = "stop" => w[j].kind # "start"
    /\ \A i \in 1..Len(z), j \in 1..Len(w) : z[i].kind = "stop" => w[j].kind # "start"

Messaging(w, z, k, ns, kn) ==
    /\ AboutNamed(w, z, k, ns) /\ OneMessage(w, z) /\ StartsRecorded(z, k) /\ RecordedKnown(z, k, kn)
    /\ UnknownNotRecorded(w, k) /\ StopsDone(z, k) /\ StartsBeforeStops(w, z)

RecorderOK(lk, x, w, z, k, ns, rn, kn) ==
    /\ EntryRegistered(lk, x) /\ Untouched(lk, w, z, k, ns) /\ EmptyUnnamed(x, w, ns)
    /\ BlockedNamed(x, ns) /\ NamedOnce(ns) /\ Messaging(w, z, k, ns, kn) /\ RunningTrue(z, k, rn)

Named(rc, r) == {l \in Loops : rc[l] # None /\ rc[l].recorder = r}
RunningAt(rc, r) == {l \in Named(rc, r) : rc[l].running}
KnownAt(rc, r) == {l \in Named(rc, r) : rc[l].known}

AllOK ==
    \A r \in Recorders :
        RecorderOK(link[r], recorder[r], requests[r], answers[r], recs[r],
                   Named(recordings, r), RunningAt(recordings, r), KnownAt(recordings, r))

(* Before the startup timer no loop has a recorder.                        *)
TimerFirst == timer => \A r \in Recorders : Named(recordings, r) = {}

IndInv == Typed /\ AllOK /\ TimerFirst

-----------------------------------------------------------------------------
(* Queues.                                                                 *)

(* A message appended to a queue is its last one.                          *)
LEMMA AppendFacts ==
    ASSUME NEW X, NEW w \in Seq(X), NEW m \in X, NEW v, v = Append(w, m)
    PROVE  /\ v \in Seq(X) /\ Len(w) \in Nat /\ Len(v) = Len(w) + 1 /\ v[Len(v)] = m
           /\ Len(v) \in 1..Len(v)
           /\ \A i \in 1..Len(w) : i \in 1..Len(v) /\ v[i] = w[i]
           /\ \A i \in 1..Len(v) : (i \in 1..Len(w) /\ v[i] = w[i]) \/ (i = Len(v) /\ v[i] = m)
    BY AppendProperties

(* What is left when the first message has been taken out of a queue.      *)
LEMMA TailFacts ==
    ASSUME NEW X, NEW w \in Seq(X), w # <<>>, NEW m, m = Head(w), NEW v, v = Tail(w)
    PROVE  /\ m \in X /\ m = w[1] /\ 1 \in 1..Len(w) /\ v \in Seq(X) /\ Len(w) \in Nat
           /\ Len(v) = Len(w) - 1
           /\ \A i \in 1..Len(v) : i + 1 \in 1..Len(w) /\ v[i] = w[i + 1] /\ i + 1 # 1
           /\ \A i \in 1..Len(w) : i # 1 => i - 1 \in 1..Len(v) /\ v[i - 1] = w[i]
<1>1. m \in X /\ m = w[1] /\ 1 \in 1..Len(w) /\ v \in Seq(X) /\ Len(w) \in Nat /\ Len(v) = Len(w) - 1
    BY HeadTailProperties, EmptySeq, LenProperties
<1>2. \A i \in 1..Len(v) : i + 1 \in 1..Len(w) /\ v[i] = w[i + 1] /\ i + 1 # 1
    BY <1>1, HeadTailProperties
<1>3. \A i \in 1..Len(w) : i # 1 => i - 1 \in 1..Len(v) /\ (i - 1) + 1 = i
    BY <1>1
<1> QED
    BY <1>1, <1>2, <1>3

-----------------------------------------------------------------------------
(* What happens to one recorder.                                           *)

(* A recorder that is not connected.                                       *)
LEMMA CleanRecorder ==
    RecorderOK("closed", None, <<>>, <<>>, {}, {}, {}, {})
    BY NoneAssumption DEF RecorderOK, EntryRegistered, Untouched, EmptyUnnamed, BlockedNamed, NamedOnce,
       Messaging, AboutNamed, OneMessage, StartsRecorded, RecordedKnown, UnknownNotRecorded, StopsDone,
       RunningTrue, StartsBeforeStops

(* It connects, registers, and unregisters.                                *)
LEMMA LinkChanges ==
    ASSUME NEW lk, NEW x, NEW w, NEW z, NEW k, NEW ns, NEW rn, NEW kn,
           RecorderOK(lk, x, w, z, k, ns, rn, kn)
    PROVE  /\ lk = "closed" => RecorderOK("open", x, w, z, k, ns, rn, kn)
           /\ lk = "open" => RecorderOK("registered", "empty", w, z, k, ns, rn, kn)
           /\ lk = "registered" => RecorderOK("left", None, w, z, k, ns, rn, kn)
<1>1. /\ EntryRegistered(lk, x) /\ Untouched(lk, w, z, k, ns)
      /\ NamedOnce(ns) /\ Messaging(w, z, k, ns, kn) /\ RunningTrue(z, k, rn)
    BY DEF RecorderOK
<1>2. ASSUME lk = "closed" PROVE RecorderOK("open", x, w, z, k, ns, rn, kn)
  <2>1. x = None /\ Untouched("open", w, z, k, ns)
    BY <1>1, <1>2 DEF EntryRegistered, Untouched
  <2> QED
    BY <1>1, <2>1, NoneAssumption DEF RecorderOK, EntryRegistered, EmptyUnnamed, BlockedNamed
<1>3. ASSUME lk = "open" PROVE RecorderOK("registered", "empty", w, z, k, ns, rn, kn)
  <2>1. w = <<>> /\ ns = {}
    BY <1>1, <1>3 DEF Untouched
  <2> QED
    BY <1>1, <2>1, NoneAssumption
    DEF RecorderOK, EntryRegistered, EmptyUnnamed, BlockedNamed, Untouched
<1>4. ASSUME lk = "registered" PROVE RecorderOK("left", None, w, z, k, ns, rn, kn)
    BY <1>1, NoneAssumption DEF RecorderOK, EntryRegistered, EmptyUnnamed, BlockedNamed, Untouched
<1> QED
    BY <1>2, <1>3, <1>4

(* An empty recorder is given a loop and asked to record it, perhaps under *)
(* a name that says nothing.                                               *)
LEMMA Given ==
    ASSUME NEW lk, NEW w \in Seq(Requests), NEW z \in Seq(Answers), NEW k, NEW ns, NEW rn, NEW kn,
           RecorderOK(lk, "empty", w, z, k, ns, rn, kn), NEW l \in Loops, NEW m \in Requests,
           m.kind = "start", m.loop \in {l, None}, NEW v, v = Append(w, m)
    PROVE  RecorderOK(lk, "blocked", v, z, k, {l}, {}, {})
<1>1. /\ EntryRegistered(lk, "empty") /\ ns = {} /\ \A i \in 1..Len(w) : w[i].kind # "start"
      /\ AboutNamed(w, z, k, ns) /\ OneMessage(w, z) /\ StartsRecorded(z, k) /\ UnknownNotRecorded(w, k)
    BY DEF RecorderOK, EmptyUnnamed, Messaging
<1>2. /\ Len(w) \in Nat /\ Len(v) = Len(w) + 1
      /\ \A i \in 1..Len(v) : (i \in 1..Len(w) /\ v[i] = w[i]) \/ (i = Len(v) /\ v[i] = m)
    BY AppendFacts
<1>3. /\ \A i \in 1..Len(w) : w[i].loop = None /\ w[i].kind # "stop"
      /\ \A i \in 1..Len(z) : z[i].loop = None /\ z[i].kind # "stop"
  <2>1. \A i \in 1..Len(w) : w[i].loop = None /\ w[i] \in Requests
    BY <1>1, LenProperties, ElementOfSeq DEF AboutNamed
  <2>2. \A i \in 1..Len(z) : z[i].loop = None /\ z[i] \in Answers
    BY <1>1, LenProperties, ElementOfSeq DEF AboutNamed
  <2> QED
    BY <2>1, <2>2, NoneAssumption DEF Requests, Answers
<1>4. k \subseteq {None}
    BY <1>1 DEF AboutNamed
<1>5. lk = "registered"
    BY <1>1, NoneAssumption DEF EntryRegistered
<1>6. EntryRegistered(lk, "blocked") /\ Untouched(lk, v, z, k, {l})
    BY <1>5, NoneAssumption DEF EntryRegistered, Untouched
<1>7. EmptyUnnamed("blocked", v, {l}) /\ BlockedNamed("blocked", {l}) /\ NamedOnce({l})
    BY DEF EmptyUnnamed, BlockedNamed, NamedOnce
<1>8. AboutNamed(v, z, k, {l})
    BY <1>2, <1>3, <1>4 DEF AboutNamed
<1>9. OneMessage(v, z)
    BY <1>2, <1>3 DEF OneMessage
<1>10. StartsRecorded(z, k)
    BY <1>1
<1>11. RecordedKnown(z, k, {})
    BY <1>4 DEF RecordedKnown
<1>12. UnknownNotRecorded(v, k)
    BY <1>1, <1>2 DEF UnknownNotRecorded
<1>13. StopsDone(z, k)
    BY <1>3 DEF StopsDone, StopTrue
<1>14. StartsBeforeStops(v, z)
    BY <1>2, <1>3 DEF StartsBeforeStops
<1>15. RunningTrue(z, k, {})
    BY DEF RunningTrue
<1> QED
    BY <1>6, <1>7, <1>8, <1>9, <1>10, <1>11, <1>12, <1>13, <1>14, <1>15 DEF RecorderOK, Messaging

(* A stop is sent when no message about the loop is on its way; it has the *)
(* id if the server knows it.                                              *)
LEMMA StopSent ==
    ASSUME NEW lk, NEW x, NEW w \in Seq(Requests), NEW z \in Seq(Answers), NEW k, NEW ns, NEW rn, NEW kn,
           RecorderOK(lk, x, w, z, k, ns, rn, kn), NEW l \in ns, l \in Loops, NEW m \in Requests,
           m.kind = "stop", m.loop = l, ~m.known => l \notin kn, NEW v, v = Append(w, m),
           \A i \in 1..Len(w) : w[i].loop # l, \A i \in 1..Len(z) : z[i].loop # l
    PROVE  RecorderOK(lk, x, v, z, k, ns, rn, kn)
<1>1. /\ EntryRegistered(lk, x) /\ Untouched(lk, w, z, k, ns) /\ EmptyUnnamed(x, w, ns)
      /\ BlockedNamed(x, ns) /\ NamedOnce(ns) /\ Messaging(w, z, k, ns, kn) /\ RunningTrue(z, k, rn)
    BY DEF RecorderOK
<1>2. /\ AboutNamed(w, z, k, ns) /\ OneMessage(w, z) /\ StartsRecorded(z, k) /\ RecordedKnown(z, k, kn)
      /\ UnknownNotRecorded(w, k) /\ StopsDone(z, k) /\ StartsBeforeStops(w, z)
    BY <1>1 DEF Messaging
<1>3. /\ Len(w) \in Nat /\ Len(v) = Len(w) + 1
      /\ \A i \in 1..Len(v) : (i \in 1..Len(w) /\ v[i] = w[i]) \/ (i = Len(v) /\ v[i] = m)
    BY AppendFacts
<1>4. /\ \A i \in 1..Len(w) : w[i].loop = None
      /\ \A i \in 1..Len(z) : z[i].loop = None
    BY <1>1, <1>2 DEF AboutNamed, NamedOnce
<1>5. Untouched(lk, v, z, k, ns) /\ EmptyUnnamed(x, v, ns)
    BY <1>1 DEF Untouched, EmptyUnnamed
<1>6. AboutNamed(v, z, k, ns)
    BY <1>2, <1>3 DEF AboutNamed
<1>7. OneMessage(v, z)
    BY <1>3, <1>4 DEF OneMessage
<1>8. UnknownNotRecorded(v, k)
  <2>1. l \in k => l \in kn
    BY <1>2, <1>4, NoneAssumption DEF RecordedKnown, StartTrue
  <2>2. ~m.known => l \notin k
    BY <2>1
  <2> QED
    BY <1>2, <1>3, <2>2 DEF UnknownNotRecorded
<1>9. StartsBeforeStops(v, z)
    BY <1>2, <1>3 DEF StartsBeforeStops
<1> QED
    BY <1>1, <1>2, <1>5, <1>6, <1>7, <1>8, <1>9 DEF RecorderOK, Messaging

(* Fewer loops are shown as running.                                       *)
LEMMA NotShown ==
    ASSUME NEW lk, NEW x, NEW w, NEW z, NEW k, NEW ns, NEW rn, NEW qn, NEW kn,
           RecorderOK(lk, x, w, z, k, ns, rn, kn), qn \subseteq rn
    PROVE  RecorderOK(lk, x, w, z, k, ns, qn, kn)
    BY DEF RecorderOK, RunningTrue

(* An answer that says nothing new is taken out of the queue.              *)
LEMMA AnswerDropped ==
    ASSUME NEW lk, NEW x, NEW w, NEW z \in Seq(Answers), NEW k, NEW ns, NEW rn, NEW kn,
           RecorderOK(lk, x, w, z, k, ns, rn, kn), z # <<>>, NEW m, m = Head(z), NEW v, v = Tail(z),
           m.code = "error" \/ m.loop = None
    PROVE  RecorderOK(lk, x, w, v, k, ns, rn, kn)
<1>1. /\ EntryRegistered(lk, x) /\ Untouched(lk, w, z, k, ns) /\ EmptyUnnamed(x, w, ns)
      /\ BlockedNamed(x, ns) /\ NamedOnce(ns) /\ Messaging(w, z, k, ns, kn) /\ RunningTrue(z, k, rn)
    BY DEF RecorderOK
<1>2. /\ AboutNamed(w, z, k, ns) /\ OneMessage(w, z) /\ StartsRecorded(z, k) /\ RecordedKnown(z, k, kn)
      /\ UnknownNotRecorded(w, k) /\ StopsDone(z, k) /\ StartsBeforeStops(w, z)
    BY <1>1 DEF Messaging
<1>3. /\ m = z[1] /\ 1 \in 1..Len(z) /\ m \in Answers
      /\ \A i \in 1..Len(v) : i + 1 \in 1..Len(z) /\ v[i] = z[i + 1] /\ i + 1 # 1
      /\ \A i \in 1..Len(z) : i # 1 => i - 1 \in 1..Len(v) /\ v[i - 1] = z[i]
    BY TailFacts
<1>4. \A l \in Loops : ~StartTrue(m, l) /\ ~StopTrue(m, l)
    BY NoneAssumption DEF StartTrue, StopTrue
<1>5. \A l \in Loops \cup {None} : ~StopTrue(m, l)
    BY <1>3, <1>4, NoneAssumption DEF StopTrue, Answers
<1>6. Untouched(lk, w, v, k, ns)
    BY <1>1 DEF Untouched
<1>7. AboutNamed(w, v, k, ns)
    BY <1>2, <1>3 DEF AboutNamed
<1>8. OneMessage(w, v)
  <2>1. \A i, j \in 1..Len(v) : v[i].loop # None /\ v[j].loop # None => i + 1 = j + 1
    BY <1>2, <1>3 DEF OneMessage
  <2>2. \A i, j \in 1..Len(v) : i + 1 = j + 1 => i = j
    OBVIOUS
  <2> QED
    BY <1>2, <1>3, <2>1, <2>2 DEF OneMessage
<1>9. StartsRecorded(v, k) /\ StopsDone(v, k)
    BY <1>2, <1>3 DEF StartsRecorded, StopsDone
<1>10. RecordedKnown(v, k, kn)
  <2> SUFFICES ASSUME NEW l \in k, l # None, l \notin kn PROVE \E i \in 1..Len(v) : StartTrue(v[i], l)
    BY DEF RecordedKnown
  <2>1. PICK i \in 1..Len(z) : StartTrue(z[i], l)
    BY <1>2 DEF RecordedKnown
  <2>2. i # 1
    BY <1>3, <2>1 DEF StartTrue
  <2> QED
    BY <1>3, <2>1, <2>2
<1>11. StartsBeforeStops(w, v)
    BY <1>2, <1>3 DEF StartsBeforeStops
<1>12. RunningTrue(v, k, rn)
  <2> SUFFICES ASSUME NEW l \in rn, l \notin k PROVE \E i \in 1..Len(v) : StopTrue(v[i], l)
    BY DEF RunningTrue
  <2>1. PICK i \in 1..Len(z) : StopTrue(z[i], l)
    BY <1>1 DEF RunningTrue
  <2>2. i # 1
    BY <1>3, <2>1, NoneAssumption DEF StopTrue, Answers
  <2> QED
    BY <1>3, <2>1, <2>2
<1> QED
    BY <1>1, <1>2, <1>6, <1>7, <1>8, <1>9, <1>10, <1>11, <1>12 DEF RecorderOK, Messaging

(* The answer to a start is in: the loop is shown as running, its id known.*)
LEMMA StartTaken ==
    ASSUME NEW lk, NEW x, NEW w, NEW z \in Seq(Answers), NEW k, NEW ns, NEW rn, NEW kn,
           RecorderOK(lk, x, w, z, k, ns, rn, kn), z # <<>>, NEW m, m = Head(z), NEW v, v = Tail(z),
           NEW l \in Loops, StartTrue(m, l)
    PROVE  ns = {l} /\ RecorderOK(lk, x, w, v, k, {l}, {l}, {l})
<1>1. /\ EntryRegistered(lk, x) /\ Untouched(lk, w, z, k, ns) /\ EmptyUnnamed(x, w, ns)
      /\ BlockedNamed(x, ns) /\ NamedOnce(ns) /\ Messaging(w, z, k, ns, kn) /\ RunningTrue(z, k, rn)
    BY DEF RecorderOK
<1>2. /\ AboutNamed(w, z, k, ns) /\ OneMessage(w, z) /\ StartsRecorded(z, k) /\ RecordedKnown(z, k, kn)
      /\ UnknownNotRecorded(w, k) /\ StopsDone(z, k) /\ StartsBeforeStops(w, z)
    BY <1>1 DEF Messaging
<1>3. /\ m = z[1] /\ 1 \in 1..Len(z)
      /\ \A i \in 1..Len(v) : i + 1 \in 1..Len(z) /\ v[i] = z[i + 1] /\ i + 1 # 1
    BY TailFacts
<1>4. ns = {l}
  <2>1. l \in ns
    BY <1>2, <1>3, NoneAssumption DEF AboutNamed, StartTrue
  <2> QED
    BY <1>1, <2>1 DEF NamedOnce
<1>5. l \in k
    BY <1>2, <1>3 DEF StartsRecorded
<1>6. /\ \A i \in 1..Len(v) : v[i].loop = None
      /\ \A i \in 1..Len(w) : w[i].loop = None
    BY <1>2, <1>3, NoneAssumption DEF OneMessage, StartTrue
<1>7. Untouched(lk, w, v, k, ns)
    BY <1>1, <1>4 DEF Untouched
<1>8. AboutNamed(w, v, k, ns)
    BY <1>2, <1>3 DEF AboutNamed
<1>9. OneMessage(w, v)
    BY <1>6 DEF OneMessage
<1>10. StartsRecorded(v, k) /\ StopsDone(v, k)
    BY <1>2, <1>3 DEF StartsRecorded, StopsDone
<1>11. RecordedKnown(v, k, {l})
    BY <1>2, <1>4 DEF RecordedKnown, AboutNamed
<1>12. StartsBeforeStops(w, v)
    BY <1>2, <1>3 DEF StartsBeforeStops
<1>13. RunningTrue(v, k, {l})
    BY <1>5 DEF RunningTrue
<1> QED
    BY <1>1, <1>2, <1>4, <1>7, <1>8, <1>9, <1>10, <1>11, <1>12, <1>13 DEF RecorderOK, Messaging

(* A recorder that is still registered may be used again.                  *)
Released(x, y) == (x = None => y = None) /\ (x # None => y = "empty")

(* The answer m has been taken out of the queue z.                         *)
TakenOut(w, z, m, v) ==
    w \in Seq(Requests) /\ z \in Seq(Answers) /\ z # <<>> /\ m = Head(z) /\ v = Tail(z)

(* The answer to a stop is in: the recorder is empty again if it is still  *)
(* registered, and nothing of the recording is left.                       *)
LEMMA StopTaken ==
    ASSUME NEW lk, NEW x, NEW w, NEW z, NEW k, NEW ns, NEW rn, NEW kn, NEW m, NEW v, NEW l \in Loops,
           RecorderOK(lk, x, w, z, k, ns, rn, kn), TakenOut(w, z, m, v), StopTrue(m, l),
           NEW y, Released(x, y)
    PROVE  ns = {l} /\ RecorderOK(lk, y, w, v, k, {}, {}, {})
<1>0. w \in Seq(Requests) /\ z \in Seq(Answers) /\ z # <<>> /\ m = Head(z) /\ v = Tail(z)
    BY DEF TakenOut
<1>1. /\ EntryRegistered(lk, x) /\ Untouched(lk, w, z, k, ns)
      /\ NamedOnce(ns) /\ Messaging(w, z, k, ns, kn)
    BY DEF RecorderOK
<1>2. /\ AboutNamed(w, z, k, ns) /\ OneMessage(w, z) /\ StartsRecorded(z, k) /\ RecordedKnown(z, k, kn)
      /\ UnknownNotRecorded(w, k) /\ StopsDone(z, k) /\ StartsBeforeStops(w, z)
    BY <1>1 DEF Messaging
<1>3. /\ m = z[1] /\ 1 \in 1..Len(z)
      /\ \A i \in 1..Len(v) : i + 1 \in 1..Len(z) /\ v[i] = z[i + 1] /\ i + 1 # 1
    BY <1>0, TailFacts
<1>4. ns = {l}
  <2>1. l \in ns
    BY <1>2, <1>3, NoneAssumption DEF AboutNamed, StopTrue
  <2> QED
    BY <1>1, <2>1 DEF NamedOnce
<1>5. k \subseteq {None}
    BY <1>2, <1>3, <1>4 DEF StopsDone, AboutNamed
<1>6. /\ \A i \in 1..Len(v) : v[i].loop = None
      /\ \A i \in 1..Len(w) : w[i].loop = None
  <2>1. z[1].loop # None
    BY <1>3, NoneAssumption DEF StopTrue
  <2> QED
    BY <1>2, <1>3, <2>1 DEF OneMessage
<1>7. \A i \in 1..Len(w) : w[i].kind # "start"
    BY <1>2, <1>3 DEF StartsBeforeStops, StopTrue
<1>8. EntryRegistered(lk, y)
    BY <1>1, NoneAssumption DEF EntryRegistered, Released
<1>9. Untouched(lk, w, v, k, {})
    BY <1>1, <1>4 DEF Untouched
<1>10. EmptyUnnamed(y, w, {}) /\ BlockedNamed(y, {}) /\ NamedOnce({})
    BY <1>7, NoneAssumption DEF EmptyUnnamed, BlockedNamed, NamedOnce, Released
<1>11. AboutNamed(w, v, k, {}) /\ OneMessage(w, v)
    BY <1>5, <1>6 DEF AboutNamed, OneMessage
<1>12. StartsRecorded(v, k) /\ StopsDone(v, k)
    BY <1>2, <1>3 DEF StartsRecorded, StopsDone
<1>13. RecordedKnown(v, k, {})
    BY <1>5 DEF RecordedKnown
<1>14. StartsBeforeStops(w, v)
    BY <1>2, <1>3 DEF StartsBeforeStops
<1>15. RunningTrue(v, k, {})
    BY DEF RunningTrue
<1> QED
    BY <1>2, <1>4, <1>8, <1>9, <1>10, <1>11, <1>12, <1>13, <1>14, <1>15 DEF RecorderOK, Messaging

(* What the recorder does with a request m and answers with a.             *)
Obeys(m, a, k, h) ==
    /\ a.kind = m.kind /\ a.loop = m.loop
    /\ \/ m.kind = "start" /\ a.code = "ok" /\ h = k \cup {m.loop}
       \/ m.kind = "stop" /\ m.known /\ m.loop \in k /\ a.code = "ok" /\ h = k \ {m.loop}
       \/ m.kind = "stop" /\ ~(m.known /\ m.loop \in k) /\ a.code = "not_recording" /\ h = k
       \/ a.code = "error" /\ h = k

(* The recorder obeys or refuses the request at the head of its queue.     *)
LEMMA Obeyed ==
    ASSUME NEW lk, NEW x, NEW w \in Seq(Requests), NEW z \in Seq(Answers), NEW k, NEW ns, NEW rn, NEW kn,
           RecorderOK(lk, x, w, z, k, ns, rn, kn), w # <<>>, NEW m, m = Head(w), NEW v, v = Tail(w),
           NEW a \in Answers, NEW y, y = Append(z, a), NEW h, Obeys(m, a, k, h)
    PROVE  RecorderOK(lk, x, v, y, h, ns, rn, kn)
<1>1. /\ EntryRegistered(lk, x) /\ Untouched(lk, w, z, k, ns) /\ EmptyUnnamed(x, w, ns)
      /\ BlockedNamed(x, ns) /\ NamedOnce(ns) /\ Messaging(w, z, k, ns, kn) /\ RunningTrue(z, k, rn)
    BY DEF RecorderOK
<1>2. /\ AboutNamed(w, z, k, ns) /\ OneMessage(w, z) /\ StartsRecorded(z, k) /\ RecordedKnown(z, k, kn)
      /\ UnknownNotRecorded(w, k) /\ StopsDone(z, k) /\ StartsBeforeStops(w, z)
    BY <1>1 DEF Messaging
<1>3. /\ m = w[1] /\ 1 \in 1..Len(w) /\ m \in Requests
      /\ \A i \in 1..Len(v) : i + 1 \in 1..Len(w) /\ v[i] = w[i + 1] /\ i + 1 # 1 /\ i + 1 > 1
    BY TailFacts
<1>4. /\ Len(y) \in 1..Len(y) /\ y[Len(y)] = a
      /\ \A i \in 1..Len(z) : i \in 1..Len(y) /\ y[i] = z[i]
      /\ \A i \in 1..Len(y) : (i \in 1..Len(z) /\ y[i] = z[i]) \/ (i = Len(y) /\ y[i] = a)
    BY AppendFacts
<1>5. /\ m.loop \in Loops \cup {None} /\ (m.kind = "stop" => m.loop \in Loops)
      /\ a.kind = m.kind /\ a.loop = m.loop
    BY <1>3 DEF Requests, Obeys
<1>6. \A l \in k : l \in h \/ (l = m.loop /\ m.kind = "stop" /\ a.code = "ok")
    BY DEF Obeys
<1>7. \A l \in h : l \in k \/ (l = m.loop /\ m.kind = "start" /\ a.code = "ok")
    BY DEF Obeys
<1>8. /\ \A i \in 1..Len(v) : m.loop # None => v[i].loop = None
      /\ \A i \in 1..Len(z) : m.loop # None => z[i].loop = None
    BY <1>2, <1>3 DEF OneMessage
<1>9. Untouched(lk, v, y, h, ns)
    BY <1>1, <1>3, EmptySeq DEF Untouched
<1>10. EmptyUnnamed(x, v, ns)
    BY <1>1, <1>3 DEF EmptyUnnamed
<1>11. AboutNamed(v, y, h, ns)
  <2>1. m.loop \in ns \cup {None}
    BY <1>2, <1>3 DEF AboutNamed
  <2>2. h \subseteq ns \cup {None}
    BY <1>2, <1>7, <2>1 DEF AboutNamed
  <2> QED
    BY <1>2, <1>3, <1>4, <1>5, <2>1, <2>2 DEF AboutNamed
<1>12. OneMessage(v, y)
  <2>1. \A i, j \in 1..Len(v) : v[i].loop # None /\ v[j].loop # None => i + 1 = j + 1
    BY <1>2, <1>3 DEF OneMessage
  <2>2. \A i, j \in 1..Len(v) : i + 1 = j + 1 => i = j
    OBVIOUS
  <2>3. \A i, j \in 1..Len(y) : y[i].loop # None /\ y[j].loop # None => i = j
    BY <1>2, <1>4, <1>5, <1>8 DEF OneMessage
  <2>4. \A i \in 1..Len(v), j \in 1..Len(y) : v[i].loop = None \/ y[j].loop = None
    BY <1>2, <1>3, <1>4, <1>5, <1>8 DEF OneMessage
  <2> QED
    BY <2>1, <2>2, <2>3, <2>4 DEF OneMessage
<1>13. StartsRecorded(y, h)
  <2> SUFFICES ASSUME NEW i \in 1..Len(y), NEW l \in Loops, StartTrue(y[i], l) PROVE l \in h
    BY DEF StartsRecorded
  <2>1. CASE i \in 1..Len(z) /\ y[i] = z[i]
    <3>1. l \in k
        BY <1>2, <2>1 DEF StartsRecorded
    <3>2. m.loop # l
        BY <1>8, <2>1, NoneAssumption DEF StartTrue
    <3> QED
        BY <1>6, <3>1, <3>2
  <2>2. CASE y[i] = a
    BY <1>5, <2>2 DEF StartTrue, Obeys
  <2> QED
    BY <1>4, <2>1, <2>2
<1>14. RecordedKnown(y, h, kn)
  <2> SUFFICES ASSUME NEW l \in h, l # None, l \notin kn PROVE \E i \in 1..Len(y) : StartTrue(y[i], l)
    BY DEF RecordedKnown
  <2>1. CASE l \in k
    <3>1. PICK i \in 1..Len(z) : StartTrue(z[i], l)
        BY <1>2, <2>1 DEF RecordedKnown
    <3> QED
        BY <1>4, <3>1
  <2>2. CASE l = m.loop /\ m.kind = "start" /\ a.code = "ok"
    <3>1. StartTrue(a, l)
        BY <1>5, <2>2 DEF StartTrue
    <3> QED
        BY <1>4, <3>1
  <2> QED
    BY <1>7, <2>1, <2>2
<1>15. UnknownNotRecorded(v, h)
  <2> SUFFICES ASSUME NEW i \in 1..Len(v), v[i].kind = "stop", ~v[i].known PROVE v[i].loop \notin h
    BY DEF UnknownNotRecorded
  <2>1. v[i].loop \notin k
    BY <1>2, <1>3 DEF UnknownNotRecorded
  <2>2. v[i].loop \in Loops
    <3>1. v[i] \in Requests
        BY <1>3, ElementOfSeq
    <3> QED
        BY <3>1 DEF Requests
  <2>3. v[i].loop # m.loop
    BY <1>8, <2>2, NoneAssumption
  <2> QED
    BY <1>7, <2>1, <2>3
<1>16. StopsDone(y, h)
  <2> SUFFICES ASSUME NEW i \in 1..Len(y), NEW l \in Loops, StopTrue(y[i], l) PROVE l \notin h
    BY DEF StopsDone
  <2>1. CASE i \in 1..Len(z) /\ y[i] = z[i]
    <3>1. l \notin k
        BY <1>2, <2>1 DEF StopsDone
    <3>2. m.loop # l
        BY <1>8, <2>1, NoneAssumption DEF StopTrue
    <3> QED
        BY <1>7, <3>1, <3>2
  <2>2. CASE y[i] = a
    <3>1. m.kind = "stop" /\ m.loop = l /\ a.code # "error"
        BY <1>5, <2>2 DEF StopTrue
    <3>2. ~m.known => l \notin k
        BY <1>2, <1>3, <3>1 DEF UnknownNotRecorded
    <3>3. CASE m.known /\ l \in k
        BY <3>1, <3>3 DEF Obeys
    <3>4. CASE l \notin k
        BY <1>7, <3>1, <3>4
    <3> QED
        BY <3>2, <3>3, <3>4
  <2> QED
    BY <1>4, <2>1, <2>2
<1>17. StartsBeforeStops(v, y)
  <2>1. \A i, j \in 1..Len(v) : i < j => i + 1 < j + 1
    OBVIOUS
  <2>2. \A i, j \in 1..Len(v) : i < j /\ v[i].kind = "stop" => v[j].kind # "start"
    BY <1>2, <1>3, <2>1 DEF StartsBeforeStops
  <2>3. \A i \in 1..Len(y), j \in 1..Len(v) : y[i].kind = "stop" => v[j].kind # "start"
    BY <1>2, <1>3, <1>4, <1>5 DEF StartsBeforeStops
  <2> QED
    BY <2>2, <2>3 DEF StartsBeforeStops
<1>18. RunningTrue(y, h, rn)
  <2> SUFFICES ASSUME NEW l \in rn, l \notin h PROVE \E i \in 1..Len(y) : StopTrue(y[i], l)
    BY DEF RunningTrue
  <2>1. CASE l \notin k
    <3>1. PICK i \in 1..Len(z) : StopTrue(z[i], l)
        BY <1>1, <2>1 DEF RunningTrue
    <3> QED
        BY <1>4, <3>1
  <2>2. CASE l \in k
    <3>1. StopTrue(a, l)
        BY <1>5, <1>6, <2>2 DEF StopTrue
    <3> QED
        BY <1>4, <3>1
  <2> QED
    BY <2>1, <2>2
<1> QED
    BY <1>1, <1>9, <1>10, <1>11, <1>12, <1>13, <1>14, <1>15, <1>16, <1>17, <1>18 DEF RecorderOK, Messaging

(* Two queues that differ only in the callbacks still registered.          *)
Alike(w, v) ==
    /\ Len(v) = Len(w) /\ (w = <<>> => v = <<>>)
    /\ \A i \in 1..Len(w) : v[i].kind = w[i].kind /\ v[i].loop = w[i].loop

AlikeRequests(w, v) == Alike(w, v) /\ \A i \in 1..Len(w) : v[i].known = w[i].known
AlikeAnswers(z, y) == Alike(z, y) /\ \A i \in 1..Len(z) : y[i].code = z[i].code

(* Callbacks expire.                                                       *)
LEMMA CallbacksExpired ==
    ASSUME NEW lk, NEW x, NEW w, NEW z, NEW k, NEW ns, NEW rn, NEW kn, NEW v, NEW y,
           RecorderOK(lk, x, w, z, k, ns, rn, kn), AlikeRequests(w, v), AlikeAnswers(z, y)
    PROVE  RecorderOK(lk, x, v, y, k, ns, rn, kn)
<1>0. /\ Alike(w, v) /\ \A i \in 1..Len(w) : v[i].known = w[i].known
      /\ Alike(z, y) /\ \A i \in 1..Len(z) : y[i].code = z[i].code
    BY DEF AlikeRequests, AlikeAnswers
<1>1. /\ EntryRegistered(lk, x) /\ Untouched(lk, w, z, k, ns) /\ EmptyUnnamed(x, w, ns)
      /\ BlockedNamed(x, ns) /\ NamedOnce(ns) /\ Messaging(w, z, k, ns, kn) /\ RunningTrue(z, k, rn)
    BY DEF RecorderOK
<1>2. /\ AboutNamed(w, z, k, ns) /\ OneMessage(w, z) /\ StartsRecorded(z, k) /\ RecordedKnown(z, k, kn)
      /\ UnknownNotRecorded(w, k) /\ StopsDone(z, k) /\ StartsBeforeStops(w, z)
    BY <1>1 DEF Messaging
<1>3. Untouched(lk, v, y, k, ns) /\ EmptyUnnamed(x, v, ns)
    BY <1>0, <1>1 DEF Untouched, EmptyUnnamed, Alike
<1>4. AboutNamed(v, y, k, ns)
    BY <1>0, <1>2 DEF AboutNamed, Alike
<1>5. OneMessage(v, y)
    BY <1>0, <1>2 DEF OneMessage, Alike
<1>6. StartsRecorded(y, k) /\ StopsDone(y, k)
  <2>1. \A i \in 1..Len(y) : i \in 1..Len(z) /\ y[i].kind = z[i].kind /\ y[i].loop = z[i].loop
                                             /\ y[i].code = z[i].code
    BY <1>0 DEF Alike
  <2>2. \A i \in 1..Len(y), l \in Loops : (StartTrue(y[i], l) => StartTrue(z[i], l))
                                         /\ (StopTrue(y[i], l) => StopTrue(z[i], l))
    BY <2>1 DEF StartTrue, StopTrue
  <2> QED
    BY <1>2, <2>1, <2>2 DEF StartsRecorded, StopsDone
<1>7. RecordedKnown(y, k, kn)
    BY <1>0, <1>2 DEF RecordedKnown, StartTrue, Alike
<1>8. UnknownNotRecorded(v, k)
    BY <1>0, <1>2 DEF UnknownNotRecorded, Alike
<1>9. StartsBeforeStops(v, y)
  <2>1. \A i \in 1..Len(y) : i \in 1..Len(z) /\ y[i].kind = z[i].kind
    BY <1>0 DEF Alike
  <2>2. \A i \in 1..Len(v) : i \in 1..Len(w) /\ v[i].kind = w[i].kind
    BY <1>0 DEF Alike
  <2> QED
    BY <1>2, <2>1, <2>2 DEF StartsBeforeStops
<1>10. RunningTrue(y, k, rn)
    BY <1>0, <1>1 DEF RunningTrue, StopTrue, Alike
<1> QED
    BY <1>1, <1>3, <1>4, <1>5, <1>6, <1>7, <1>8, <1>9, <1>10 DEF RecorderOK, Messaging

-----------------------------------------------------------------------------
(* Records.                                                                *)

(* The records rd are rc with e for l.                                     *)
Replaced(rc, rd, l, e) == rd[l] = e /\ \A m \in Loops \ {l} : rd[m] = rc[m]

(* Another record for l does not concern a recorder that neither names.    *)
LEMMA RecordElsewhere ==
    ASSUME NEW rc, NEW l \in Loops, NEW e \in Records,
           NEW rd, Replaced(rc, rd, l, e), NEW q, l \notin Named(rc, q), e.recorder # q
    PROVE  /\ Named(rd, q) = Named(rc, q) /\ RunningAt(rd, q) = RunningAt(rc, q)
           /\ KnownAt(rd, q) = KnownAt(rc, q)
<1>1. rd[l] = e /\ \A m \in Loops \ {l} : rd[m] = rc[m]
    BY DEF Replaced
<1>2. Named(rd, q) = Named(rc, q)
    BY <1>1 DEF Named
<1>3. \A m \in Named(rc, q) : rd[m] = rc[m]
    BY <1>1 DEF Named
<1> QED
    BY <1>2, <1>3 DEF RunningAt, KnownAt

(* The recorder the only record named is not named any more.               *)
LEMMA RecordDropped ==
    ASSUME NEW rc, NEW l \in Loops, NEW e \in Records,
           NEW rd, Replaced(rc, rd, l, e), NEW q, Named(rc, q) = {l}, e.recorder # q
    PROVE  Named(rd, q) = {} /\ RunningAt(rd, q) = {} /\ KnownAt(rd, q) = {}
<1>1. rd[l] = e /\ \A m \in Loops \ {l} : rd[m] = rc[m]
    BY DEF Replaced
<1>2. Named(rd, q) = {}
    BY <1>1 DEF Named
<1> QED
    BY <1>2 DEF RunningAt, KnownAt

(* The record e is that of a recording at q.                               *)
ShownAt(e, q) == e.recorder = q /\ e.running /\ e.known

(* The record of l is shown as running with the recorder it named.         *)
LEMMA RecordShown ==
    ASSUME NEW rc, NEW l \in Loops, NEW q, NEW e \in Records, ShownAt(e, q),
           NEW rd, Replaced(rc, rd, l, e), Named(rc, q) = {l}
    PROVE  Named(rd, q) = {l} /\ RunningAt(rd, q) = {l} /\ KnownAt(rd, q) = {l}
<1>1. e # None
    BY NoneAssumption
<1>2. rd[l] = e /\ \A m \in Loops \ {l} : rd[m] = rc[m]
    BY DEF Replaced
<1>3. Named(rd, q) = {l}
    BY <1>1, <1>2 DEF Named, ShownAt
<1>4. rd[l].running /\ rd[l].known
    BY <1>2 DEF ShownAt
<1>5. RunningAt(rd, q) = {l}
    BY <1>3, <1>4 DEF RunningAt
<1>6. KnownAt(rd, q) = {l}
    BY <1>3, <1>4 DEF KnownAt
<1> QED
    BY <1>2, <1>3, <1>5, <1>6

(* The request to record the loop called a.                                *)
StartOf(a, cb) == Message("start", a, cb, FALSE)

(* What the recorder q has once it was given to l.                         *)
GivenTo(given, name, cb, l, q) ==
    /\ recorder[q] = "empty" /\ RecordersBlocked(given)[q] = "blocked"
    /\ Named(RecordsNamed(given), q) = {l}
    /\ RunningAt(RecordsNamed(given), q) = {} /\ KnownAt(RecordsNamed(given), q) = {}
    /\ StartsSent(given, name, cb)[q] = Append(requests[q], StartOf(name[l], cb))

Unnamed(q) == Named(recordings, q) = {}

(* A recorder is given to one loop only.                                   *)
LEMMA GivenEffect ==
    ASSUME Typed, NEW ls \in SUBSET Loops, NEW given \in Assignments(ls), NEW name, NEW cb,
           NEW l \in ls, NEW q, q = given[l], Unnamed(q)
    PROVE  GivenTo(given, name, cb, l, q)
<1> DEFINE rd == RecordsNamed(given)
<1>1. /\ q \in Recorders /\ recorder[q] = "empty" /\ DOMAIN given = ls
      /\ \A a \in ls : given[a] = q => a = l
    BY DEF Assignments, Empty, IsInjective
<1>2. RecordersBlocked(given)[q] = "blocked"
    BY <1>1 DEF RecordersBlocked
<1>3. rd[l] = Record(FALSE, q, FALSE) /\ Record(FALSE, q, FALSE) # None
  <2>1. Record(FALSE, q, FALSE) \in Records
    BY <1>1 DEF Record, Records
  <2> QED
    BY <1>1, <2>1, NoneAssumption DEF RecordsNamed
<1>4. \A a \in Loops \ {l} : ~(rd[a] # None /\ rd[a].recorder = q)
  <2> TAKE a \in Loops \ {l}
  <2>1. CASE a \in ls
    BY <1>1, <2>1 DEF RecordsNamed, Record
  <2>2. CASE a \notin ls
    BY <1>1, <2>2 DEF RecordsNamed, Named, Unnamed
  <2> QED
    BY <2>1, <2>2
<1> HIDE DEF rd
<1>5. Named(rd, q) = {l}
    BY <1>3, <1>4 DEF Named, Record
<1>6. RunningAt(rd, q) = {} /\ KnownAt(rd, q) = {}
    BY <1>3, <1>5 DEF RunningAt, KnownAt, Record
<1>7. StartsSent(given, name, cb)[q] = Append(requests[q], StartOf(name[l], cb))
  <2>1. {a \in DOMAIN given : given[a] = q} = {l}
    BY <1>1
  <2>2. (CHOOSE a \in {l} : TRUE) = l
    OBVIOUS
  <2> QED
    BY <1>1, <2>1, <2>2 DEF StartsSent, StartOf
<1> QED
    BY <1>1, <1>2, <1>5, <1>6, <1>7 DEF rd, GivenTo

(* What the other recorders have.                                          *)
LEMMA OthersGiven ==
    ASSUME Typed, NEW ls \in SUBSET Loops, NEW given \in Assignments(ls), NEW name, NEW cb,
           NEW q \in Recorders, \A l \in ls : given[l] # q
    PROVE  /\ RecordersBlocked(given)[q] = recorder[q]
           /\ StartsSent(given, name, cb)[q] = requests[q]
           /\ Named(RecordsNamed(given), q) = Named(recordings, q) \ ls
           /\ RunningAt(RecordsNamed(given), q) = RunningAt(recordings, q) \ ls
           /\ KnownAt(RecordsNamed(given), q) = KnownAt(recordings, q) \ ls
<1> DEFINE rd == RecordsNamed(given)
<1>1. DOMAIN given = ls
    BY DEF Assignments
<1>2. RecordersBlocked(given)[q] = recorder[q]
    BY <1>1 DEF RecordersBlocked
<1>3. StartsSent(given, name, cb)[q] = requests[q]
  <2>1. {a \in DOMAIN given : given[a] = q} = {}
    BY <1>1
  <2> QED
    BY <2>1 DEF StartsSent
<1>4. \A a \in ls : rd[a].recorder # q
    BY <1>1 DEF RecordsNamed, Record
<1>5. \A a \in Loops \ ls : rd[a] = recordings[a]
    BY <1>1 DEF RecordsNamed
<1> HIDE DEF rd
<1>6. Named(rd, q) = Named(recordings, q) \ ls
    BY <1>4, <1>5 DEF Named
<1>7. RunningAt(rd, q) = RunningAt(recordings, q) \ ls /\ KnownAt(rd, q) = KnownAt(recordings, q) \ ls
  <2>1. \A a \in Named(recordings, q) \ ls : rd[a] = recordings[a]
    BY <1>5 DEF Named
  <2> QED
    BY <1>6, <2>1 DEF RunningAt, KnownAt
<1> QED
    BY <1>2, <1>3, <1>6, <1>7 DEF rd

(* Types of what giving recorders to loops leaves.                         *)
LEMMA GivenTypes ==
    ASSUME Typed, NEW ls \in SUBSET Loops, NEW given \in Assignments(ls), NEW cb, cb \in BOOLEAN,
           NEW name, \A l \in ls : name[l] \in Loops \cup {None}
    PROVE  /\ RecordersBlocked(given) \in [Recorders -> {None, "empty", "blocked"}]
           /\ RecordsNamed(given) \in [Loops -> {None} \cup Records]
           /\ StartsSent(given, name, cb) \in [Recorders -> Seq(Requests)]
<1>1. DOMAIN given = ls /\ \A l \in ls : given[l] \in Recorders
    BY DEF Assignments, Empty
<1>2. RecordersBlocked(given) \in [Recorders -> {None, "empty", "blocked"}]
    BY DEF RecordersBlocked, Typed
<1>3. \A l \in ls : Record(FALSE, given[l], FALSE) \in Records
    BY <1>1 DEF Record, Records
<1>4. RecordsNamed(given) \in [Loops -> {None} \cup Records]
    BY <1>1, <1>3 DEF RecordsNamed, Typed
<1>5. \A l \in ls : Message("start", name[l], cb, FALSE) \in Requests
    BY DEF Message, Requests
<1>6. ASSUME NEW r \in Recorders PROVE StartsSent(given, name, cb)[r] \in Seq(Requests)
  <2> DEFINE ms == {l \in DOMAIN given : given[l] = r}
  <2>1. requests[r] \in Seq(Requests)
    BY DEF Typed
  <2>2. CASE ms = {}
    BY <2>1, <2>2 DEF StartsSent
  <2>3. CASE ms # {}
    <3> DEFINE a == CHOOSE l \in ms : TRUE
    <3>1. a \in ms
        BY <2>3, Zenon
    <3>2. a \in ls
        BY <1>1, <3>1
    <3>3. StartsSent(given, name, cb)[r] = Append(requests[r], Message("start", name[a], cb, FALSE))
        BY <2>3 DEF StartsSent
    <3> DEFINE m == Message("start", name[a], cb, FALSE)
    <3>4. m \in Requests
        BY <1>5, <3>2
    <3> HIDE DEF a, m
    <3>5. Append(requests[r], m) \in Seq(Requests)
        BY <2>1, <3>4, AppendProperties
    <3> QED
        BY <3>3, <3>5 DEF m
  <2> QED
    BY <2>2, <2>3
<1>7. StartsSent(given, name, cb) = [r \in Recorders |-> StartsSent(given, name, cb)[r]]
    BY DEF StartsSent
<1>8. StartsSent(given, name, cb) \in [Recorders -> Seq(Requests)]
    BY <1>6, <1>7
<1> QED
    BY <1>2, <1>4, <1>8

-----------------------------------------------------------------------------
(* The steps of the system.                                                *)

OKNow(q) ==
    RecorderOK(link[q], recorder[q], requests[q], answers[q], recs[q],
               Named(recordings, q), RunningAt(recordings, q), KnownAt(recordings, q))

OKNext(q) ==
    RecorderOK(link'[q], recorder'[q], requests'[q], answers'[q], recs'[q],
               Named(recordings', q), RunningAt(recordings', q), KnownAt(recordings', q))

(* The records that concern q are as they were.                            *)
NamesKept(q) ==
    /\ Named(recordings', q) = Named(recordings, q)
    /\ RunningAt(recordings', q) = RunningAt(recordings, q)
    /\ KnownAt(recordings', q) = KnownAt(recordings, q)

Kept(q) ==
    /\ link'[q] = link[q] /\ recorder'[q] = recorder[q] /\ requests'[q] = requests[q]
    /\ answers'[q] = answers[q] /\ recs'[q] = recs[q] /\ NamesKept(q)

(* A recorder nothing happens to.                                          *)
LEMMA KeptOK ==
    ASSUME IndInv, NEW q \in Recorders, Kept(q)
    PROVE  OKNext(q)
    BY DEF IndInv, AllOK, Kept, NamesKept, OKNext

(* All recorders in order, types and timer make the invariant.             *)
LEMMA Combine ==
    ASSUME Typed', \A q \in Recorders : OKNext(q),
           timer' => \A q \in Recorders : Named(recordings', q) = {}
    PROVE  IndInv'
    BY DEF IndInv, AllOK, TimerFirst, OKNext

(* What the invariant says of one recorder.                                *)
LEMMA OneOf ==
    ASSUME IndInv, NEW r \in Recorders
    PROVE  /\ OKNow(r) /\ Named(recordings, r) \subseteq Loops
           /\ timer => Named(recordings, r) = {}
           /\ link[r] \in {"closed", "open", "registered", "left"}
           /\ recorder[r] \in {None, "empty", "blocked"}
           /\ requests[r] \in Seq(Requests) /\ answers[r] \in Seq(Answers)
           /\ recs[r] \in SUBSET (Loops \cup {None})
    BY DEF IndInv, AllOK, TimerFirst, Typed, OKNow, Named

(* A recorder's name in a record, both ways.                               *)
LEMMA NameIsNamed ==
    ASSUME NEW l \in Loops, NEW r \in Recorders
    PROVE  RecorderOf(l) = r <=> l \in Named(recordings, r)
    BY NoneAssumption DEF RecorderOf, Named

(* A record of a loop names one recorder.                                  *)
LEMMA NamedAtOne ==
    ASSUME NEW rc, NEW l, NEW r, NEW q, l \in Named(rc, r), q # r
    PROVE  l \notin Named(rc, q)
    BY DEF Named

(* Connections.                                                            *)
LEMMA LinkStep ==
    ASSUME IndInv, UsedWithCare, NEW r \in Recorders, Connect(r) \/ Register(r) \/ Unregister(r)
    PROVE  IndInv'
<1>1. /\ timer' = timer /\ recordings' = recordings /\ recorded' = recorded /\ requests' = requests
      /\ answers' = answers /\ recs' = recs
    BY DEF Connect, Register, Unregister
<1>2. link \in [Recorders -> {"closed", "open", "registered", "left"}]
      /\ recorder \in [Recorders -> {None, "empty", "blocked"}]
    BY DEF IndInv, Typed
<1>3. \/ /\ link[r] = "closed" /\ link' = [link EXCEPT ![r] = "open"] /\ recorder' = recorder
      \/ /\ link[r] = "open" /\ link' = [link EXCEPT ![r] = "registered"]
         /\ recorder' = [recorder EXCEPT ![r] = "empty"]
      \/ /\ link[r] = "registered" /\ link' = [link EXCEPT ![r] = "left"]
         /\ recorder' = [recorder EXCEPT ![r] = None]
    BY DEF Connect, Register, Unregister, UsedWithCare
<1>4. Typed'
  <2>1. link' \in [Recorders -> {"closed", "open", "registered", "left"}]
        /\ recorder' \in [Recorders -> {None, "empty", "blocked"}]
    BY <1>2, <1>3
  <2> QED
    BY <1>1, <2>1 DEF IndInv, Typed
<1>5. ASSUME NEW q \in Recorders, q # r PROVE OKNext(q)
  <2>1. link'[q] = link[q] /\ recorder'[q] = recorder[q]
    BY <1>2, <1>3, <1>5
  <2>2. Kept(q)
    BY <1>1, <2>1 DEF Kept, NamesKept
  <2> QED
    BY <2>2, KeptOK
<1>6. OKNext(r)
  <2>1. \/ link[r] = "closed" /\ link'[r] = "open" /\ recorder'[r] = recorder[r]
        \/ link[r] = "open" /\ link'[r] = "registered" /\ recorder'[r] = "empty"
        \/ link[r] = "registered" /\ link'[r] = "left" /\ recorder'[r] = None
    BY <1>2, <1>3
  <2>2. OKNow(r)
    BY OneOf
  <2> QED
    BY <1>1, <2>1, <2>2, LinkChanges DEF OKNow, OKNext
<1>7. timer' => \A q \in Recorders : Named(recordings', q) = {}
    BY <1>1 DEF IndInv, TimerFirst
<1> QED
    BY <1>4, <1>5, <1>6, <1>7, Combine

(* Loops get recorders of their own.                                       *)
LEMMA GiveStep ==
    ASSUME IndInv, NEW ls \in SUBSET Loops, NEW given \in Assignments(ls), NEW cb, cb \in BOOLEAN,
           \A l \in ls : RecorderOf(l) = None, Give(given, cb), recorded' \subseteq Loops, ~timer',
           UNCHANGED <<link, answers, recs>>
    PROVE  IndInv'
<1> DEFINE name == [l \in Loops |-> l]
<1>1. /\ recorder' = RecordersBlocked(given) /\ recordings' = RecordsNamed(given)
      /\ requests' = StartsSent(given, name, cb)
    BY DEF Give
<1>2. Typed /\ \A l \in ls : name[l] = l /\ name[l] \in Loops \cup {None}
    BY DEF IndInv
<1> HIDE DEF name
<1>3. Typed'
  <2>1. /\ recorder' \in [Recorders -> {None, "empty", "blocked"}]
        /\ recordings' \in [Loops -> {None} \cup Records]
        /\ requests' \in [Recorders -> Seq(Requests)]
    BY <1>1, <1>2, GivenTypes
  <2> QED
    BY <1>2, <2>1 DEF Typed
<1>4. ASSUME NEW q \in Recorders PROVE OKNext(q)
  <2>1. CASE \A l \in ls : given[l] # q
    <3>1. /\ recorder'[q] = recorder[q] /\ requests'[q] = requests[q]
          /\ Named(recordings', q) = Named(recordings, q) \ ls
          /\ RunningAt(recordings', q) = RunningAt(recordings, q) \ ls
          /\ KnownAt(recordings', q) = KnownAt(recordings, q) \ ls
        BY <1>1, <1>2, <2>1, OthersGiven
    <3>2. \A l \in ls : l \notin Named(recordings, q)
        BY NameIsNamed, NoneAssumption
    <3>3. RunningAt(recordings, q) \subseteq Named(recordings, q) /\ KnownAt(recordings, q) \subseteq Named(recordings, q)
        BY DEF RunningAt, KnownAt
    <3>4. NamesKept(q)
        BY <3>1, <3>2, <3>3 DEF NamesKept
    <3>5. Kept(q)
        BY <3>1, <3>4 DEF Kept
    <3> QED
        BY <3>5, KeptOK
  <2>2. ASSUME NEW l \in ls, given[l] = q PROVE OKNext(q)
    <3>1. recorder[q] = "empty"
        BY <2>2 DEF Assignments, Empty
    <3>2. OKNow(q) /\ requests[q] \in Seq(Requests) /\ answers[q] \in Seq(Answers)
        BY OneOf
    <3>3. Named(recordings, q) = {}
        BY <3>1, <3>2 DEF OKNow, RecorderOK, EmptyUnnamed
    <3> DEFINE m == StartOf(name[l], cb)
    <3>4. /\ recorder'[q] = "blocked" /\ Named(recordings', q) = {l}
          /\ RunningAt(recordings', q) = {} /\ KnownAt(recordings', q) = {}
          /\ requests'[q] = Append(requests[q], m)
      <4>1. q = given[l] /\ Unnamed(q)
        BY <2>2, <3>3 DEF Unnamed
      <4>2. GivenTo(given, name, cb, l, q)
        BY <1>2, <4>1, GivenEffect
      <4> QED
        BY <1>1, <4>2 DEF GivenTo
    <3>5. m \in Requests /\ m.kind = "start" /\ m.loop \in {l, None} /\ l \in Loops
        BY <1>2 DEF StartOf, Message, Requests
    <3> HIDE DEF m
    <3>6. RecorderOK(link[q], "empty", requests[q], answers[q], recs[q],
               Named(recordings, q), RunningAt(recordings, q), KnownAt(recordings, q))
        BY <3>1, <3>2 DEF OKNow
    <3>7. RecorderOK(link[q], "blocked", requests'[q], answers[q], recs[q], {l}, {}, {})
        BY <3>2, <3>4, <3>5, <3>6, Given
    <3> QED
        BY <3>4, <3>7 DEF OKNext
  <2> QED
    BY <2>1, <2>2
<1> QED
    BY <1>3, <1>4, Combine

(* A loop is started, all loops of the database are started.               *)
LEMMA StartStep ==
    ASSUME IndInv, UsedWithCare, StartAll \/ \E l \in Loops, cb \in BOOLEAN : Start(l, cb)
    PROVE  IndInv'
<1>1. ASSUME NEW l \in Loops, NEW cb \in BOOLEAN, Start(l, cb) PROVE IndInv'
  <2>1. PICK given \in Assignments({l}) : Give(given, cb)
    BY <1>1 DEF Start
  <2>2. ~timer' /\ RecorderOf(l) = None /\ recorded' \subseteq Loops /\ UNCHANGED <<link, answers, recs>>
    BY <1>1 DEF Start, UsedWithCare, IndInv, Typed
  <2>3. {l} \in SUBSET Loops /\ \A a \in {l} : RecorderOf(a) = None
    BY <2>2
  <2> QED
    BY <2>1, <2>2, <2>3, GiveStep
<1>2. ASSUME StartAll PROVE IndInv'
  <2>1. PICK ls \in SUBSET recorded : \E given \in Assignments(ls) : Give(given, FALSE)
    BY <1>2 DEF StartAll
  <2>2. PICK given \in Assignments(ls) : Give(given, FALSE)
    BY <2>1
  <2>3. ~timer' /\ timer /\ recorded \subseteq Loops /\ recorded' = recorded /\ UNCHANGED <<link, answers, recs>>
    BY <1>2 DEF StartAll, IndInv, Typed
  <2>4. ls \in SUBSET Loops
    BY <2>3
  <2>5. \A l \in ls : RecorderOf(l) = None
    <3> TAKE l \in ls
    <3>1. l \in Loops /\ recordings[l] \in {None} \cup Records
        BY <2>4 DEF IndInv, Typed
    <3>2. RecorderOf(l) \in Recorders \cup {None}
        BY <3>1 DEF RecorderOf, Records
    <3>3. \A r \in Recorders : RecorderOf(l) # r
        BY <2>3, <3>1, NameIsNamed DEF IndInv, TimerFirst
    <3> QED
        BY <3>2, <3>3
  <2>6. FALSE \in BOOLEAN /\ recorded' \subseteq Loops
    BY <2>3
  <2> QED
    BY <2>2, <2>3, <2>4, <2>5, <2>6, GiveStep
<1> QED
    BY <1>1, <1>2

(* A start without a recorder, a stop without a registered recorder.       *)
LEMMA FailStep ==
    ASSUME IndInv, NEW l \in Loops, StartFails(l) \/ StopFails(l)
    PROVE  IndInv'
<1>1. /\ timer' = timer /\ recorder' = recorder /\ recorded' = recorded /\ requests' = requests
      /\ answers' = answers /\ recs' = recs /\ link' = link
    BY DEF StartFails, StopFails
<1>2. recordings \in [Loops -> {None} \cup Records]
    BY DEF IndInv, Typed
<1>3. ASSUME NEW q \in Recorders
      PROVE  /\ recordings' \in [Loops -> {None} \cup Records]
             /\ Named(recordings', q) = Named(recordings, q) /\ KnownAt(recordings', q) = KnownAt(recordings, q)
             /\ RunningAt(recordings', q) \subseteq RunningAt(recordings, q)
  <2>1. CASE StartFails(l)
    <3>1. recordings[l] = None /\ recordings' = [recordings EXCEPT ![l] = Fresh]
        BY <2>1 DEF StartFails
    <3>2. Fresh \in Records /\ Fresh.recorder # q
        BY NoneAssumption DEF Fresh, Record, Records
    <3>3. l \notin Named(recordings, q)
        BY <3>1 DEF Named
    <3> QED
      <4>1. recordings' \in [Loops -> {None} \cup Records]
        BY <1>2, <3>1, <3>2
      <4> DEFINE e == Fresh
      <4> HIDE DEF e
      <4>2. e \in Records /\ e.recorder # q /\ Replaced(recordings, recordings', l, e)
        BY <1>2, <3>1, <3>2 DEF e, Replaced
      <4>3. /\ Named(recordings', q) = Named(recordings, q) /\ RunningAt(recordings', q) = RunningAt(recordings, q)
            /\ KnownAt(recordings', q) = KnownAt(recordings, q)
        BY <3>3, <4>2, RecordElsewhere
      <4> QED
        BY <4>1, <4>3
  <2>2. CASE StopFails(l)
    <3> DEFINE e == [recordings[l] EXCEPT !.running = FALSE]
    <3>1. recordings[l] \in Records /\ recordings' = [recordings EXCEPT ![l] = e]
        BY <1>2, <2>2 DEF StopFails
    <3>2. e \in Records /\ e.recorder = recordings[l].recorder /\ e.known = recordings[l].known /\ ~e.running
        BY <3>1 DEF Records
    <3> HIDE DEF e
    <3>3. recordings' \in [Loops -> {None} \cup Records] /\ e # None /\ recordings[l] # None
        BY <1>2, <3>1, <3>2, NoneAssumption
    <3>4. recordings'[l] = e /\ \A m \in Loops \ {l} : recordings'[m] = recordings[m]
        BY <1>2, <3>1
    <3>5. Named(recordings', q) = Named(recordings, q)
        BY <3>2, <3>3, <3>4 DEF Named
    <3>6. \A m \in Loops : /\ recordings'[m].known <=> recordings[m].known
                           /\ m = l \/ recordings'[m] = recordings[m]
        BY <3>2, <3>4
    <3> QED
      <4>1. KnownAt(recordings', q) = KnownAt(recordings, q)
        BY <3>5, <3>6 DEF KnownAt, Named
      <4>2. RunningAt(recordings', q) \subseteq RunningAt(recordings, q)
        BY <3>2, <3>4, <3>5, <3>6 DEF RunningAt, Named
      <4> QED
        BY <3>3, <3>5, <4>1, <4>2
  <2> QED
    BY <2>1, <2>2
<1>4. recordings' \in [Loops -> {None} \cup Records]
  <2>1. CASE StartFails(l)
    <3>1. recordings' = [recordings EXCEPT ![l] = Fresh] /\ Fresh \in Records
        BY <2>1 DEF StartFails, Fresh, Record, Records
    <3> QED
        BY <1>2, <3>1
  <2>2. CASE StopFails(l)
    <3> DEFINE e == [recordings[l] EXCEPT !.running = FALSE]
    <3>1. recordings[l] \in Records /\ recordings' = [recordings EXCEPT ![l] = e]
        BY <1>2, <2>2 DEF StopFails
    <3>2. e \in Records
        BY <3>1 DEF Records
    <3> HIDE DEF e
    <3> QED
        BY <1>2, <3>1, <3>2
  <2> QED
    BY <2>1, <2>2
<1>5. Typed'
    BY <1>1, <1>4 DEF IndInv, Typed
<1>6. ASSUME NEW q \in Recorders PROVE OKNext(q)
  <2>1. OKNow(q)
    BY OneOf
  <2> QED
    BY <1>1, <1>3, <2>1, NotShown DEF OKNow, OKNext
<1>7. timer' => \A q \in Recorders : Named(recordings', q) = {}
    BY <1>1, <1>3 DEF IndInv, TimerFirst
<1> QED
    BY <1>5, <1>6, <1>7, Combine

(* A message about l is seen in the joined queues of its recorder.         *)
LEMMA QuietQueues ==
    ASSUME Typed, NEW l, Quiet(l), NEW r \in Recorders
    PROVE  /\ \A i \in 1..Len(requests[r]) : requests[r][i].loop # l
           /\ \A i \in 1..Len(answers[r]) : answers[r][i].loop # l
<1> DEFINE w == requests[r]
           z == answers[r]
           X == Requests \cup Answers
<1>1. w \in Seq(X) /\ z \in Seq(X)
  <2>1. w \in Seq(Requests) /\ z \in Seq(Answers)
    BY DEF Typed
  <2> QED
    BY <2>1, SeqMonotonic
<1>2. \A i \in 1..Len(w \o z) : (w \o z)[i].loop # l
    BY DEF Quiet
<1> HIDE DEF w, z, X
<1>3. /\ Len(w \o z) = Len(w) + Len(z) /\ Len(w) \in Nat /\ Len(z) \in Nat
      /\ \A i \in 1..Len(w) + Len(z) : (w \o z)[i] = IF i <= Len(w) THEN w[i] ELSE z[i - Len(w)]
    BY <1>1, ConcatProperties, LenProperties
<1>4. \A i \in 1..Len(w) : i \in 1..Len(w) + Len(z) /\ i <= Len(w)
    BY <1>3
<1>5. \A i \in 1..Len(z) : i + Len(w) \in 1..Len(w) + Len(z) /\ ~(i + Len(w) <= Len(w)) /\ (i + Len(w)) - Len(w) = i
    BY <1>3
<1>6. \A i \in 1..Len(w) : w[i].loop # l
    BY <1>2, <1>3, <1>4
<1>7. \A i \in 1..Len(z) : z[i].loop # l
  <2> TAKE i \in 1..Len(z)
  <2>1. (w \o z)[i + Len(w)] = z[i]
    BY <1>3, <1>5
  <2> QED
    BY <1>2, <1>3, <1>5, <2>1
<1> QED
    BY <1>6, <1>7 DEF w, z

(* A stop is sent to the recorder of the loop's record.                    *)
LEMMA StopStep ==
    ASSUME IndInv, UsedWithCare, NEW l \in Loops, NEW cb \in BOOLEAN, Stop(l, cb)
    PROVE  IndInv'
<1> DEFINE r == RecorderOf(l)
           m == Message("stop", l, cb, recordings[l].known)
<1>1. /\ timer' = timer /\ recorder' = recorder /\ recorded' \subseteq recorded /\ recordings' = recordings
      /\ answers' = answers /\ recs' = recs /\ link' = link
      /\ requests' = [requests EXCEPT ![r] = Append(@, m)] /\ r # None /\ Quiet(l)
    BY DEF Stop, UsedWithCare, Registered
<1>2. recordings[l] \in Records /\ r \in Recorders
  <2>1. recordings[l] \in {None} \cup Records
    BY DEF IndInv, Typed
  <2> QED
    BY <1>1, <2>1 DEF RecorderOf, Records
<1>3. m \in Requests /\ m.kind = "stop" /\ m.loop = l /\ (m.known <=> recordings[l].known)
    BY <1>2 DEF Message, Requests, Records
<1>4. l \in Named(recordings, r)
    BY <1>2, NameIsNamed
<1> HIDE DEF m, r
<1>5. requests \in [Recorders -> Seq(Requests)]
    BY DEF IndInv, Typed
<1>6. requests' \in [Recorders -> Seq(Requests)] /\ requests'[r] = Append(requests[r], m)
      /\ \A q \in Recorders : q # r => requests'[q] = requests[q]
  <2>1. Append(requests[r], m) \in Seq(Requests)
    BY <1>2, <1>3, <1>5, AppendProperties
  <2> QED
    BY <1>1, <1>2, <1>5, <2>1
<1>7. Typed'
    BY <1>1, <1>6 DEF IndInv, Typed
<1>8. ASSUME NEW q \in Recorders, q # r PROVE OKNext(q)
  <2>1. Kept(q)
    BY <1>1, <1>6, <1>8 DEF Kept, NamesKept
  <2> QED
    BY <2>1, KeptOK
<1>9. OKNext(r)
  <2>1. OKNow(r) /\ requests[r] \in Seq(Requests) /\ answers[r] \in Seq(Answers)
    BY <1>2, OneOf
  <2>2. ~m.known => l \notin KnownAt(recordings, r)
    BY <1>3 DEF KnownAt
  <2>3. /\ \A i \in 1..Len(requests[r]) : requests[r][i].loop # l
        /\ \A i \in 1..Len(answers[r]) : answers[r][i].loop # l
    BY <1>1, <1>2, QuietQueues DEF IndInv
  <2>4. RecorderOK(link[r], recorder[r], requests'[r], answers[r], recs[r],
               Named(recordings, r), RunningAt(recordings, r), KnownAt(recordings, r))
    BY <1>3, <1>4, <1>6, <2>1, <2>2, <2>3, StopSent, ZenonT(60) DEF OKNow
  <2> QED
    BY <1>1, <2>4 DEF OKNext
<1>10. timer' => \A q \in Recorders : Named(recordings', q) = {}
    BY <1>1 DEF IndInv, TimerFirst
<1> QED
    BY <1>7, <1>8, <1>9, <1>10, Combine

(* A recorder that is gone or was never there.                             *)
LEMMA CleanOK ==
    ASSUME NEW q, link'[q] = "closed", recorder'[q] = None, requests'[q] = <<>>, answers'[q] = <<>>,
           recs'[q] = {}, Named(recordings', q) = {}
    PROVE  OKNext(q)
<1>1. RunningAt(recordings', q) = {} /\ KnownAt(recordings', q) = {}
    BY DEF RunningAt, KnownAt
<1> QED
    BY <1>1, CleanRecorder DEF OKNext

(* The process dies.                                                       *)
LEMMA DieStep ==
    ASSUME Die
    PROVE  IndInv'
<1>1. \A q \in Recorders : /\ link'[q] = "closed" /\ recorder'[q] = None /\ requests'[q] = <<>>
                            /\ answers'[q] = <<>> /\ recs'[q] = {}
    BY DEF Die, Each
<1>2. \A q \in Recorders : Named(recordings', q) = {}
    BY DEF Die, NoRecordings, Named
<1>3. Typed'
  <2>1. <<>> \in Seq(Requests) /\ <<>> \in Seq(Answers)
    OBVIOUS
  <2>2. /\ link' = [q \in Recorders |-> "closed"] /\ recorder' = [q \in Recorders |-> None]
        /\ requests' = [q \in Recorders |-> <<>>] /\ answers' = [q \in Recorders |-> <<>>]
        /\ recs' = [q \in Recorders |-> {}] /\ recordings' = [l \in Loops |-> None]
        /\ recorded' \subseteq Loops
    BY DEF Die, Each, NoRecordings
  <2> QED
    BY <2>1, <2>2 DEF Typed
<1>4. \A q \in Recorders : OKNext(q)
    BY <1>1, <1>2, CleanOK
<1> QED
    BY <1>2, <1>3, <1>4, Combine

(* What goes down with a connection.                                       *)
LEMMA Disconnected ==
    ASSUME IndInv, NEW r \in Recorders, Disconnect(r)
    PROVE  /\ link' \in [Recorders -> {"closed", "open", "registered", "left"}]
           /\ answers' \in [Recorders -> Seq(Answers)] /\ recorded' \subseteq Loops /\ timer' = timer
           /\ recs' \in [Recorders -> SUBSET (Loops \cup {None})]
           /\ link'[r] = "closed" /\ answers'[r] = <<>> /\ recs'[r] = {}
           /\ \A q \in Recorders \ {r} : link'[q] = link[q] /\ answers'[q] = answers[q] /\ recs'[q] = recs[q]
<1>1. <<>> \in Seq(Answers)
    OBVIOUS
<1> QED
    BY <1>1 DEF IndInv, Typed, Disconnect

(* The only record that names a recorder.                                  *)
LEMMA OnlyNamed ==
    ASSUME IndInv, NEW r \in Recorders, NEW l \in Named(recordings, r)
    PROVE  Named(recordings, r) = {l} /\ ~timer /\ recorder[r] # "empty"
    BY DEF IndInv, AllOK, RecorderOK, NamedOnce, TimerFirst, EmptyUnnamed

(* A recorder without a loop is lost, or there is no other for its loop.   *)
LEMMA CloseStep ==
    ASSUME IndInv, NEW r \in Recorders, CloseUnused(r) \/ \E l \in Loops : CloseFails(r, l)
    PROVE  IndInv'
<1>1. /\ recorder' = [recorder EXCEPT ![r] = None] /\ requests' = [requests EXCEPT ![r] = <<>>]
      /\ Disconnect(r)
    BY DEF CloseUnused, CloseFails
<1>2. recorder' \in [Recorders -> {None, "empty", "blocked"}] /\ requests' \in [Recorders -> Seq(Requests)]
  <2>1. <<>> \in Seq(Requests)
    OBVIOUS
  <2> QED
    BY <1>1, <2>1 DEF IndInv, Typed
<1>3. /\ recorder'[r] = None /\ requests'[r] = <<>>
      /\ \A q \in Recorders \ {r} : recorder'[q] = recorder[q] /\ requests'[q] = requests[q]
    BY <1>1 DEF IndInv, Typed
<1>4. recordings \in [Loops -> {None} \cup Records]
    BY DEF IndInv, Typed
<1>5. /\ recordings' \in [Loops -> {None} \cup Records] /\ Named(recordings', r) = {}
      /\ \A q \in Recorders \ {r} : NamesKept(q)
  <2>1. CASE CloseUnused(r)
    <3>1. recordings' = recordings /\ \A l \in Loops : RecorderOf(l) # r
        BY <2>1 DEF CloseUnused
    <3>2. Named(recordings, r) = {}
        BY <3>1, NameIsNamed DEF Named
    <3> QED
        BY <1>4, <3>1, <3>2 DEF NamesKept
  <2>2. ASSUME NEW l \in Loops, CloseFails(r, l)
        PROVE  /\ recordings' \in [Loops -> {None} \cup Records] /\ Named(recordings', r) = {}
               /\ \A q \in Recorders \ {r} : NamesKept(q)
    <3> DEFINE e == Fresh
    <3>1. recordings' = [recordings EXCEPT ![l] = e] /\ RecorderOf(l) = r
        BY <2>2 DEF CloseFails
    <3>2. e \in Records /\ \A q \in Recorders : e.recorder # q
        BY NoneAssumption DEF Fresh, Record, Records
    <3> HIDE DEF e
    <3>3. recordings' \in [Loops -> {None} \cup Records] /\ Replaced(recordings, recordings', l, e)
        BY <1>4, <3>1, <3>2 DEF Replaced
    <3>4. l \in Named(recordings, r) /\ Named(recordings, r) = {l}
        BY <3>1, NameIsNamed, OnlyNamed
    <3>5. Named(recordings', r) = {}
        BY <3>2, <3>3, <3>4, RecordDropped
    <3>6. ASSUME NEW q \in Recorders \ {r} PROVE NamesKept(q)
      <4>1. l \notin Named(recordings, q)
        BY <3>4, NamedAtOne
      <4> QED
        BY <3>2, <3>3, <4>1, RecordElsewhere DEF NamesKept
    <3> QED
        BY <3>3, <3>5, <3>6
  <2> QED
    BY <2>1, <2>2
<1>6. Typed'
    BY <1>1, <1>2, <1>5, Disconnected DEF Typed
<1>7. OKNext(r)
    BY <1>1, <1>3, <1>5, Disconnected, CleanOK
<1>8. ASSUME NEW q \in Recorders, q # r PROVE OKNext(q)
  <2>1. Kept(q)
    BY <1>1, <1>3, <1>5, <1>8, Disconnected DEF Kept
  <2> QED
    BY <2>1, KeptOK
<1>9. timer' => \A q \in Recorders : Named(recordings', q) = {}
    BY <1>1, <1>5, Disconnected DEF IndInv, TimerFirst, NamesKept
<1> QED
    BY <1>6, <1>7, <1>8, <1>9, Combine

(* A recorder is lost and its loop gets another one.                       *)
LEMMA MoveStep ==
    ASSUME IndInv, NEW r \in Recorders, NEW l \in Loops, CloseMoves(r, l)
    PROVE  IndInv'
<1>1. RecorderOf(l) = r /\ Disconnect(r)
    BY DEF CloseMoves
<1>2. PICK given \in Assignments({l}), name \in [{l} -> {l, None}] :
        /\ recorder' = [RecordersBlocked(given) EXCEPT ![r] = None]
        /\ recordings' = RecordsNamed(given)
        /\ requests' = [StartsSent(given, name, FALSE) EXCEPT ![r] = <<>>]
    BY DEF CloseMoves
<1> DEFINE cb == FALSE
<1>3. cb \in BOOLEAN
    OBVIOUS
<1>4. requests' = [StartsSent(given, name, cb) EXCEPT ![r] = <<>>]
    BY <1>2
<1> HIDE DEF cb
<1>5. Typed /\ {l} \in SUBSET Loops /\ \A a \in {l} : name[a] \in Loops \cup {None}
    BY DEF IndInv
<1>6. /\ RecordersBlocked(given) \in [Recorders -> {None, "empty", "blocked"}]
      /\ RecordsNamed(given) \in [Loops -> {None} \cup Records]
      /\ StartsSent(given, name, cb) \in [Recorders -> Seq(Requests)]
    BY <1>3, <1>5, GivenTypes
<1>7. Typed'
  <2>1. <<>> \in Seq(Requests)
    OBVIOUS
  <2>2. recorder' \in [Recorders -> {None, "empty", "blocked"}] /\ requests' \in [Recorders -> Seq(Requests)]
    BY <1>2, <1>4, <1>6, <2>1
  <2> QED
    BY <1>1, <1>2, <1>6, <2>2, Disconnected DEF Typed
<1>8. /\ recorder'[r] = None /\ requests'[r] = <<>>
      /\ \A q \in Recorders \ {r} : /\ recorder'[q] = RecordersBlocked(given)[q]
                                     /\ requests'[q] = StartsSent(given, name, cb)[q]
    BY <1>2, <1>4, <1>6
<1>9. l \in Named(recordings, r) /\ Named(recordings, r) = {l} /\ ~timer /\ recorder[r] # "empty"
    BY <1>1, NameIsNamed, OnlyNamed
<1>10. given[l] \in Recorders /\ recorder[given[l]] = "empty" /\ given[l] # r
    BY <1>9 DEF Assignments, Empty
<1>11. OKNext(r)
  <2>1. \A a \in {l} : given[a] # r
    BY <1>10
  <2>2. Named(RecordsNamed(given), r) = Named(recordings, r) \ {l}
    BY <1>5, <2>1, OthersGiven
  <2>3. Named(recordings', r) = {}
    BY <1>2, <1>9, <2>2
  <2> QED
    BY <1>1, <1>8, <2>3, Disconnected, CleanOK
<1>12. ASSUME NEW q \in Recorders, q # r, q # given[l] PROVE OKNext(q)
  <2>1. \A a \in {l} : given[a] # q
    BY <1>12
  <2>2. /\ RecordersBlocked(given)[q] = recorder[q] /\ StartsSent(given, name, cb)[q] = requests[q]
        /\ Named(RecordsNamed(given), q) = Named(recordings, q) \ {l}
        /\ RunningAt(RecordsNamed(given), q) = RunningAt(recordings, q) \ {l}
        /\ KnownAt(RecordsNamed(given), q) = KnownAt(recordings, q) \ {l}
    BY <1>5, <2>1, OthersGiven
  <2>3. l \notin Named(recordings, q) /\ l \notin RunningAt(recordings, q) /\ l \notin KnownAt(recordings, q)
    BY <1>9, <1>12, NamedAtOne DEF RunningAt, KnownAt
  <2>4. Kept(q)
    <3>1. NamesKept(q)
        BY <1>2, <2>2, <2>3 DEF NamesKept
    <3>2. link'[q] = link[q] /\ answers'[q] = answers[q] /\ recs'[q] = recs[q]
        BY <1>1, <1>12, Disconnected
    <3>3. recorder'[q] = recorder[q] /\ requests'[q] = requests[q]
        BY <1>8, <1>12, <2>2
    <3> QED
        BY <3>1, <3>2, <3>3 DEF Kept
  <2> QED
    BY <2>4, KeptOK
<1>13. ASSUME NEW q \in Recorders, q = given[l] PROVE OKNext(q)
  <2>1. recorder[q] = "empty" /\ q # r
    BY <1>10, <1>13
  <2>2. OKNow(q) /\ requests[q] \in Seq(Requests) /\ answers[q] \in Seq(Answers)
    BY OneOf
  <2>3. Unnamed(q)
    BY <2>1, <2>2 DEF OKNow, RecorderOK, EmptyUnnamed, Unnamed
  <2> DEFINE m == StartOf(name[l], cb)
  <2>4. l \in {l} /\ GivenTo(given, name, cb, l, q)
    BY <1>5, <1>13, <2>3, GivenEffect
  <2>5. /\ recorder'[q] = "blocked" /\ Named(recordings', q) = {l}
        /\ RunningAt(recordings', q) = {} /\ KnownAt(recordings', q) = {}
        /\ requests'[q] = Append(requests[q], m)
    BY <1>2, <1>8, <2>1, <2>4 DEF GivenTo
  <2>6. m \in Requests /\ m.kind = "start" /\ m.loop \in {l, None}
    BY <1>3, <1>5 DEF StartOf, Message, Requests
  <2> HIDE DEF m
  <2>7. RecorderOK(link[q], "empty", requests[q], answers[q], recs[q],
               Named(recordings, q), RunningAt(recordings, q), KnownAt(recordings, q))
    BY <2>1, <2>2 DEF OKNow
  <2>8. RecorderOK(link[q], "blocked", requests'[q], answers[q], recs[q], {l}, {}, {})
    BY <2>2, <2>5, <2>6, <2>7, Given
  <2>9. link'[q] = link[q] /\ answers'[q] = answers[q] /\ recs'[q] = recs[q]
    BY <1>1, <2>1, Disconnected
  <2> QED
    BY <2>5, <2>8, <2>9 DEF OKNext
<1>14. ~timer'
    BY <1>1, <1>9, Disconnected
<1> QED
    BY <1>7, <1>11, <1>12, <1>13, <1>14, Combine

(* What a handler finds and leaves when it takes an answer.                *)
LEMMA Takes ==
    ASSUME IndInv, NEW r \in Recorders, answers[r] # <<>>, Received(r)
    PROVE  /\ Head(answers[r]) \in Answers /\ answers' \in [Recorders -> Seq(Answers)]
           /\ answers'[r] = Tail(answers[r])
           /\ \A q \in Recorders \ {r} : answers'[q] = answers[q]
<1>1. answers \in [Recorders -> Seq(Answers)] /\ answers[r] \in Seq(Answers)
    BY DEF IndInv, Typed
<1>2. Head(answers[r]) \in Answers /\ Tail(answers[r]) \in Seq(Answers)
    BY <1>1, HeadTailProperties
<1> QED
    BY <1>1, <1>2 DEF Received

(* Answers that change nothing: to a start under no name, a refused start, *)
(* a refused stop.                                                         *)
LEMMA DropStep ==
    ASSUME IndInv, NEW r \in Recorders, StartAnsweredUnknown(r) \/ StartRefused(r) \/ StopRefused(r), ~Die
    PROVE  IndInv'
<1>1. /\ answers[r] # <<>> /\ Received(r)
      /\ Head(answers[r]).code = "error" \/ Head(answers[r]).loop = None
      /\ timer' = timer /\ recorder' = recorder /\ recorded' = recorded /\ requests' = requests
      /\ recordings' = recordings /\ recs' = recs /\ link' = link
    BY DEF StartAnsweredUnknown, StartRefused, StopRefused, Receives
<1>2. Typed'
    BY <1>1, Takes DEF IndInv, Typed
<1>3. ASSUME NEW q \in Recorders, q # r PROVE OKNext(q)
  <2>1. Kept(q)
    BY <1>1, <1>3, Takes DEF Kept, NamesKept
  <2> QED
    BY <2>1, KeptOK
<1>4. OKNext(r)
  <2> DEFINE m == Head(answers[r])
  <2>1. OKNow(r) /\ answers[r] \in Seq(Answers)
    BY OneOf
  <2>2. answers'[r] = Tail(answers[r]) /\ m = Head(answers[r]) /\ (m.code = "error" \/ m.loop = None)
    BY <1>1, Takes
  <2> HIDE DEF m
  <2>3. RecorderOK(link[r], recorder[r], requests[r], answers'[r], recs[r],
               Named(recordings, r), RunningAt(recordings, r), KnownAt(recordings, r))
    BY <1>1, <2>1, <2>2, AnswerDropped DEF OKNow
  <2> QED
    BY <1>1, <2>3 DEF OKNext
<1>5. timer' => \A q \in Recorders : Named(recordings', q) = {}
    BY <1>1 DEF IndInv, TimerFirst
<1> QED
    BY <1>2, <1>3, <1>4, <1>5, Combine

(* The answer to a start.                                                  *)
LEMMA StartedStep ==
    ASSUME IndInv, NEW r \in Recorders, StartAnswered(r), ~Die
    PROVE  IndInv'
<1> DEFINE m == Head(answers[r])
           l == m.loop
           e == Record(TRUE, r, TRUE)
<1>1. /\ answers[r] # <<>> /\ Received(r) /\ m.kind = "start" /\ m.code = "ok" /\ l # None
      /\ recordings' = [recordings EXCEPT ![l] = e]
      /\ timer' = timer /\ recorder' = recorder /\ recorded' = recorded /\ requests' = requests
      /\ recs' = recs /\ link' = link
    BY DEF StartAnswered, Receives
<1>2. m \in Answers /\ l \in Loops
  <2>1. m \in Answers
    BY <1>1, Takes
  <2> QED
    BY <1>1, <2>1 DEF Answers
<1>3. e \in Records /\ e.recorder = r /\ ShownAt(e, r)
    BY DEF Record, Records, ShownAt
<1>4. StartTrue(m, l)
    BY <1>1 DEF StartTrue
<1>5. m = Head(answers[r])
    OBVIOUS
<1> HIDE DEF e, l, m
<1>6. recordings' \in [Loops -> {None} \cup Records] /\ Replaced(recordings, recordings', l, e)
    BY <1>1, <1>2, <1>3 DEF IndInv, Typed, Replaced
<1>7. OKNow(r) /\ answers[r] \in Seq(Answers) /\ answers'[r] = Tail(answers[r])
    BY <1>1, OneOf, Takes
<1>8. /\ Named(recordings, r) = {l}
      /\ RecorderOK(link[r], recorder[r], requests[r], answers'[r], recs[r], {l}, {l}, {l})
    BY <1>1, <1>2, <1>4, <1>5, <1>7, StartTaken, ZenonT(60) DEF OKNow
<1>9. Typed'
    BY <1>1, <1>6, Takes DEF IndInv, Typed
<1>10. OKNext(r)
  <2>1. Named(recordings', r) = {l} /\ RunningAt(recordings', r) = {l} /\ KnownAt(recordings', r) = {l}
    BY <1>2, <1>3, <1>6, <1>8, RecordShown
  <2> QED
    BY <1>1, <1>8, <2>1 DEF OKNext
<1>11. ASSUME NEW q \in Recorders, q # r PROVE OKNext(q)
  <2>1. l \notin Named(recordings, q) /\ e.recorder # q
    BY <1>3, <1>8, <1>11, NamedAtOne
  <2>2. NamesKept(q)
    BY <1>2, <1>3, <1>6, <2>1, RecordElsewhere DEF NamesKept
  <2>3. Kept(q)
    BY <1>1, <1>11, <2>2, Takes DEF Kept
  <2> QED
    BY <2>3, KeptOK
<1>12. ~timer'
  <2>1. l \in Named(recordings, r)
    BY <1>8
  <2> QED
    BY <1>1, <2>1, OnlyNamed
<1> QED
    BY <1>9, <1>10, <1>11, <1>12, Combine

(* The answer to a stop.                                                   *)
LEMMA StoppedStep ==
    ASSUME IndInv, NEW r \in Recorders, StopAnswered(r), ~Die
    PROVE  IndInv'
<1> DEFINE m == Head(answers[r])
           l == m.loop
           e == Fresh
<1>1. /\ answers[r] # <<>> /\ Received(r) /\ m.kind = "stop" /\ m.code # "error"
      /\ recordings' = [recordings EXCEPT ![l] = e]
      /\ recorder' = [recorder EXCEPT ![r] = IF @ = None THEN None ELSE "empty"]
      /\ timer' = timer /\ recorded' = recorded /\ requests' = requests
      /\ recs' = recs /\ link' = link
    BY DEF StopAnswered, Receives
<1>2. m \in Answers /\ l \in Loops
  <2>1. m \in Answers
    BY <1>1, Takes
  <2> QED
    BY <1>1, <2>1 DEF Answers
<1>3. e \in Records /\ \A q \in Recorders : e.recorder # q
    BY NoneAssumption DEF Fresh, Record, Records
<1>4. StopTrue(m, l)
    BY <1>1 DEF StopTrue
<1>5. m = Head(answers[r])
    OBVIOUS
<1> HIDE DEF e, l, m
<1>6. recordings' \in [Loops -> {None} \cup Records] /\ Replaced(recordings, recordings', l, e)
    BY <1>1, <1>2, <1>3 DEF IndInv, Typed, Replaced
<1>7. /\ recorder' \in [Recorders -> {None, "empty", "blocked"}]
      /\ Released(recorder[r], recorder'[r])
      /\ \A q \in Recorders \ {r} : recorder'[q] = recorder[q]
    BY <1>1 DEF IndInv, Typed, Released
<1>8. /\ OKNow(r) /\ answers[r] \in Seq(Answers) /\ answers'[r] = Tail(answers[r])
      /\ requests[r] \in Seq(Requests)
    BY <1>1, OneOf, Takes
<1>9. /\ Named(recordings, r) = {l}
      /\ RecorderOK(link[r], recorder'[r], requests[r], answers'[r], recs[r], {}, {}, {})
  <2>1. RecorderOK(link[r], recorder[r], requests[r], answers[r], recs[r],
                   Named(recordings, r), RunningAt(recordings, r), KnownAt(recordings, r))
    BY <1>8 DEF OKNow
  <2>2. answers[r] # <<>> /\ Released(recorder[r], recorder'[r])
    BY <1>1, <1>7
  <2>3. TakenOut(requests[r], answers[r], m, answers'[r])
    BY <1>5, <1>8, <2>2 DEF TakenOut
  <2> QED
    BY <1>2, <1>4, <2>1, <2>2, <2>3, StopTaken
<1>10. Typed'
    BY <1>1, <1>6, <1>7, Takes DEF IndInv, Typed
<1>11. OKNext(r)
  <2>1. Named(recordings', r) = {} /\ RunningAt(recordings', r) = {} /\ KnownAt(recordings', r) = {}
    BY <1>2, <1>3, <1>6, <1>9, RecordDropped
  <2> QED
    BY <1>1, <1>9, <2>1 DEF OKNext
<1>12. ASSUME NEW q \in Recorders, q # r PROVE OKNext(q)
  <2>1. l \notin Named(recordings, q) /\ e.recorder # q
    BY <1>3, <1>9, <1>12, NamedAtOne
  <2>2. NamesKept(q)
    BY <1>2, <1>3, <1>6, <2>1, RecordElsewhere DEF NamesKept
  <2>3. Kept(q)
    BY <1>1, <1>7, <1>12, <2>2, Takes DEF Kept
  <2> QED
    BY <2>3, KeptOK
<1>13. ~timer'
  <2>1. l \in Named(recordings, r)
    BY <1>9
  <2> QED
    BY <1>1, <2>1, OnlyNamed
<1> QED
    BY <1>10, <1>11, <1>12, <1>13, Combine

(* A recorder process acts on the request at the head of its queue.        *)
LEMMA ActsStep ==
    ASSUME IndInv, NEW r \in Recorders, RecorderActs(r)
    PROVE  IndInv'
<1> DEFINE m == Head(requests[r])
<1>1. PICK code \in {"ok", "error", "not_recording"} :
        /\ Reply(r, code)
        /\ \/ m.kind = "start" /\ code = "ok" /\ recs' = [recs EXCEPT ![r] = @ \cup {m.loop}]
           \/ /\ m.kind = "stop" /\ m.known /\ m.loop \in recs[r] /\ code = "ok"
              /\ recs' = [recs EXCEPT ![r] = @ \ {m.loop}]
           \/ m.kind = "stop" /\ ~(m.known /\ m.loop \in recs[r]) /\ code = "not_recording" /\ recs' = recs
           \/ code = "error" /\ recs' = recs
    BY DEF RecorderActs
<1> DEFINE a == [kind |-> m.kind, loop |-> m.loop, cb |-> m.cb, code |-> code]
<1>2. /\ requests[r] # <<>> /\ requests' = [requests EXCEPT ![r] = Tail(@)]
      /\ answers' = [answers EXCEPT ![r] = Append(@, a)]
      /\ timer' = timer /\ recorded' = recorded /\ recordings' = recordings /\ recorder' = recorder
      /\ link' = link
    BY <1>1 DEF Reply, RecorderActs
<1>3. /\ requests \in [Recorders -> Seq(Requests)] /\ answers \in [Recorders -> Seq(Answers)]
      /\ recs \in [Recorders -> SUBSET (Loops \cup {None})]
    BY DEF IndInv, Typed
<1>4. m \in Requests /\ Tail(requests[r]) \in Seq(Requests) /\ m = Head(requests[r])
    BY <1>2, <1>3, HeadTailProperties
<1>5. a \in Answers /\ a.kind = m.kind /\ a.loop = m.loop /\ a.code = code
    BY <1>4 DEF Requests, Answers
<1>6. m.loop \in Loops \cup {None}
    BY <1>4 DEF Requests
<1> HIDE DEF a, m
<1>7. Append(answers[r], a) \in Seq(Answers)
    BY <1>3, <1>5, AppendProperties
<1>8. /\ requests' \in [Recorders -> Seq(Requests)] /\ answers' \in [Recorders -> Seq(Answers)]
      /\ recs' \in [Recorders -> SUBSET (Loops \cup {None})]
    BY <1>1, <1>2, <1>3, <1>4, <1>6, <1>7, ZenonT(60)
<1>9. Typed'
    BY <1>2, <1>8 DEF IndInv, Typed
<1>10. ASSUME NEW q \in Recorders, q # r PROVE OKNext(q)
  <2>1. requests'[q] = requests[q] /\ answers'[q] = answers[q] /\ recs'[q] = recs[q]
    BY <1>1, <1>2, <1>3, <1>10
  <2>2. Kept(q)
    BY <1>2, <2>1 DEF Kept, NamesKept
  <2> QED
    BY <2>2, KeptOK
<1>11. OKNext(r)
  <2>1. requests'[r] = Tail(requests[r]) /\ answers'[r] = Append(answers[r], a)
    BY <1>2, <1>3
  <2>2. Obeys(m, a, recs[r], recs'[r])
    BY <1>1, <1>3, <1>5 DEF Obeys
  <2>3. OKNow(r) /\ requests[r] \in Seq(Requests) /\ answers[r] \in Seq(Answers)
    BY OneOf
  <2>4. RecorderOK(link[r], recorder[r], requests'[r], answers'[r], recs'[r],
               Named(recordings, r), RunningAt(recordings, r), KnownAt(recordings, r))
    BY <1>2, <1>4, <1>5, <2>1, <2>2, <2>3, Obeyed DEF OKNow
  <2> QED
    BY <1>2, <2>4 DEF OKNext
<1>12. timer' => \A q \in Recorders : Named(recordings', q) = {}
    BY <1>2 DEF IndInv, TimerFirst
<1> QED
    BY <1>9, <1>10, <1>11, <1>12, Combine

(* Nothing but the callback of one request or one answer expires.          *)
LEMMA RequestExpired ==
    ASSUME NEW w \in Seq(Requests), NEW i \in DOMAIN w
    PROVE  /\ [w EXCEPT ![i].cb = FALSE] \in Seq(Requests)
           /\ AlikeRequests(w, [w EXCEPT ![i].cb = FALSE])
<1> DEFINE m == [w[i] EXCEPT !.cb = FALSE]
           v == [w EXCEPT ![i] = m]
<1>1. i \in 1..Len(w) /\ Len(w) \in Nat /\ w[i] \in Requests
    BY LenProperties, ElementOfSeq
<1>2. m \in Requests /\ m.kind = w[i].kind /\ m.loop = w[i].loop /\ m.known = w[i].known
    BY <1>1 DEF Requests
<1>3. [w EXCEPT ![i].cb = FALSE] = v
    OBVIOUS
<1> HIDE DEF m
<1>4. /\ v \in Seq(Requests) /\ Len(v) = Len(w)
      /\ \A j \in 1..Len(w) : v[j] = IF j = i THEN m ELSE w[j]
    BY <1>1, <1>2, ExceptSeq
<1>5. w # <<>>
    BY <1>1, EmptySeq
<1> HIDE DEF v
<1>6. AlikeRequests(w, v)
    BY <1>2, <1>4, <1>5 DEF AlikeRequests, Alike
<1> QED
    BY <1>3, <1>4, <1>6

(* The same for an answer.                                                 *)
LEMMA AnswerExpired ==
    ASSUME NEW w \in Seq(Answers), NEW i \in DOMAIN w
    PROVE  /\ [w EXCEPT ![i].cb = FALSE] \in Seq(Answers)
           /\ AlikeAnswers(w, [w EXCEPT ![i].cb = FALSE])
<1> DEFINE m == [w[i] EXCEPT !.cb = FALSE]
           v == [w EXCEPT ![i] = m]
<1>1. i \in 1..Len(w) /\ Len(w) \in Nat /\ w[i] \in Answers
    BY LenProperties, ElementOfSeq
<1>2. m \in Answers /\ m.kind = w[i].kind /\ m.loop = w[i].loop /\ m.code = w[i].code
    BY <1>1 DEF Answers
<1>3. [w EXCEPT ![i].cb = FALSE] = v
    OBVIOUS
<1> HIDE DEF m
<1>4. /\ v \in Seq(Answers) /\ Len(v) = Len(w)
      /\ \A j \in 1..Len(w) : v[j] = IF j = i THEN m ELSE w[j]
    BY <1>1, <1>2, ExceptSeq
<1>5. w # <<>>
    BY <1>1, EmptySeq
<1> HIDE DEF v
<1>6. AlikeAnswers(w, v)
    BY <1>2, <1>4, <1>5 DEF AlikeAnswers, Alike
<1> QED
    BY <1>3, <1>4, <1>6

(* A queue is like itself.                                                 *)
LEMMA AlikeItself ==
    ASSUME NEW w
    PROVE  AlikeRequests(w, w) /\ AlikeAnswers(w, w)
    BY DEF AlikeRequests, AlikeAnswers, Alike

(* A callback expires.                                                     *)
LEMMA ExpireStep ==
    ASSUME IndInv, NEW r \in Recorders, Expire(r)
    PROVE  IndInv'
<1>1. /\ timer' = timer /\ link' = link /\ recorder' = recorder /\ recordings' = recordings
      /\ recorded' = recorded /\ recs' = recs
    BY DEF Expire
<1>2. /\ requests \in [Recorders -> Seq(Requests)] /\ answers \in [Recorders -> Seq(Answers)]
      /\ requests[r] \in Seq(Requests) /\ answers[r] \in Seq(Answers)
    BY DEF IndInv, Typed
<1>3. /\ requests' \in [Recorders -> Seq(Requests)] /\ answers' \in [Recorders -> Seq(Answers)]
      /\ AlikeRequests(requests[r], requests'[r]) /\ AlikeAnswers(answers[r], answers'[r])
      /\ \A q \in Recorders \ {r} : requests'[q] = requests[q] /\ answers'[q] = answers[q]
  <2>1. CASE \E i \in DOMAIN requests[r] :
                requests' = [requests EXCEPT ![r][i].cb = FALSE] /\ answers' = answers
    <3>1. PICK i \in DOMAIN requests[r] :
                requests' = [requests EXCEPT ![r][i].cb = FALSE] /\ answers' = answers
        BY <2>1
    <3> DEFINE v == [requests[r] EXCEPT ![i].cb = FALSE]
    <3>2. v \in Seq(Requests) /\ AlikeRequests(requests[r], v)
        BY <1>2, RequestExpired
    <3>3. requests' = [requests EXCEPT ![r] = v] /\ answers' = answers
        BY <3>1
    <3> HIDE DEF v
    <3> QED
        BY <1>2, <3>2, <3>3, AlikeItself
  <2>2. CASE \E i \in DOMAIN answers[r] :
                answers' = [answers EXCEPT ![r][i].cb = FALSE] /\ requests' = requests
    <3>1. PICK i \in DOMAIN answers[r] :
                answers' = [answers EXCEPT ![r][i].cb = FALSE] /\ requests' = requests
        BY <2>2
    <3> DEFINE v == [answers[r] EXCEPT ![i].cb = FALSE]
    <3>2. v \in Seq(Answers) /\ AlikeAnswers(answers[r], v)
        BY <1>2, AnswerExpired
    <3>3. answers' = [answers EXCEPT ![r] = v] /\ requests' = requests
        BY <3>1
    <3> HIDE DEF v
    <3> QED
        BY <1>2, <3>2, <3>3, AlikeItself
  <2> QED
    BY <2>1, <2>2, Zenon DEF Expire
<1>4. Typed'
    BY <1>1, <1>3 DEF IndInv, Typed
<1>5. ASSUME NEW q \in Recorders, q # r PROVE OKNext(q)
  <2>1. Kept(q)
    BY <1>1, <1>3, <1>5 DEF Kept, NamesKept
  <2> QED
    BY <2>1, KeptOK
<1>6. OKNext(r)
  <2>1. RecorderOK(link[r], recorder[r], requests[r], answers[r], recs[r],
                   Named(recordings, r), RunningAt(recordings, r), KnownAt(recordings, r))
    BY OneOf DEF OKNow
  <2>2. RecorderOK(link[r], recorder[r], requests'[r], answers'[r], recs[r],
                   Named(recordings, r), RunningAt(recordings, r), KnownAt(recordings, r))
    BY <1>3, <2>1, CallbacksExpired
  <2> QED
    BY <1>1, <2>2 DEF OKNext
<1>7. timer' => \A q \in Recorders : Named(recordings', q) = {}
    BY <1>1 DEF IndInv, TimerFirst
<1> QED
    BY <1>4, <1>5, <1>6, <1>7, Combine

-----------------------------------------------------------------------------
(* The theorems.                                                           *)

(* Before anything has connected the invariant holds.                      *)
LEMMA InitIndInv ==
    Init => IndInv
<1> SUFFICES ASSUME Init PROVE IndInv
    OBVIOUS
<1>1. \A q \in Recorders : /\ link[q] = "closed" /\ recorder[q] = None /\ requests[q] = <<>>
                            /\ answers[q] = <<>> /\ recs[q] = {}
    BY DEF Init, Each
<1>2. \A q \in Recorders : Named(recordings, q) = {}
    BY DEF Init, NoRecordings, Named
<1>3. Typed
  <2>1. <<>> \in Seq(Requests) /\ <<>> \in Seq(Answers)
    OBVIOUS
  <2>2. /\ link = [q \in Recorders |-> "closed"] /\ recorder = [q \in Recorders |-> None]
        /\ requests = [q \in Recorders |-> <<>>] /\ answers = [q \in Recorders |-> <<>>]
        /\ recs = [q \in Recorders |-> {}] /\ recordings = [l \in Loops |-> None]
        /\ recorded \subseteq Loops
    BY DEF Init, Each, NoRecordings
  <2> QED
    BY <2>1, <2>2 DEF Typed
<1>4. AllOK
  <2> SUFFICES ASSUME NEW q \in Recorders
               PROVE  RecorderOK(link[q], recorder[q], requests[q], answers[q], recs[q],
                          Named(recordings, q), RunningAt(recordings, q), KnownAt(recordings, q))
    BY DEF AllOK
  <2>1. RunningAt(recordings, q) = {} /\ KnownAt(recordings, q) = {}
    BY <1>2 DEF RunningAt, KnownAt
  <2> QED
    BY <1>1, <1>2, <2>1, CleanRecorder
<1> QED
    BY <1>2, <1>3, <1>4 DEF IndInv, TimerFirst

(* Every step of the server, of a recorder and of the clocks keeps it.     *)
LEMMA NextIndInv ==
    ASSUME UsedWithCare, IndInv, [Next]_vars
    PROVE  IndInv'
<1>1. CASE Die
    BY <1>1, DieStep
<1>2. CASE UNCHANGED <<timer, link, recorder, recordings, recorded, requests, answers, recs>>
  <2>1. Typed'
    BY <1>2 DEF IndInv, Typed
  <2>2. ASSUME NEW q \in Recorders PROVE OKNext(q)
    <3>1. Kept(q)
        BY <1>2 DEF Kept, NamesKept
    <3> QED
        BY <3>1, KeptOK
  <2>3. timer' => \A q \in Recorders : Named(recordings', q) = {}
    BY <1>2 DEF IndInv, TimerFirst
  <2> QED
    BY <2>1, <2>2, <2>3, Combine
<1>3. ASSUME NEW r \in Recorders, Connect(r) \/ Register(r) \/ Unregister(r) PROVE IndInv'
    BY <1>3, LinkStep
<1>4. ASSUME NEW r \in Recorders, Close(r) PROVE IndInv'
  <2>1. CASE CloseUnused(r) \/ \E l \in Loops : CloseFails(r, l)
    BY <2>1, CloseStep
  <2>2. CASE \E l \in Loops : CloseMoves(r, l)
    BY <2>2, MoveStep
  <2> QED
    BY <1>4, <2>1, <2>2 DEF Close
<1>5. ASSUME NEW r \in Recorders, ~Die, StartAnsweredUnknown(r) \/ StartRefused(r) \/ StopRefused(r)
      PROVE  IndInv'
    BY <1>5, DropStep
<1>6. ASSUME NEW r \in Recorders, ~Die, StartAnswered(r) PROVE IndInv'
    BY <1>6, StartedStep
<1>7. ASSUME NEW r \in Recorders, ~Die, StopAnswered(r) PROVE IndInv'
    BY <1>7, StoppedStep
<1>8. ASSUME NEW r \in Recorders, Expire(r) PROVE IndInv'
    BY <1>8, ExpireStep
<1>9. ASSUME NEW r \in Recorders, RecorderActs(r) PROVE IndInv'
    BY <1>9, ActsStep
<1>10. ASSUME NEW l \in Loops, StartFails(l) \/ StopFails(l) PROVE IndInv'
    BY <1>10, FailStep
<1>11. CASE StartAll \/ \E l \in Loops, cb \in BOOLEAN : Start(l, cb)
    BY <1>11, StartStep
<1>12. ASSUME NEW l \in Loops, NEW cb \in BOOLEAN, Stop(l, cb) PROVE IndInv'
    BY <1>12, StopStep
<1>13. CASE Boot
    BY <1>2, <1>13 DEF Boot
<1>14. CASE UNCHANGED vars
    BY <1>2, <1>14 DEF vars
<1> QED
    BY <1>1, <1>3, <1>4, <1>5, <1>6, <1>7, <1>8, <1>9, <1>10, <1>11, <1>12, <1>13, <1>14 DEF Next

(* Types, the state of every recorder and the order of the startup timer,  *)
(* together, hold in every reachable state of a server used with care.     *)
THEOREM IndInvHolds ==
    ASSUME UsedWithCare
    PROVE  Spec => []IndInv
<1>1. UsedWithCare
    OBVIOUS
<1>2. IndInv /\ [Next]_vars => IndInv'
    BY <1>1, NextIndInv
<1> QED
    BY <1>2, InitIndInv, PTL DEF Spec

(* find_empty_recorder never offers a recorder that records a loop or has  *)
(* been asked to: used with care, two loops never share a recorder.        *)
THEOREM OfferedIdle ==
    ASSUME UsedWithCare
    PROVE  Spec => []OfferedIsIdle
<1>1. IndInv => OfferedIsIdle
  <2> SUFFICES ASSUME IndInv, NEW r \in Recorders, recorder[r] = "empty"
               PROVE  recs[r] \subseteq {None} /\ \A i \in DOMAIN requests[r] : requests[r][i].kind # "start"
    BY DEF OfferedIsIdle
  <2>1. OKNow(r) /\ DOMAIN requests[r] = 1..Len(requests[r])
    BY OneOf, LenProperties
  <2> QED
    BY <2>1 DEF OKNow, RecorderOK, EmptyUnnamed, Messaging, AboutNamed
<1> QED
    BY <1>1, IndInvHolds, PTL

(* A recorder that is blocked is named by the record of a loop, so that it *)
(* can be stopped and used again, also after refused and expired requests. *)
THEOREM BlockedHasRecord ==
    ASSUME UsedWithCare
    PROVE  Spec => []BlockedIsNamed
<1>1. IndInv => BlockedIsNamed
  <2> SUFFICES ASSUME IndInv, NEW r \in Recorders, recorder[r] = "blocked"
               PROVE  \E l \in Loops : RecorderOf(l) = r
    BY DEF BlockedIsNamed
  <2>1. OKNow(r)
    BY OneOf
  <2>2. Named(recordings, r) # {}
    BY <2>1 DEF OKNow, RecorderOK, BlockedNamed
  <2>3. PICK l \in Named(recordings, r) : TRUE
    BY <2>2
  <2> QED
    BY <2>3, NameIsNamed DEF Named
<1> QED
    BY <1>1, IndInvHolds, PTL

(* What is shown as running has a recorder.                                *)
RunningNamed == \A l \in Loops : Running(l) => recordings[l].recorder \in Recorders

Harmless(e) == e # None /\ e.running => e.recorder \in Recorders

(* Every record the handlers write is harmless.                            *)
LEMMA RunningNamedStep ==
    ASSUME Typed, RunningNamed, [Next]_vars
    PROVE  RunningNamed'
<1>1. \A l \in Loops : Harmless(recordings[l])
    BY DEF RunningNamed, Running, Harmless
<1>2. recordings \in [Loops -> {None} \cup Records]
    BY DEF Typed
<1>3. Harmless(Fresh) /\ Harmless(None) /\ \A r \in Recorders : Harmless(Record(TRUE, r, TRUE))
    BY DEF Harmless, Fresh, Record
<1>4. \A l \in Loops : Harmless(recordings'[l])
  <2>1. CASE recordings' = recordings
    BY <1>1, <2>1
  <2>2. CASE Die
    BY <1>3, <2>2 DEF Die, NoRecordings
  <2>3. CASE \E l \in Loops : recordings' = [recordings EXCEPT ![l] = Fresh]
    BY <1>1, <1>2, <1>3, <2>3
  <2>4. CASE \E ls \in SUBSET Loops : \E given \in Assignments(ls) : recordings' = RecordsNamed(given)
    <3>1. PICK ls \in SUBSET Loops : \E given \in Assignments(ls) : recordings' = RecordsNamed(given)
        BY <2>4
    <3>2. PICK given \in Assignments(ls) : recordings' = RecordsNamed(given)
        BY <3>1
    <3> SUFFICES ASSUME NEW l \in Loops PROVE Harmless(recordings'[l])
        OBVIOUS
    <3>3. recordings'[l] = IF l \in DOMAIN given THEN Record(FALSE, given[l], FALSE) ELSE recordings[l]
        BY <3>2 DEF RecordsNamed
    <3>4. Harmless(Record(FALSE, given[l], FALSE))
        BY DEF Harmless, Record
    <3> QED
        BY <1>1, <3>3, <3>4
  <2>5. CASE \E r \in Recorders, l \in Loops : recordings' = [recordings EXCEPT ![l] = Record(TRUE, r, TRUE)]
    BY <1>1, <1>2, <1>3, <2>5
  <2>6. CASE \E l \in Loops : recordings[l] # None /\ recordings' = [recordings EXCEPT ![l].running = FALSE]
    <3>1. PICK l \in Loops : recordings[l] # None /\ recordings' = [recordings EXCEPT ![l].running = FALSE]
        BY <2>6
    <3>2. recordings[l] \in Records
        BY <1>2, <3>1
    <3>3. recordings'[l].running = FALSE
        BY <1>2, <3>1, <3>2 DEF Records
    <3>4. Harmless(recordings'[l])
        BY <3>3 DEF Harmless
    <3>5. \A a \in Loops \ {l} : recordings'[a] = recordings[a]
        BY <1>2, <3>1
    <3> QED
        BY <1>1, <3>4, <3>5
  <2> HIDE <1>1
  <2>7. ASSUME NEW r \in Recorders,
               \/ Connect(r) \/ Register(r) \/ Unregister(r) \/ Close(r)
               \/ StartAnsweredUnknown(r) \/ StartRefused(r) \/ StopRefused(r)
               \/ Expire(r) \/ RecorderActs(r)
        PROVE  \A l \in Loops : Harmless(recordings'[l])
    <3>1. CASE Close(r)
      <4>1. ASSUME NEW l \in Loops, CloseMoves(r, l)
            PROVE  \E ls \in SUBSET Loops : \E given \in Assignments(ls) : recordings' = RecordsNamed(given)
        <5>1. {l} \in SUBSET Loops
            OBVIOUS
        <5> QED
            BY <4>1, <5>1 DEF CloseMoves
      <4> QED
        BY <2>1, <2>3, <2>4, <3>1, <4>1 DEF Close, CloseUnused, CloseFails
    <3> QED
        BY <2>1, <2>2, <2>7, <3>1 DEF Connect, Register, Unregister, StartAnsweredUnknown, StartRefused,
           StopRefused, Expire, RecorderActs, Reply
  <2>8. ASSUME NEW r \in Recorders, ~Die, StartAnswered(r) \/ StopAnswered(r)
        PROVE  \A l \in Loops : Harmless(recordings'[l])
    <3> DEFINE m == Head(answers[r])
    <3>1. /\ answers[r] # <<>> /\ (m.kind = "start" => m.loop # None)
          /\ m.kind \in {"start", "stop"}
          /\ \/ recordings' = [recordings EXCEPT ![m.loop] = Record(TRUE, r, TRUE)]
             \/ recordings' = [recordings EXCEPT ![m.loop] = Fresh]
        BY <2>8 DEF StartAnswered, StopAnswered, Receives
    <3>2. answers[r] \in Seq(Answers)
        BY DEF Typed
    <3>3. m \in Answers
        BY <3>1, <3>2, HeadTailProperties
    <3>4. m.loop \in Loops
        BY <3>1, <3>3 DEF Answers
    <3> QED
        BY <2>3, <2>5, <3>1, <3>4
  <2>9. ASSUME NEW l \in Loops, StartFails(l) \/ StopFails(l) PROVE \A a \in Loops : Harmless(recordings'[a])
    BY <2>3, <2>6, <2>9 DEF StartFails, StopFails
  <2>10. ASSUME NEW l \in Loops, NEW cb \in BOOLEAN, Start(l, cb) PROVE \A a \in Loops : Harmless(recordings'[a])
    <3>1. {l} \in SUBSET Loops /\ \E given \in Assignments({l}) : recordings' = RecordsNamed(given)
        BY <2>10 DEF Start, Give
    <3> QED
        BY <2>4, <3>1
  <2>11. ASSUME NEW l \in Loops, NEW cb \in BOOLEAN, Stop(l, cb) PROVE \A a \in Loops : Harmless(recordings'[a])
    BY <2>1, <2>11 DEF Stop
  <2>12. CASE StartAll
    <3>1. recorded \subseteq Loops
        BY DEF Typed
    <3> QED
        BY <2>4, <2>12, <3>1 DEF StartAll, Give
  <2>13. CASE Boot \/ UNCHANGED vars
    BY <2>1, <2>13 DEF Boot, vars
  <2> QED
    BY <2>2, <2>7, <2>8, <2>9, <2>10, <2>11, <2>12, <2>13 DEF Next
<1> QED
    BY <1>4 DEF RunningNamed, Running, Harmless

(* A loop the server shows as recorded is recorded by the recorder its     *)
(* record names, or the answer to its stop is on its way.                  *)
THEOREM ShownIsRecorded ==
    ASSUME UsedWithCare
    PROVE  Spec => []RunningIsRecorded
<1>1. Init => RunningNamed
    BY DEF Init, NoRecordings, RunningNamed, Running
<1>2. Typed /\ RunningNamed /\ [Next]_vars => RunningNamed'
    BY RunningNamedStep
<1>3. IndInv => Typed
    BY DEF IndInv
<1>4. IndInv /\ RunningNamed => RunningIsRecorded
  <2> SUFFICES ASSUME IndInv, RunningNamed, NEW l \in Loops, Running(l), NEW r, r = RecorderOf(l)
               PROVE  \/ l \in recs[r]
                      \/ \E i \in DOMAIN answers[r] : answers[r][i].kind = "stop" /\ answers[r][i].loop = l
    BY DEF RunningIsRecorded
  <2>1. r \in Recorders
    BY DEF RunningNamed, Running, RecorderOf
  <2>2. l \in RunningAt(recordings, r)
    BY <2>1, NameIsNamed DEF RunningAt, Running
  <2>3. OKNow(r) /\ DOMAIN answers[r] = 1..Len(answers[r])
    BY <2>1, OneOf, LenProperties
  <2>4. RunningTrue(answers[r], recs[r], RunningAt(recordings, r))
    BY <2>3 DEF OKNow, RecorderOK
  <2> QED
    BY <2>2, <2>3, <2>4 DEF RunningTrue, StopTrue
<1> QED
    BY <1>1, <1>2, <1>3, <1>4, IndInvHolds, PTL DEF Spec
=============================================================================
