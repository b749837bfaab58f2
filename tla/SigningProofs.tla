---------------------------- MODULE SigningProofs ----------------------------
(***************************************************************************)
(* Theorems about Signing, for every set of users, multisigs, transactions *)
(* and handlers and for every bound.                                       *)
(***************************************************************************)
EXTENDS Signing, TLAPS

-----------------------------------------------------------------------------
(* Type correctness *)

\* A handler that is under way answers a request of an existing row, in the
\* name of the account the request was posted to.
Bound(h) ==
    handler[h].pc # "idle" =>
        /\ handler[h].t \in Track
        /\ handler[h].s \in Slot
        /\ handler[h].user = handler[h].s.who

TypeInv == TypeOK /\ \A h \in Handler : Bound(h)

\* The rows and records of the initial state and of an idle handler are typed.
LEMMA IdleTyped ==
    /\ Idle \in HandlerRecord
    /\ NoTrack \in TrackRow
    /\ NoRequest \in RequestRow
    /\ Untouched \in [submitted : 0..MaxSubmits, accepted : BOOLEAN]
BY SigningAssumption DEF Idle, HandlerRecord, NoTrack, TrackRow, NoRequest, RequestRow,
    Untouched, PC, SignatureStatus, SignerStatus

\* The account of a payload's entry is a principal, or the default.
LEMMA AccountTyped ==
    ASSUME NEW e \in Entry, NEW default
    PROVE  AccountOf(e, default) \in Principal \cup {default}
<1>1. CASE e.kind = "default"
  BY <1>1 DEF AccountOf
<1>2. CASE e.kind = "user"
  BY <1>2 DEF AccountOf, Entry, Principal
<1>3. CASE e.kind = "msig"
  BY <1>3 DEF AccountOf, Entry, Principal
<1> QED
  BY <1>1, <1>2, <1>3 DEF Entry

\* The initial tables and the idle handlers are typed.
LEMMA TypeInit == Init => TypeInv
<1> SUFFICES ASSUME Init PROVE TypeInv
  OBVIOUS
<1>1. TypeOK
  BY IdleTyped, SigningAssumption DEF Init, TypeOK
<1>2. \A h \in Handler : Bound(h)
  BY DEF Init, Bound, Idle
<1> QED
  BY <1>1, <1>2 DEF TypeInv

\* Each step of a handler changes its own record only, and keeps it bound.
LEMMA HandlerTyped ==
    ASSUME TypeInv, NEW h \in Handler, NEW r \in HandlerRecord,
           handler' = [handler EXCEPT ![h] = r],
           r.pc # "idle" => r.t \in Track /\ r.s \in Slot /\ r.user = r.s.who
    PROVE  handler' \in [Handler -> HandlerRecord] /\ \A g \in Handler : Bound(g)'
<1>1. handler \in [Handler -> HandlerRecord]
  BY DEF TypeInv, TypeOK
<1>2. handler' \in [Handler -> HandlerRecord]
  BY <1>1
<1>3. ASSUME NEW g \in Handler PROVE Bound(g)'
  <2>1. CASE g = h
    BY <1>1, <2>1 DEF Bound
  <2>2. CASE g # h
    BY <1>1, <2>2 DEF Bound, TypeInv
  <2> QED
    BY <2>1, <2>2
<1> QED
  BY <1>2, <1>3

\* Updating the columns a handler writes keeps a track row typed.
LEMMA RowTyped ==
    ASSUME NEW row \in TrackRow,
           NEW status \in SignatureStatus \cup {"none"},
           NEW passed \in {"unset", "passed", "failed"}
    PROVE  /\ [row EXCEPT !.status = status] \in TrackRow
           /\ [row EXCEPT !.passed = passed] \in TrackRow
           /\ [row EXCEPT !.status = status, !.passed = passed] \in TrackRow
BY DEF TrackRow

\* Every step of every handler keeps the tables and the handlers typed.
LEMMA TypeStep == TypeInv /\ [Next]_vars => TypeInv'
<1> SUFFICES ASSUME TypeInv, [Next]_vars PROVE TypeInv'
  OBVIOUS
<1>0. /\ track \in [Track -> TrackRow]
      /\ request \in [Track -> [Slot -> RequestRow]]
      /\ handler \in [Handler -> HandlerRecord]
      /\ chain \in [Track -> [submitted : 0..MaxSubmits, accepted : BOOLEAN]]
      /\ failures \in 0..MaxFail
      /\ \A h \in Handler : Bound(h)
  BY DEF TypeInv, TypeOK
<1>a. ASSUME NEW h \in Handler, handler[h].pc # "idle"
      PROVE  /\ handler[h] \in HandlerRecord
             /\ handler[h].t \in Track /\ handler[h].s \in Slot
             /\ handler[h].user = handler[h].s.who
  BY <1>0, <1>a DEF Bound
<1>1. ASSUME NEW t \in Track, NEW p \in Payloads, SubmitTransaction(t, p)
      PROVE  TypeInv'
  <2>1. AccountOf(p.sender, p.requestor) \in Principal \cup {None}
    BY AccountTyped, SigningAssumption DEF Payload, Principal
  <2>2. AccountOf(p.sponsor, None) \in Principal \cup {None}
    BY AccountTyped, SigningAssumption DEF Payload
  <2>3. track' \in [Track -> TrackRow]
    BY <1>0, <1>1, <2>1, <2>2 DEF SubmitTransaction, TrackRow, SignatureStatus
  <2>4. request' \in [Track -> [Slot -> RequestRow]]
    BY <1>0, <1>1 DEF SubmitTransaction, RequestRow, SignerStatus, NoRequest
  <2>5. \A h \in Handler : Bound(h)'
    BY <1>0, <1>1 DEF SubmitTransaction, Bound
  <2> QED
    BY <1>0, <1>1, <2>3, <2>4, <2>5 DEF SubmitTransaction, TypeInv, TypeOK
<1>2. ASSUME NEW h \in Handler, NEW user \in User, NEW t \in Track, NEW s \in Slot,
             NEW approved \in Answers, Lookup(h, user, t, s, approved)
      PROVE  TypeInv'
  <2> DEFINE r == [Idle EXCEPT !.pc = "respond", !.user = user, !.t = t, !.s = s,
                               !.approved = approved, !.seen = request[t][s]]
  <2>1. approved \in BOOLEAN /\ request[t][s] \in RequestRow
    BY <1>0, SigningAssumption
  <2>2. r \in HandlerRecord
    BY <2>1, IdleTyped DEF HandlerRecord, PC
  <2>3. r.t = t /\ r.s = s /\ r.user = user
    BY DEF Idle
  <2>4. s.who = user
    BY <1>2 DEF Lookup, MaySign
  <2>5. handler' = [handler EXCEPT ![h] = r]
    BY <1>2 DEF Lookup
  <2>6. handler' \in [Handler -> HandlerRecord] /\ \A g \in Handler : Bound(g)'
    <3> HIDE DEF r
    <3> QED
      BY <2>2, <2>3, <2>4, <2>5, HandlerTyped
  <2> QED
    BY <1>0, <1>2, <2>6 DEF Lookup, TypeInv, TypeOK
<1>3. ASSUME NEW h \in Handler, Respond(h) PROVE TypeInv'
  <2> DEFINE me == handler[h]
             new == Answer(me.approved, me.user, me.seen)
             r == [me EXCEPT !.pc = "reload", !.seen = NoRequest]
  <2>1. /\ me \in HandlerRecord /\ me.t \in Track /\ me.s \in Slot
        /\ me.user = me.s.who
    BY <1>3, <1>a DEF Respond
  <2>2. r \in HandlerRecord /\ r.t = me.t /\ r.s = me.s /\ r.user = me.user
    BY <2>1, IdleTyped DEF HandlerRecord, PC
  <2>3. handler' = [handler EXCEPT ![h] = r]
    BY <1>3 DEF Respond
  <2>4. handler' \in [Handler -> HandlerRecord] /\ \A g \in Handler : Bound(g)'
    <3> HIDE DEF r
    <3> QED
      BY <2>1, <2>2, <2>3, HandlerTyped
  <2>5. new \in RequestRow
    BY <2>1 DEF Answer, RequestRow, SignerStatus, HandlerRecord, Slot
  <2>6. request' \in [Track -> [Slot -> RequestRow]]
    <3> DEFINE old == request[me.t][me.s]
               row == [status    |-> Written(old.status, me.seen.status, new.status),
                       signature |-> Written(old.signature, me.seen.signature, new.signature)]
    <3>1. request' = [request EXCEPT ![me.t][me.s] = row]
      BY <1>0, <1>3, <2>1 DEF Respond
    <3>2. old \in RequestRow
      BY <1>0, <2>1
    <3>3. row \in RequestRow
      BY <2>5, <3>2 DEF Written, RequestRow
    <3> HIDE DEF row
    <3> QED
      BY <1>0, <2>1, <3>1, <3>3
  <2> QED
    BY <1>0, <1>3, <2>4, <2>6 DEF Respond, TypeInv, TypeOK
<1>4. ASSUME NEW h \in Handler, NEW r \in HandlerRecord,
             handler' = [handler EXCEPT ![h] = r],
             r.pc # "idle" => r.t \in Track /\ r.s \in Slot /\ r.user = r.s.who,
             UNCHANGED <<track, request, chain, failures>>
      PROVE  TypeInv'
  BY <1>0, <1>4, HandlerTyped DEF TypeInv, TypeOK
<1>5. ASSUME NEW h \in Handler, Reload(h) PROVE TypeInv'
  <2> DEFINE row == request[handler[h].t][handler[h].s]
             r == [handler[h] EXCEPT !.pc = "load", !.own = row]
  <2>1. /\ handler[h] \in HandlerRecord /\ handler[h].t \in Track /\ handler[h].s \in Slot
        /\ handler[h].user = handler[h].s.who
    BY <1>5, <1>a DEF Reload
  <2>2. row \in RequestRow
    BY <1>0, <2>1
  <2>3. /\ r \in HandlerRecord
        /\ r.t = handler[h].t /\ r.s = handler[h].s /\ r.user = handler[h].user
    <3> HIDE DEF row
    <3> QED
      BY <2>1, <2>2 DEF HandlerRecord, PC
  <2>4. handler' = [handler EXCEPT ![h] = r] /\ UNCHANGED <<track, request, chain, failures>>
    BY <1>5 DEF Reload
  <2> QED
    <3> HIDE DEF r
    <3> QED
      BY <1>4, <2>1, <2>3, <2>4
<1>6. ASSUME NEW h \in Handler, NEW pc \in PC, NEW row \in TrackRow,
             handler[h].pc # "idle", Continue(h, pc, row),
             UNCHANGED <<track, request, chain, failures>>
      PROVE  TypeInv'
  <2>1. CASE pc = "idle"
    <3>1. Idle \in HandlerRecord /\ Idle.pc = "idle"
      BY IdleTyped DEF Idle
    <3>2. handler' = [handler EXCEPT ![h] = Idle]
      BY <1>6, <2>1 DEF Continue
    <3> QED
      BY <1>4, <1>6, <3>1, <3>2
  <2>2. CASE pc # "idle"
    <3> DEFINE r == [handler[h] EXCEPT !.pc = pc, !.row = row]
    <3>1. /\ handler[h] \in HandlerRecord /\ handler[h].t \in Track /\ handler[h].s \in Slot
          /\ handler[h].user = handler[h].s.who
      BY <1>6, <1>a
    <3>2. /\ r \in HandlerRecord
          /\ r.t = handler[h].t /\ r.s = handler[h].s /\ r.user = handler[h].user
      BY <3>1 DEF HandlerRecord
    <3>3. handler' = [handler EXCEPT ![h] = r]
      BY <1>6, <2>2 DEF Continue
    <3> QED
      <4> HIDE DEF r
      <4> QED
        BY <1>4, <1>6, <3>1, <3>2, <3>3
  <2> QED
    BY <2>1, <2>2
<1>7. ASSUME NEW h \in Handler, LoadTrack(h) PROVE TypeInv'
  <2>1. handler[h].pc # "idle" /\ track[handler[h].t] \in TrackRow
    BY <1>0, <1>7, <1>a DEF LoadTrack
  <2> QED
    BY <1>6, <1>7, <2>1 DEF LoadTrack, ProcessTracker, PC
<1>8. ASSUME NEW h \in Handler, Tally(h) PROVE TypeInv'
  <2>1. PICK verdict : handler' = [handler EXCEPT ![h].pc = "settle", ![h].verdict = verdict]
                       /\ verdict \in SignatureStatus \cup {handler[h].row.status}
    BY <1>8 DEF Tally, Verdict, SignatureStatus
  <2> DEFINE r == [handler[h] EXCEPT !.pc = "settle", !.verdict = verdict]
  <2>2. /\ handler[h] \in HandlerRecord /\ handler[h].t \in Track /\ handler[h].s \in Slot
        /\ handler[h].user = handler[h].s.who
    BY <1>8, <1>a DEF Tally
  <2>3. verdict \in SignatureStatus \cup {"none"}
    BY <2>1, <2>2 DEF HandlerRecord, TrackRow
  <2>4. /\ r \in HandlerRecord
        /\ r.t = handler[h].t /\ r.s = handler[h].s /\ r.user = handler[h].user
    BY <2>2, <2>3 DEF HandlerRecord, PC
  <2>5. handler' = [handler EXCEPT ![h] = r] /\ UNCHANGED <<track, request, chain, failures>>
    BY <1>8, <2>1 DEF Tally
  <2> QED
    <3> HIDE DEF r
    <3> QED
      BY <1>4, <2>2, <2>4, <2>5
<1>9. ASSUME NEW h \in Handler, Settle(h) PROVE TypeInv'
  <2> DEFINE me == handler[h]
             r == [me EXCEPT !.pc = "refresh", !.own = NoRequest, !.row = NoTrack,
                             !.verdict = "none"]
             status == Written(track[me.t].status, me.row.status, me.verdict)
             row == [track[me.t] EXCEPT !.status = status]
  <2>1. /\ me \in HandlerRecord /\ me.t \in Track /\ me.s \in Slot
        /\ me.user = me.s.who
    BY <1>9, <1>a DEF Settle
  <2>2. r \in HandlerRecord /\ r.t = me.t /\ r.s = me.s /\ r.user = me.user
    BY <2>1, IdleTyped DEF HandlerRecord, PC
  <2>3. handler' = [handler EXCEPT ![h] = r]
    BY <1>9 DEF Settle
  <2>4. handler' \in [Handler -> HandlerRecord] /\ \A g \in Handler : Bound(g)'
    <3> HIDE DEF r
    <3> QED
      BY <2>1, <2>2, <2>3, HandlerTyped
  <2>5. status \in SignatureStatus \cup {"none"}
    BY <1>0, <2>1 DEF Written, TrackRow, HandlerRecord
  <2>6. row \in TrackRow
    <3> HIDE DEF status
    <3> QED
      BY <1>0, <2>1, <2>5, RowTyped
  <2>7. track' = [track EXCEPT ![me.t] = row]
    BY <1>9 DEF Settle
  <2>8. track' \in [Track -> TrackRow]
    <3> HIDE DEF row
    <3> QED
      BY <1>0, <2>6, <2>7
  <2> QED
    BY <1>0, <1>9, <2>4, <2>8 DEF Settle, TypeInv, TypeOK
<1>10. ASSUME NEW h \in Handler, Refresh(h) PROVE TypeInv'
  <2>1. handler[h].pc # "idle" /\ track[handler[h].t] \in TrackRow
    BY <1>0, <1>10, <1>a DEF Refresh
  <2> QED
    BY <1>6, <1>10, <2>1 DEF Refresh, ProcessTracker, PC
<1>11. ASSUME NEW h \in Handler, handler' = [handler EXCEPT ![h] = Idle],
              track' \in [Track -> TrackRow], UNCHANGED <<request, chain>>,
              failures' \in 0..MaxFail
       PROVE  TypeInv'
  <2>1. Idle \in HandlerRecord /\ Idle.pc = "idle"
    BY IdleTyped DEF Idle
  <2>2. handler' \in [Handler -> HandlerRecord] /\ \A g \in Handler : Bound(g)'
    BY <1>11, <2>1, HandlerTyped
  <2> QED
    BY <1>0, <1>11, <2>2 DEF TypeInv, TypeOK
<1>12. ASSUME NEW h \in Handler, Gather(h) PROVE TypeInv'
  <2>1. CASE handler' = [handler EXCEPT ![h] = Idle]
    BY <1>0, <1>11, <1>12, <2>1 DEF Gather
  <2>2. CASE handler' # [handler EXCEPT ![h] = Idle]
    <3> DEFINE fit == WellSigned(handler[h], Party(handler[h].t))
               r == [handler[h] EXCEPT !.pc = "execute", !.complete = fit]
    <3>1. fit \in BOOLEAN
      BY DEF WellSigned
    <3>2. /\ handler[h] \in HandlerRecord /\ handler[h].t \in Track /\ handler[h].s \in Slot
          /\ handler[h].user = handler[h].s.who
      BY <1>12, <1>a DEF Gather
    <3>3. /\ r \in HandlerRecord
          /\ r.t = handler[h].t /\ r.s = handler[h].s /\ r.user = handler[h].user
      <4> HIDE DEF fit
      <4> QED
        BY <3>1, <3>2 DEF HandlerRecord, PC
    <3>4. handler' = [handler EXCEPT ![h] = r] /\ UNCHANGED <<track, request, chain, failures>>
      BY <1>12, <2>2 DEF Gather
    <3> QED
      <4> HIDE DEF r
      <4> QED
        BY <1>4, <3>2, <3>3, <3>4
  <2> QED
    BY <2>1, <2>2
<1>13. ASSUME NEW h \in Handler, Execute(h) PROVE TypeInv'
  <2> DEFINE me == handler[h]
  <2>1. PICK outcome \in {"passed", "failed"} :
          /\ handler' = [handler EXCEPT ![h].pc = "record", ![h].outcome = outcome]
          /\ chain' = [chain EXCEPT ![me.t] =
                    [submitted |-> IF @.submitted < MaxSubmits THEN @.submitted + 1
                                                               ELSE MaxSubmits,
                     accepted  |-> @.accepted \/ outcome = "passed"]]
    BY <1>13 DEF Execute
  <2> DEFINE r == [me EXCEPT !.pc = "record", !.outcome = outcome]
             seen == chain[me.t]
             count == IF seen.submitted < MaxSubmits THEN seen.submitted + 1 ELSE MaxSubmits
             taken == seen.accepted \/ outcome = "passed"
  <2>2. /\ me \in HandlerRecord /\ me.t \in Track /\ me.s \in Slot
        /\ me.user = me.s.who
    BY <1>13, <1>a DEF Execute
  <2>3. r \in HandlerRecord /\ r.t = me.t /\ r.s = me.s /\ r.user = me.user
    BY <2>2 DEF HandlerRecord, PC
  <2>4. handler' = [handler EXCEPT ![h] = r]
    BY <2>1
  <2>5. handler' \in [Handler -> HandlerRecord] /\ \A g \in Handler : Bound(g)'
    <3> HIDE DEF r
    <3> QED
      BY <2>2, <2>3, <2>4, HandlerTyped
  <2>6. count \in 0..MaxSubmits
    BY <1>0, <2>2, SigningAssumption
  <2>7. taken \in BOOLEAN
    BY <1>0, <2>2
  <2>8. chain' \in [Track -> [submitted : 0..MaxSubmits, accepted : BOOLEAN]]
    <3>1. chain' = [chain EXCEPT ![me.t] = [submitted |-> count, accepted |-> taken]]
      BY <2>1
    <3> HIDE DEF count, taken
    <3> QED
      BY <1>0, <2>6, <2>7, <3>1
  <2> QED
    BY <1>0, <1>13, <2>5, <2>8 DEF Execute, TypeInv, TypeOK
<1>14. ASSUME NEW h \in Handler, Record(h) PROVE TypeInv'
  <2> DEFINE me == handler[h]
             status == Written(track[me.t].status, me.row.status, "signed_and_executed")
             passed == Written(track[me.t].passed, me.row.passed, me.outcome)
             row == [track[me.t] EXCEPT !.status = status, !.passed = passed]
  <2>1. me \in HandlerRecord /\ me.t \in Track
    BY <1>14, <1>a DEF Record
  <2>2. status \in SignatureStatus \cup {"none"} /\ passed \in {"unset", "passed", "failed"}
    BY <1>0, <2>1 DEF Written, TrackRow, HandlerRecord, SignatureStatus
  <2>3. row \in TrackRow
    <3> HIDE DEF status, passed
    <3> QED
      BY <1>0, <2>1, <2>2, RowTyped
  <2>4. track' = [track EXCEPT ![me.t] = row]
    BY <1>14 DEF Record, Recorded
  <2>5. track' \in [Track -> TrackRow]
    <3> HIDE DEF row
    <3> QED
      BY <1>0, <2>3, <2>4
  <2> QED
    BY <1>0, <1>11, <1>14, <2>5 DEF Record
<1>15. ASSUME NEW h \in Handler, Close(h) PROVE TypeInv'
  <2> DEFINE me == handler[h]
             passed == Written(track[me.t].passed, me.row.passed, "failed")
             row == [track[me.t] EXCEPT !.passed = passed]
  <2>1. me.t \in Track
    BY <1>15, <1>a DEF Close
  <2>2. passed \in {"unset", "passed", "failed"}
    BY <1>0, <2>1 DEF Written, TrackRow
  <2>3. row \in TrackRow
    <3> HIDE DEF passed
    <3> QED
      BY <1>0, <2>1, <2>2, RowTyped
  <2>4. track' = [track EXCEPT ![me.t] = row]
    BY <1>15 DEF Close
  <2>5. track' \in [Track -> TrackRow]
    <3> HIDE DEF row
    <3> QED
      BY <1>0, <2>3, <2>4
  <2> QED
    BY <1>0, <1>11, <1>15, <2>5 DEF Close
<1>16. ASSUME NEW h \in Handler, Fail(h) PROVE TypeInv'
  <2>1. failures' \in 0..MaxFail
    BY <1>0, <1>16, SigningAssumption DEF Fail
  <2> QED
    BY <1>0, <1>11, <1>16, <2>1 DEF Fail
<1>17. CASE UNCHANGED vars
  BY <1>17 DEF vars, Bound, TypeInv, TypeOK
<1> QED
  BY <1>1, <1>2, <1>3, <1>5, <1>7, <1>8, <1>9, <1>10, <1>12, <1>13, <1>14, <1>15, <1>16, <1>17
     DEF Next, Advance

\* The tables, the records of the handlers and the counters are well typed in
\* every reachable state of Signing.
THEOREM TypeCorrect == Spec => []TypeOK
<1>1. TypeInv => TypeOK
  BY DEF TypeInv
<1> QED
  BY TypeInit, TypeStep, <1>1, PTL DEF Spec

-----------------------------------------------------------------------------
(* Consent *)

Approved == {"signed", "signed_and_executed"}

\* What the tables say of t.
TableInv(t) ==
    /\ \A s \in Slot :
        /\ request[t][s].signature \in {None, s.who}
        /\ request[t][s].status = "signed" => request[t][s].signature = s.who
    /\ track[t].status = "none" => chain[t].submitted = 0 /\ Party(t) = {}
    /\ track[t].status \in Approved \/ chain[t].submitted > 0 => Consented(t)

\* What a handler holds: copies of its own request that are not ahead of the
\* table, and on its way to the chain a transaction that everybody signed.
HandlerInv(h) ==
    LET me == handler[h]
        signed == request[me.t][me.s].signature = me.s.who
    IN  me.pc # "idle" =>
            /\ track[me.t].status # "none"
            /\ me.s \in Party(me.t)
            /\ me.seen.signature # None => signed
            /\ me.own.status = "signed" => signed
            /\ me.pc = "tally" => me.row.status \notin Approved \cup {"none"}
            /\ me.pc = "settle" => me.verdict # "none"
            /\ me.pc = "settle" /\ me.verdict \in Approved => Consented(me.t)
            /\ me.pc \in {"gather", "execute", "record"} => Consented(me.t)

\* The inductive invariant.
IInv ==
    /\ TypeInv
    /\ \A t \in Track : TableInv(t)
    /\ \A h \in Handler : HandlerInv(h)

\* The tables and the handlers begin consistent.
LEMMA ConsentInit == Init => IInv
<1> SUFFICES ASSUME Init PROVE IInv
  OBVIOUS
<1>1. TypeInv
  BY TypeInit
<1>2. \A t \in Track : TableInv(t)
  BY DEF Init, TableInv, NoRequest, NoTrack, Untouched, Party, Approved
<1>3. \A h \in Handler : HandlerInv(h)
  BY DEF Init, HandlerInv, Idle
<1> QED
  BY <1>1, <1>2, <1>3 DEF IInv

\* What no step takes back, of a transaction that was submitted: the track, the
\* slots it asks, and the signatures they gave.
Kept(t) ==
    track[t].status # "none" =>
        /\ track'[t].status # "none"
        /\ Party(t)' = Party(t)
        /\ \A s \in Slot : request[t][s].signature = s.who => request'[t][s].signature = s.who

\* Recording a result and closing a track leave its status or make it executed.
LEMMA RecordStatus ==
    ASSUME track \in [Track -> TrackRow], NEW h \in Handler, Record(h)
    PROVE  \A t \in Track :
                \/ track'[t].status = track[t].status
                \/ t = handler[h].t /\ track'[t].status = "signed_and_executed"
<1> DEFINE me == handler[h]
           status == Written(track[me.t].status, me.row.status, "signed_and_executed")
           row == [track[me.t] EXCEPT !.status = status,
                       !.passed = Written(track[me.t].passed, me.row.passed, me.outcome)]
<1>1. track' = [track EXCEPT ![me.t] = row]
  BY DEF Record, Recorded
<1>2. me.t \in Track => row.status = status
  BY DEF TrackRow
<1>3. status \in {track[me.t].status, "signed_and_executed"}
  BY DEF Written
<1> HIDE DEF row, status
<1> QED
  BY <1>1, <1>2, <1>3

\* Closing a failed track leaves its status as it was.
LEMMA CloseStatus ==
    ASSUME track \in [Track -> TrackRow], NEW h \in Handler, Close(h)
    PROVE  \A t \in Track : track'[t].status = track[t].status
<1> DEFINE me == handler[h]
           row == [track[me.t] EXCEPT
                       !.passed = Written(track[me.t].passed, me.row.passed, "failed")]
<1>1. track' = [track EXCEPT ![me.t] = row]
  BY DEF Close
<1>2. me.t \in Track => row.status = track[me.t].status
  BY DEF TrackRow
<1> HIDE DEF row
<1> QED
  BY <1>1, <1>2

\* No step takes back the party of a track or a signature that was given.
LEMMA KeptStep == IInv /\ [Next]_vars => \A t \in Track : Kept(t)
<1> SUFFICES ASSUME IInv, [Next]_vars PROVE \A t \in Track : Kept(t)
  OBVIOUS
<1>0. /\ track \in [Track -> TrackRow]
      /\ request \in [Track -> [Slot -> RequestRow]]
      /\ \A t \in Track : TableInv(t)
      /\ \A h \in Handler : handler[h].pc # "idle" =>
            /\ handler[h] \in HandlerRecord
            /\ handler[h].t \in Track /\ handler[h].s \in Slot
            /\ handler[h].user = handler[h].s.who
            /\ HandlerInv(h)
  BY DEF IInv, TypeInv, TypeOK, Bound
<1>1. ASSUME NEW t \in Track, NEW p \in Payloads, SubmitTransaction(t, p)
      PROVE  \A u \in Track : Kept(u)
  BY <1>0, <1>1 DEF SubmitTransaction, Kept, Party
<1>2. ASSUME NEW h \in Handler, Respond(h) PROVE \A t \in Track : Kept(t)
  <2> DEFINE me == handler[h]
             new == Answer(me.approved, me.user, me.seen)
             stored == request[me.t][me.s]
             row == [status    |-> Written(stored.status, me.seen.status, new.status),
                     signature |-> Written(stored.signature, me.seen.signature, new.signature)]
  <2>1. /\ me \in HandlerRecord /\ me.t \in Track /\ me.s \in Slot
        /\ me.user = me.s.who
    BY <1>0, <1>2 DEF Respond
  <2>2. request' = [request EXCEPT ![me.t][me.s] = row]
    BY <1>2 DEF Respond
  <2>3. stored.status # "none"
    BY <1>0, <1>2, <2>1 DEF Respond, HandlerInv, Party
  <2>4. row.status # "none"
    BY <2>3 DEF Written, Answer
  <2>5. stored.signature = me.s.who => row.signature = me.s.who
    BY <2>1 DEF Written, Answer
  <2>6. \A t \in Track, s \in Slot :
            /\ request'[t][s].status # "none" <=> request[t][s].status # "none"
            /\ request[t][s].signature = s.who => request'[t][s].signature = s.who
    <3> HIDE DEF row
    <3> QED
      BY <1>0, <2>1, <2>2, <2>3, <2>4, <2>5
  <2> QED
    BY <1>2, <2>6 DEF Respond, Kept, Party
<1>3. ASSUME NEW h \in Handler, Settle(h) PROVE \A t \in Track : Kept(t)
  <2>1. handler[h].t \in Track /\ handler[h].verdict # "none"
    BY <1>0, <1>3 DEF Settle, HandlerInv
  <2>2. \A t \in Track : track[t].status # "none" => track'[t].status # "none"
    BY <1>0, <1>3, <2>1 DEF Settle, Written, TrackRow
  <2> QED
    BY <1>3, <2>2 DEF Settle, Kept, Party
<1>4. ASSUME NEW h \in Handler, Record(h) \/ Close(h) PROVE \A t \in Track : Kept(t)
  <2>1. \A t \in Track : track'[t].status \in {track[t].status, "signed_and_executed"}
    BY <1>0, <1>4, RecordStatus, CloseStatus
  <2> QED
    BY <1>4, <2>1 DEF Record, Close, Kept, Party
<1>5. ASSUME UNCHANGED <<track, request>> PROVE \A t \in Track : Kept(t)
  BY <1>5 DEF Kept, Party
<1>6. ASSUME NEW h \in Handler, Reload(h) \/ LoadTrack(h) \/ Tally(h) \/ Refresh(h)
                                \/ Gather(h) \/ Execute(h) \/ Fail(h)
      PROVE  UNCHANGED <<track, request>>
  BY <1>6 DEF Reload, LoadTrack, Tally, Refresh, Gather, Execute, Fail
<1>7. ASSUME NEW h \in Handler, NEW user \in User, NEW t \in Track, NEW s \in Slot,
             NEW approved \in Answers, Lookup(h, user, t, s, approved)
      PROVE  UNCHANGED <<track, request>>
  BY <1>7 DEF Lookup
<1>8. CASE UNCHANGED vars
  BY <1>5, <1>8 DEF vars
<1> QED
  BY <1>1, <1>2, <1>3, <1>4, <1>5, <1>6, <1>7, <1>8 DEF Next, Advance

\* A step leaves consent in place.
LEMMA ConsentKept ==
    ASSUME NEW t \in Track, Kept(t), track[t].status # "none", Consented(t)
    PROVE  Consented(t)'
BY DEF Kept, Consented, Party

\* The tally says signed only of a transaction all slots of which consented.
LEMMA TallyConsents ==
    ASSUME NEW party, NEW status, NEW before,
           Verdict(party, status, before) \in Approved, before \notin Approved
    PROVE  \A s \in party : status[s] = "signed"
BY DEF Verdict, Approved

\* Every step keeps what the tables say of a track consistent with its signatures.
LEMMA TableStep == IInv /\ [Next]_vars => \A t \in Track : TableInv(t)'
<1> SUFFICES ASSUME IInv, [Next]_vars PROVE \A t \in Track : TableInv(t)'
  OBVIOUS
<1>0. /\ track \in [Track -> TrackRow]
      /\ request \in [Track -> [Slot -> RequestRow]]
      /\ chain \in [Track -> [submitted : 0..MaxSubmits, accepted : BOOLEAN]]
      /\ \A t \in Track : TableInv(t)
      /\ \A t \in Track : Kept(t)
      /\ \A h \in Handler : handler[h].pc # "idle" =>
            /\ handler[h] \in HandlerRecord
            /\ handler[h].t \in Track /\ handler[h].s \in Slot
            /\ handler[h].user = handler[h].s.who
            /\ HandlerInv(h)
  BY KeptStep DEF IInv, TypeInv, TypeOK, Bound
<1>1. ASSUME NEW t \in Track, NEW p \in Payloads, SubmitTransaction(t, p), NEW u \in Track
      PROVE  TableInv(u)'
  <2>1. CASE u = t
    <3>1. /\ \A s \in Slot : /\ request'[t][s].signature = None
                             /\ request'[t][s].status # "signed"
          /\ track'[t].status = "pending_signers"
      BY <1>0, <1>1 DEF SubmitTransaction, NoRequest
    <3>2. chain'[t].submitted = 0
      BY <1>0, <1>1 DEF SubmitTransaction, TableInv
    <3> QED
      BY <2>1, <3>1, <3>2 DEF TableInv, Approved
  <2>2. CASE u # t
    <3>1. track'[u] = track[u] /\ request'[u] = request[u] /\ chain'[u] = chain[u]
      BY <1>0, <1>1, <2>2 DEF SubmitTransaction
    <3> QED
      BY <1>0, <3>1 DEF TableInv, Consented, Party
  <2> QED
    BY <2>1, <2>2
<1>2. ASSUME NEW h \in Handler, Respond(h), NEW t \in Track PROVE TableInv(t)'
  <2> DEFINE me == handler[h]
             new == Answer(me.approved, me.user, me.seen)
             stored == request[me.t][me.s]
             row == [status    |-> Written(stored.status, me.seen.status, new.status),
                     signature |-> Written(stored.signature, me.seen.signature, new.signature)]
  <2>1. /\ me \in HandlerRecord /\ me.t \in Track /\ me.s \in Slot
        /\ me.user = me.s.who /\ me.s.who \in User
        /\ track[me.t].status # "none"
        /\ me.seen.signature # None => stored.signature = me.s.who
    BY <1>0, <1>2 DEF Respond, HandlerInv, Slot
  <2>2. request' = [request EXCEPT ![me.t][me.s] = row]
    BY <1>2 DEF Respond
  <2>3. /\ stored.signature \in {None, me.s.who}
        /\ stored.status = "signed" => stored.signature = me.s.who
    BY <1>0, <2>1 DEF TableInv
  <2>4. /\ row.signature \in {None, me.s.who}
        /\ row.status = "signed" => row.signature = me.s.who
    <3>1. CASE me.approved
      BY <2>1, <2>3, <3>1, PrincipalAssumption DEF Written, Answer, Principal
    <3>2. CASE ~me.approved
      BY <2>1, <2>3, <3>2 DEF Written, Answer
    <3> QED
      BY <3>1, <3>2
  <2>5. \A s \in Slot :
            /\ request'[t][s].signature \in {None, s.who}
            /\ request'[t][s].status = "signed" => request'[t][s].signature = s.who
    <3> HIDE DEF row
    <3> QED
      BY <1>0, <2>1, <2>2, <2>4 DEF TableInv
  <2>6. track' = track /\ chain' = chain
    BY <1>2 DEF Respond
  <2>7. track[t].status = "none" => request'[t] = request[t]
    <3> HIDE DEF row
    <3> QED
      BY <1>0, <2>1, <2>2
  <2>8. track'[t].status \in Approved \/ chain'[t].submitted > 0 => Consented(t)'
    <3>1. track[t].status \in Approved \/ chain[t].submitted > 0
            => Consented(t) /\ track[t].status # "none"
      BY <1>0 DEF TableInv, Approved
    <3> QED
      BY <1>0, <2>6, <3>1, ConsentKept
  <2> QED
    BY <1>0, <2>5, <2>6, <2>7, <2>8 DEF TableInv, Party
<1>3. ASSUME NEW h \in Handler, Settle(h), NEW t \in Track PROVE TableInv(t)'
  <2> DEFINE me == handler[h]
             status == Written(track[me.t].status, me.row.status, me.verdict)
  <2>1. /\ me.t \in Track /\ track[me.t].status # "none"
        /\ me.verdict \in Approved => Consented(me.t)
    BY <1>0, <1>3 DEF Settle, HandlerInv
  <2>2. track' = [track EXCEPT ![me.t].status = status]
    BY <1>3 DEF Settle
  <2>3. status \in Approved => Consented(me.t)
    BY <1>0, <2>1 DEF Written, TableInv
  <2>4. \A u \in Track : track'[u].status = IF u = me.t THEN status ELSE track[u].status
    <3> HIDE DEF status
    <3> QED
      BY <1>0, <2>2 DEF TrackRow
  <2>5. request' = request /\ chain' = chain
    BY <1>3 DEF Settle
  <2>6. Party(t)' = Party(t) /\ (Consented(t) => Consented(t)')
    BY <2>5 DEF Party, Consented
  <2>7. Kept(t) /\ TableInv(t)
    BY <1>0
  <2>8. track'[t].status \in Approved => Consented(t)
    BY <2>3, <2>4, <2>7 DEF TableInv
  <2>9. track'[t].status = "none" => track[t].status = "none"
    BY <2>7 DEF Kept
  <2> QED
    BY <2>5, <2>6, <2>7, <2>8, <2>9 DEF TableInv
<1>4. ASSUME NEW h \in Handler, Execute(h), NEW t \in Track PROVE TableInv(t)'
  <2>1. /\ handler[h].t \in Track /\ track[handler[h].t].status # "none"
        /\ Consented(handler[h].t)
    BY <1>0, <1>4 DEF Execute, HandlerInv
  <2>2. track' = track /\ request' = request
    BY <1>4 DEF Execute
  <2>3. t # handler[h].t => chain'[t] = chain[t]
    BY <1>0, <1>4, <2>1 DEF Execute
  <2>4. Party(t)' = Party(t) /\ (Consented(t) => Consented(t)')
    BY <2>2 DEF Party, Consented
  <2> QED
    BY <1>0, <2>1, <2>2, <2>3, <2>4 DEF TableInv
<1>5. ASSUME NEW h \in Handler, Record(h), NEW t \in Track PROVE TableInv(t)'
  <2>1. handler[h].t \in Track /\ Consented(handler[h].t)
    BY <1>0, <1>5 DEF Record, HandlerInv
  <2>2. \/ track'[t].status = track[t].status
        \/ t = handler[h].t /\ track'[t].status = "signed_and_executed"
    BY <1>0, <1>5, RecordStatus
  <2>3. request' = request /\ chain' = chain
    BY <1>5 DEF Record
  <2>4. Party(t)' = Party(t) /\ (Consented(t) => Consented(t)')
    BY <2>3 DEF Party, Consented
  <2> QED
    BY <1>0, <2>1, <2>2, <2>3, <2>4 DEF TableInv
<1>6. ASSUME \A t \in Track : track'[t].status = track[t].status,
             UNCHANGED <<request, chain>>, NEW t \in Track
      PROVE  TableInv(t)'
  BY <1>0, <1>6 DEF TableInv, Party, Consented
<1>7. ASSUME NEW h \in Handler, Close(h), NEW t \in Track PROVE TableInv(t)'
  <2>1. UNCHANGED <<request, chain>>
    BY <1>7 DEF Close
  <2> QED
    BY <1>0, <1>6, <1>7, <2>1, CloseStatus
<1>8. ASSUME UNCHANGED <<track, request, chain>>, NEW t \in Track PROVE TableInv(t)'
  BY <1>6, <1>8
<1>9. ASSUME NEW h \in Handler,
             Reload(h) \/ LoadTrack(h) \/ Tally(h) \/ Refresh(h) \/ Gather(h) \/ Fail(h)
      PROVE  UNCHANGED <<track, request, chain>>
  BY <1>9 DEF Reload, LoadTrack, Tally, Refresh, Gather, Fail
<1>10. ASSUME NEW h \in Handler, NEW user \in User, NEW t \in Track, NEW s \in Slot,
              NEW approved \in Answers, Lookup(h, user, t, s, approved)
       PROVE  UNCHANGED <<track, request, chain>>
  BY <1>10 DEF Lookup
<1>11. UNCHANGED vars => UNCHANGED <<track, request, chain>>
  BY DEF vars
<1> QED
  BY <1>1, <1>2, <1>3, <1>4, <1>5, <1>7, <1>8, <1>9, <1>10, <1>11 DEF Next, Advance

\* A handler that does not move is not disturbed by the steps of the others.
LEMMA OthersKept ==
    ASSUME IInv, \A t \in Track : Kept(t), NEW h \in Handler, handler'[h] = handler[h]
    PROVE  HandlerInv(h)'
<1> DEFINE me == handler[h]
<1> SUFFICES ASSUME me.pc # "idle" PROVE HandlerInv(h)'
  BY DEF HandlerInv
<1>1. me.t \in Track /\ me.s \in Slot /\ HandlerInv(h)
  BY DEF IInv, TypeInv, Bound
<1>2. track[me.t].status # "none" /\ me.s \in Party(me.t)
  BY <1>1 DEF HandlerInv
<1>3. /\ track'[me.t].status # "none" /\ Party(me.t)' = Party(me.t)
      /\ request[me.t][me.s].signature = me.s.who => request'[me.t][me.s].signature = me.s.who
  BY <1>1, <1>2 DEF Kept
<1>4. Consented(me.t) => Consented(me.t)'
  BY <1>1, <1>2, ConsentKept
<1> QED
  BY <1>1, <1>2, <1>3, <1>4 DEF HandlerInv

\* Every step keeps what each handler remembers consistent with the tables.
LEMMA HandlerStep == IInv /\ [Next]_vars => \A h \in Handler : HandlerInv(h)'
<1> SUFFICES ASSUME IInv, [Next]_vars, NEW h \in Handler PROVE HandlerInv(h)'
  OBVIOUS
<1> DEFINE me == handler[h]
<1>0. /\ track \in [Track -> TrackRow]
      /\ request \in [Track -> [Slot -> RequestRow]]
      /\ handler \in [Handler -> HandlerRecord]
      /\ \A t \in Track : TableInv(t)
      /\ \A t \in Track : Kept(t)
      /\ me.pc # "idle" => /\ me \in HandlerRecord
                           /\ me.t \in Track /\ me.s \in Slot /\ me.user = me.s.who
                           /\ HandlerInv(h)
  BY KeptStep DEF IInv, TypeInv, TypeOK, Bound
<1>1. CASE handler'[h] = me
  BY <1>0, <1>1, OthersKept
<1>2. CASE handler'[h].pc = "idle"
  BY <1>2 DEF HandlerInv
<1>3. ASSUME NEW user \in User, NEW t \in Track, NEW s \in Slot, NEW approved \in Answers,
             Lookup(h, user, t, s, approved)
      PROVE  HandlerInv(h)'
  <2>1. /\ handler'[h].pc = "respond" /\ handler'[h].t = t /\ handler'[h].s = s
        /\ handler'[h].seen = request[t][s] /\ handler'[h].own = NoRequest
    BY <1>0, <1>3 DEF Lookup, Idle
  <2>2. UNCHANGED <<track, request>> /\ s \in Party(t)
    BY <1>3 DEF Lookup, Party
  <2>3. track[t].status # "none"
    BY <1>0, <2>2 DEF TableInv
  <2>4. request[t][s].signature # None => request[t][s].signature = s.who
    BY <1>0 DEF TableInv
  <2>5. s \in Party(t)'
    BY <2>2 DEF Party
  <2> QED
    BY <2>1, <2>2, <2>3, <2>4, <2>5 DEF HandlerInv, NoRequest
<1>4. ASSUME Respond(h) PROVE HandlerInv(h)'
  <2>1. /\ me \in HandlerRecord /\ me.t \in Track /\ me.s \in Slot /\ HandlerInv(h)
        /\ me.pc = "respond"
    BY <1>0, <1>4 DEF Respond
  <2>2. /\ handler'[h].pc = "reload" /\ handler'[h].t = me.t /\ handler'[h].s = me.s
        /\ handler'[h].seen = NoRequest /\ handler'[h].own = me.own
    BY <1>0, <1>4, <2>1 DEF Respond, HandlerRecord
  <2>3. /\ track'[me.t].status # "none" /\ me.s \in Party(me.t)'
        /\ request[me.t][me.s].signature = me.s.who
                => request'[me.t][me.s].signature = me.s.who
    BY <1>0, <2>1, <2>2 DEF HandlerInv, Kept
  <2> QED
    BY <2>1, <2>2, <2>3 DEF HandlerInv, NoRequest
\* The steps that only load: the tables stay.
<1>5. ASSUME UNCHANGED <<track, request>>, me.pc # "idle",
             handler'[h].t = me.t, handler'[h].s = me.s, handler'[h].seen = me.seen,
             handler'[h].own.status = "signed"
                => request[me.t][me.s].signature = me.s.who,
             handler'[h].pc = "tally" => handler'[h].row.status \notin Approved \cup {"none"},
             handler'[h].pc = "settle" => handler'[h].verdict # "none",
             handler'[h].pc = "settle" /\ handler'[h].verdict \in Approved => Consented(me.t),
             handler'[h].pc \in {"gather", "execute", "record"} => Consented(me.t)
      PROVE  HandlerInv(h)'
  <2>1. Party(me.t)' = Party(me.t) /\ (Consented(me.t) => Consented(me.t)')
    BY <1>5 DEF Party, Consented
  <2> QED
    BY <1>0, <1>5, <2>1 DEF HandlerInv
<1>6. ASSUME Reload(h) PROVE HandlerInv(h)'
  <2>1. /\ me \in HandlerRecord /\ me.t \in Track /\ me.s \in Slot /\ me.pc = "reload"
        /\ UNCHANGED <<track, request>>
    BY <1>0, <1>6 DEF Reload
  <2>2. /\ handler'[h].pc = "load" /\ handler'[h].t = me.t /\ handler'[h].s = me.s
        /\ handler'[h].seen = me.seen /\ handler'[h].own = request[me.t][me.s]
    BY <1>0, <1>6, <2>1 DEF Reload, HandlerRecord
  <2> QED
    BY <1>0, <1>5, <2>1, <2>2 DEF TableInv
<1>7. ASSUME NEW pc \in PC, Continue(h, pc, track[me.t]), me.pc # "idle",
             UNCHANGED <<track, request>>,
             pc \in {"idle", "gather", "close"} \/ (pc = "tally" /\ ~Closed(track[me.t].status)),
             pc = "gather" => track[me.t].status = "signed"
      PROVE  HandlerInv(h)'
  <2>1. CASE pc = "idle"
    BY <1>0, <1>2, <1>7, <2>1 DEF Continue, Idle
  <2>2. CASE pc # "idle"
    <3>1. /\ handler'[h].pc = pc /\ handler'[h].t = me.t /\ handler'[h].s = me.s
          /\ handler'[h].seen = me.seen /\ handler'[h].own = me.own
          /\ handler'[h].row = track[me.t]
      BY <1>0, <1>7, <2>2 DEF Continue, HandlerRecord
    <3>2. /\ track[me.t].status # "none"
          /\ me.own.status = "signed" => request[me.t][me.s].signature = me.s.who
      BY <1>0, <1>7 DEF HandlerInv
    <3>3. pc = "tally" => track[me.t].status \notin Approved \cup {"none"}
      BY <1>7, <3>2 DEF Closed, Approved
    <3>4. pc \in {"gather", "execute", "record"} => Consented(me.t)
      BY <1>0, <1>7 DEF TableInv, Approved
    <3> QED
      BY <1>5, <1>7, <3>1, <3>2, <3>3, <3>4
  <2> QED
    BY <2>1, <2>2
<1>8. ASSUME LoadTrack(h) PROVE HandlerInv(h)'
  BY <1>7, <1>8 DEF LoadTrack, ProcessTracker, Closed, PC
<1>9. ASSUME Refresh(h) PROVE HandlerInv(h)'
  BY <1>7, <1>9 DEF Refresh, ProcessTracker, PC
<1>10. ASSUME Tally(h) PROVE HandlerInv(h)'
  <2> DEFINE status == [s \in Slot |-> IF s = me.s THEN me.own.status
                                                   ELSE request[me.t][s].status]
             verdict == Verdict(Party(me.t), status, me.row.status)
  <2>1. /\ me \in HandlerRecord /\ me.t \in Track /\ me.s \in Slot /\ me.pc = "tally"
        /\ UNCHANGED <<track, request>>
    BY <1>0, <1>10 DEF Tally
  <2>2. /\ handler'[h].pc = "settle" /\ handler'[h].t = me.t /\ handler'[h].s = me.s
        /\ handler'[h].seen = me.seen /\ handler'[h].own = me.own
        /\ handler'[h].verdict = verdict
    BY <1>0, <1>10, <2>1 DEF Tally, HandlerRecord
  <2>3. /\ me.row.status \notin Approved \cup {"none"}
        /\ me.own.status = "signed" => request[me.t][me.s].signature = me.s.who
    BY <1>0, <2>1 DEF HandlerInv
  <2>4. verdict # "none"
    BY <2>3 DEF Verdict
  <2>5. ASSUME verdict \in Approved PROVE Consented(me.t)
    <3>1. \A s \in Party(me.t) : status[s] = "signed"
      <4> HIDE DEF status
      <4> QED
        BY <2>3, <2>5, TallyConsents
    <3>2. \A s \in Party(me.t) : request[me.t][s].signature = s.who
      BY <1>0, <2>1, <2>3, <3>1 DEF Party, TableInv
    <3> QED
      BY <3>2 DEF Consented
  <2> HIDE DEF verdict
  <2> QED
    BY <1>5, <2>1, <2>2, <2>3, <2>4, <2>5
<1>11. ASSUME Settle(h) PROVE HandlerInv(h)'
  <2>1. /\ me \in HandlerRecord /\ me.t \in Track /\ me.s \in Slot /\ HandlerInv(h)
        /\ me.pc = "settle"
    BY <1>0, <1>11 DEF Settle
  <2>2. /\ handler'[h].pc = "refresh" /\ handler'[h].t = me.t /\ handler'[h].s = me.s
        /\ handler'[h].seen = me.seen /\ handler'[h].own = NoRequest
    BY <1>0, <1>11, <2>1 DEF Settle, HandlerRecord
  <2>3. /\ track'[me.t].status # "none" /\ me.s \in Party(me.t)'
        /\ request[me.t][me.s].signature = me.s.who
                => request'[me.t][me.s].signature = me.s.who
    BY <1>0, <2>1, <2>2 DEF HandlerInv, Kept
  <2> QED
    BY <2>1, <2>2, <2>3 DEF HandlerInv, NoRequest
<1>12. ASSUME Gather(h) PROVE HandlerInv(h)'
  <2>1. /\ me \in HandlerRecord /\ me.t \in Track /\ HandlerInv(h)
        /\ me.pc = "gather" /\ UNCHANGED <<track, request>>
    BY <1>0, <1>12 DEF Gather
  <2>2. CASE handler' = [handler EXCEPT ![h] = Idle]
    BY <1>0, <1>2, <2>2 DEF Idle
  <2>3. CASE handler' # [handler EXCEPT ![h] = Idle]
    <3>1. /\ handler'[h].pc = "execute" /\ handler'[h].t = me.t /\ handler'[h].s = me.s
          /\ handler'[h].seen = me.seen /\ handler'[h].own = me.own
      BY <1>0, <1>12, <2>1, <2>3 DEF Gather, HandlerRecord
    <3> QED
      BY <1>5, <2>1, <3>1 DEF HandlerInv
  <2> QED
    BY <2>2, <2>3
<1>13. ASSUME Execute(h) PROVE HandlerInv(h)'
  <2>1. /\ me \in HandlerRecord /\ me.t \in Track /\ HandlerInv(h)
        /\ me.pc = "execute" /\ UNCHANGED <<track, request>>
    BY <1>0, <1>13 DEF Execute
  <2>2. /\ handler'[h].pc = "record" /\ handler'[h].t = me.t /\ handler'[h].s = me.s
        /\ handler'[h].seen = me.seen /\ handler'[h].own = me.own
    BY <1>0, <1>13, <2>1 DEF Execute, HandlerRecord
  <2> QED
    BY <1>5, <2>1, <2>2 DEF HandlerInv
<1>14. ASSUME Record(h) \/ Close(h) \/ Fail(h) PROVE HandlerInv(h)'
  BY <1>0, <1>2, <1>14 DEF Record, Close, Fail, Idle

\* Everything else leaves the record of h alone.
<1>15. ASSUME NEW g \in Handler, g # h, Advance(g) \/ Fail(g) PROVE handler'[h] = me
  BY <1>0, <1>15 DEF Advance, Respond, Reload, LoadTrack, Tally, Settle, Refresh, Gather,
        Execute, Record, Close, Fail, Continue
<1>16. ASSUME NEW g \in Handler, g # h,
              NEW user \in User, NEW t \in Track, NEW s \in Slot, NEW approved \in Answers,
              Lookup(g, user, t, s, approved)
       PROVE  handler'[h] = me
  BY <1>0, <1>16 DEF Lookup
<1>17. ASSUME NEW t \in Track, NEW p \in Payloads, SubmitTransaction(t, p)
       PROVE  handler'[h] = me
  BY <1>17 DEF SubmitTransaction
<1>18. UNCHANGED vars => handler'[h] = me
  BY DEF vars
<1> QED
  BY <1>1, <1>3, <1>4, <1>6, <1>8, <1>9, <1>10, <1>11, <1>12, <1>13, <1>14, <1>15, <1>16,
     <1>17, <1>18 DEF Next, Advance

\* The invariant is inductive.
LEMMA ConsentStep == IInv /\ [Next]_vars => IInv'
BY TypeStep, TableStep, HandlerStep DEF IInv

\* The inductive invariant holds, so a transaction is sent to the chain, and a
\* track says signed, only with the signature of every account that has to
\* sign: whatever the number of concurrent /account/sign handlers, however
\* they interleave and wherever they die.
THEOREM ConsentedSubmissionHolds == Spec => []ConsentedSubmission
<1>1. IInv => ConsentedSubmission
  BY DEF IInv, TableInv, ConsentedSubmission, Approved
<1> QED
  BY ConsentInit, ConsentStep, <1>1, PTL DEF Spec

-----------------------------------------------------------------------------
(* Refinement: under the mapping Promise each step of the service asks, gives *)
(* or sends, or changes nothing that Consent sees.                            *)

\* What Consent sees of the tables.
Asked == [t \in Track |-> Party(t)]
Consents == [t \in Track |-> Given(t)]
Sent == {t \in Track : chain[t].submitted > 0}

\* Nothing is asked, given or sent at first.
LEMMA RefineInit == Init => Promise!Init
<1> SUFFICES ASSUME Init PROVE Promise!Init
  OBVIOUS
<1>1. \A t \in Track : Party(t) = {} /\ Given(t) = {} /\ ~(chain[t].submitted > 0)
  BY DEF Init, Party, Given, NoRequest, Untouched
<1> QED
  BY <1>1 DEF Promise!Init

\* A step that leaves the requests and the count of submissions alone.
LEMMA RefineStutter ==
    ASSUME UNCHANGED <<request, chain>>
    PROVE  UNCHANGED <<Asked, Consents, Sent>>
BY DEF Asked, Consents, Sent, Party, Given

\* Inserting the track and its requests asks the accounts of the track.
LEMMA RefineSubmit ==
    ASSUME IInv, NEW t \in Track, NEW p \in Payloads, SubmitTransaction(t, p)
    PROVE  Promise!Ask(t)
<1>0. request \in [Track -> [Slot -> RequestRow]] /\ TableInv(t)
  BY DEF IInv, TypeInv, TypeOK
<1>1. /\ Party(t) = {} /\ chain[t].submitted = 0
      /\ chain' = chain
      /\ \A u \in Track : u # t => request'[u] = request[u]
      /\ \A s \in Slot : request'[t][s].signature = None
  BY <1>0 DEF SubmitTransaction, TableInv, NoRequest
<1>2. \A u \in Track : u # t => Party(u)' = Party(u) /\ Given(u)' = Given(u)
  BY <1>1 DEF Party, Given
<1>3. Given(t) = {}
  BY <1>1 DEF Given
<1>4. Given(t)' = {}
  BY <1>1, PrincipalAssumption DEF Given, Party, Slot, Principal
<1>5. Party(t)' \in SUBSET Slot
  BY DEF Party
<1>6. Asked' = [Asked EXCEPT ![t] = Party(t)']
  BY <1>2 DEF Asked
<1>7. Consents' = Consents
  BY <1>2, <1>3, <1>4 DEF Consents
<1>8. Sent' = Sent /\ t \notin Sent
  BY <1>1 DEF Sent
<1> QED
  BY <1>1, <1>5, <1>6, <1>7, <1>8 DEF Promise!Ask, Asked, Consents, Sent

\* An answer gives the consent of one account, or nothing the promise speaks of.
LEMMA RefineRespond ==
    ASSUME IInv, [Next]_vars, NEW h \in Handler, Respond(h),
           NEW t \in Track, t = handler[h].t, NEW s \in Slot, s = handler[h].s
    PROVE  Promise!Give(t, s) \/ UNCHANGED <<Asked, Consents, Sent>>
<1>0. /\ request \in [Track -> [Slot -> RequestRow]]
      /\ s \in Party(t)
      /\ track[t].status # "none"
      /\ \A u \in Track : Kept(u)
  BY KeptStep DEF IInv, TypeInv, TypeOK, Bound, HandlerInv, Respond
<1>1. /\ chain' = chain
      /\ \A u \in Track : u # t => request'[u] = request[u]
      /\ \A r \in Slot : r # s => request'[t][r] = request[t][r]
  BY <1>0 DEF Respond
<1>2. Sent' = Sent
  BY <1>1 DEF Sent
<1>3. \A u \in Track : {r \in Slot : request'[u][r].status # "none"} = Party(u)
  BY <1>0, <1>1 DEF Kept, Party
<1>4. Asked' = Asked
  BY <1>3 DEF Asked, Party
<1>5. \A u \in Track : u # t =>
          {r \in Party(u) : request'[u][r].signature = r.who} = Given(u)
  BY <1>1 DEF Given, Party
<1>6. {r \in Party(t) : request'[t][r].signature = r.who} \in {Given(t), Given(t) \cup {s}}
  <2>1. \A r \in Slot : request[t][r].signature = r.who => request'[t][r].signature = r.who
    BY <1>0 DEF Kept
  <2>2. \A r \in Party(t) : r # s => request'[t][r] = request[t][r]
    BY <1>1 DEF Party
  <2> QED
    BY <1>0, <2>1, <2>2 DEF Given, Party
<1>7. Consents' = [u \in Track |-> {r \in Party(u) : request'[u][r].signature = r.who}]
  BY <1>3 DEF Consents, Given, Party
<1>8. CASE {r \in Party(t) : request'[t][r].signature = r.who} = Given(t)
  <2>1. \A u \in Track :
            {r \in Party(u) : request'[u][r].signature = r.who} = Given(u)
    BY <1>5, <1>8
  <2>2. Consents' = Consents
    BY <1>7, <2>1, Zenon DEF Consents
  <2> QED
    BY <1>2, <1>4, <2>2
<1>9. CASE {r \in Party(t) : request'[t][r].signature = r.who} = Given(t) \cup {s}
  <2>1. Consents[t] = Given(t) /\ DOMAIN Consents = Track
        /\ \A u \in Track : Consents[u] = Given(u)
    BY DEF Consents
  <2> DEFINE now(u) == {r \in Party(u) : request'[u][r].signature = r.who}
  <2>2. Consents' = [u \in Track |-> now(u)]
    BY <1>7
  <2>3. now(t) = Consents[t] \cup {s}
    BY <1>9, <2>1
  <2>4. \A u \in Track : u # t => now(u) = Consents[u]
    BY <1>5, <2>1
  <2>5. Consents = [u \in Track |-> Given(u)]
    BY DEF Consents
  <2> HIDE DEF now
  <2>6. Consents' = [Consents EXCEPT ![t] = @ \cup {s}]
    BY <2>1, <2>2, <2>3, <2>4, <2>5
  <2>7. s \in Asked[t]
    BY <1>0 DEF Asked
  <2> QED
    BY <1>2, <1>4, <2>6, <2>7 DEF Promise!Give, Asked, Consents, Sent
<1> QED
  BY <1>6, <1>8, <1>9

\* Submitting to the chain is a send the promise allows.
LEMMA RefineExecute ==
    ASSUME IInv, NEW h \in Handler, Execute(h), NEW t \in Track, t = handler[h].t
    PROVE  Promise!Send(t)
<1>0. /\ chain \in [Track -> [submitted : 0..MaxSubmits, accepted : BOOLEAN]]
      /\ Consented(t)
  BY DEF IInv, TypeInv, TypeOK, Bound, HandlerInv, Execute
<1>1. Given(t) = Party(t)
  BY <1>0 DEF Given, Consented, Party
<1>2. /\ request' = request
      /\ \A u \in Track : u # t => chain'[u] = chain[u]
      /\ chain'[t].submitted > 0
  BY <1>0, SigningAssumption DEF Execute
<1>3. Asked' = Asked /\ Consents' = Consents
  BY <1>2 DEF Asked, Consents, Party, Given
<1>4. Sent' = Sent \cup {t}
  BY <1>0, <1>2 DEF Sent
<1>5. Asked[t] = Party(t) /\ Consents[t] = Given(t)
  BY <1>0 DEF Asked, Consents
<1> QED
  BY <1>1, <1>3, <1>4, <1>5 DEF Promise!Send, Asked, Consents, Sent

\* Every step of Signing is a step of the promise, or a stutter.
LEMMA RefineStep == IInv /\ [Next]_vars => [Promise!Next]_(Promise!vars)
<1> SUFFICES ASSUME IInv, [Next]_vars PROVE [Promise!Next]_(Promise!vars)
  OBVIOUS
<1>1. UNCHANGED <<Asked, Consents, Sent>> => UNCHANGED Promise!vars
  BY DEF Promise!vars, Asked, Consents, Sent
<1>2. ASSUME NEW t \in Track, NEW p \in Payloads, SubmitTransaction(t, p)
      PROVE  Promise!Next
  BY <1>2, RefineSubmit DEF Promise!Next
<1>3. ASSUME NEW h \in Handler, Respond(h) PROVE [Promise!Next]_(Promise!vars)
  <2>1. PICK t \in Track, s \in Slot : t = handler[h].t /\ s = handler[h].s
    BY <1>3 DEF IInv, TypeInv, Bound, Respond
  <2> QED
    BY <1>1, <1>3, <2>1, RefineRespond DEF Promise!Next
<1>4. ASSUME NEW h \in Handler, Execute(h) PROVE Promise!Next
  <2>1. PICK t \in Track : t = handler[h].t
    BY <1>4 DEF IInv, TypeInv, Bound, Execute
  <2>2. Promise!Send(t)
    BY <1>4, <2>1, RefineExecute
  <2> QED
    BY <2>2 DEF Promise!Next
<1>5. ASSUME NEW h \in Handler,
             \/ Reload(h) \/ LoadTrack(h) \/ Tally(h) \/ Settle(h) \/ Refresh(h)
             \/ Gather(h) \/ Record(h) \/ Close(h) \/ Fail(h)
      PROVE  UNCHANGED <<request, chain>>
  BY <1>5 DEF Reload, LoadTrack, Tally, Settle, Refresh, Gather, Record, Close, Fail
<1>6. ASSUME NEW h \in Handler, NEW user \in User, NEW t \in Track, NEW s \in Slot,
             NEW approved \in Answers, Lookup(h, user, t, s, approved)
      PROVE  UNCHANGED <<request, chain>>
  BY <1>6 DEF Lookup
<1>7. UNCHANGED vars => UNCHANGED <<request, chain>>
  BY DEF vars
<1> QED
  BY <1>1, <1>2, <1>3, <1>4, <1>5, <1>6, <1>7, RefineStutter DEF Next, Advance

\* Whatever the handlers do, the service keeps the promise of Consent: it asks
\* a set of accounts once, collects their consent, never loses one, and sends
\* to the chain only what everybody asked consented to.
THEOREM ServiceImplementsConsent == Spec => ImplementsConsent
<1>1. Spec => []IInv
  BY ConsentInit, ConsentStep, PTL DEF Spec
<1> QED
  BY <1>1, RefineInit, RefineStep, PTL DEF Spec, ImplementsConsent, Promise!Spec
=============================================================================
