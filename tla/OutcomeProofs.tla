---------------------------- MODULE OutcomeProofs ----------------------------
(***************************************************************************)
(* Theorems about the outcome of a transaction: a result that says passed  *)
(* was accepted, and what was sent carries enough signatures.  The first   *)
(* needs that the tally closes a track only when all have answered.  They  *)
(* rest on the invariant of SigningProofs, and on an argument like its     *)
(* own: no step takes an answer back, so what a handler has counted stays  *)
(* counted.                                                                *)
(***************************************************************************)
EXTENDS SigningProofs

\* No request of t is pending.
Answered(t) == \A s \in Party(t) : request[t][s].status # "pending"

OutcomeInv(t) ==
    /\ Closed(track[t].status) => Answered(t)
    /\ track[t].passed = "passed" => chain[t].accepted

\* What a handler counted is in the tables, and so is what it will record.
AnswerInv(h) ==
    LET me == handler[h]
    IN  me.pc # "idle" =>
            /\ me.own.status \in {"signed", "denied"} => request[me.t][me.s].status # "pending"
            /\ me.pc = "tally" => ~Closed(me.row.status)
            /\ me.pc = "settle" /\ Closed(me.verdict) => Answered(me.t)
            /\ me.pc \in {"gather", "execute", "record"} => Answered(me.t)
            /\ me.pc = "record" /\ me.outcome = "passed" => chain[me.t].accepted

OInv ==
    /\ IInv
    /\ \A t \in Track : OutcomeInv(t)
    /\ \A h \in Handler : AnswerInv(h)

\* Nothing is closed and nobody is under way at first.
LEMMA OutcomeInit == Init => OInv
<1> SUFFICES ASSUME Init PROVE OInv
  OBVIOUS
<1>1. \A t \in Track : OutcomeInv(t)
  BY DEF Init, OutcomeInv, NoTrack, Closed
<1>2. \A h \in Handler : AnswerInv(h)
  BY DEF Init, AnswerInv, Idle
<1> QED
  BY <1>1, <1>2, ConsentInit DEF OInv

\* What no step takes back: that a request of a submitted transaction was
\* answered, and that the chain accepted it.
AnswersKept(t) ==
    /\ track[t].status # "none" =>
            \A s \in Party(t) : request[t][s].status # "pending" =>
                                    request'[t][s].status # "pending"
    /\ chain[t].accepted => chain'[t].accepted

\* A commit of an answer leaves the row as it is or answers it.
LEMMA RespondAnswers ==
    ASSUME IInv, NEW h \in Handler, Respond(h)
    PROVE  \A t \in Track, s \in Slot :
                \/ request'[t][s].status = request[t][s].status
                \/ request'[t][s].status \in {"signed", "denied"}
<1> DEFINE me == handler[h]
           new == Answer(me.approved, me.user, me.seen)
           stored == request[me.t][me.s]
           row == [status    |-> Written(stored.status, me.seen.status, new.status),
                   signature |-> Written(stored.signature, me.seen.signature, new.signature)]
<1>1. request \in [Track -> [Slot -> RequestRow]] /\ me.t \in Track /\ me.s \in Slot
  BY DEF IInv, TypeInv, TypeOK, Bound, Respond
<1>2. request' = [request EXCEPT ![me.t][me.s] = row]
  BY DEF Respond
<1>3. row.status = stored.status \/ row.status \in {"signed", "denied"}
  BY DEF Written, Answer
<1> HIDE DEF row
<1> QED
  BY <1>1, <1>2, <1>3

\* The chain does not forget that it accepted.
LEMMA ExecuteAccepts ==
    ASSUME IInv, NEW h \in Handler, Execute(h)
    PROVE  /\ \A t \in Track : chain[t].accepted => chain'[t].accepted
           /\ handler'[h].outcome = "passed" => chain'[handler[h].t].accepted
<1> DEFINE me == handler[h]
<1>1. /\ chain \in [Track -> [submitted : 0..MaxSubmits, accepted : BOOLEAN]]
      /\ handler \in [Handler -> HandlerRecord] /\ me.t \in Track
  BY DEF IInv, TypeInv, TypeOK, Bound, Execute
<1>2. PICK outcome \in {"passed", "failed"} :
        /\ handler' = [handler EXCEPT ![h].pc = "record", ![h].outcome = outcome]
        /\ chain' = [chain EXCEPT ![me.t] =
                [submitted |-> IF @.submitted < MaxSubmits THEN @.submitted + 1 ELSE MaxSubmits,
                 accepted  |-> @.accepted \/ outcome = "passed"]]
  BY DEF Execute
<1>3. handler'[h].outcome = outcome
  BY <1>1, <1>2 DEF HandlerRecord
<1>4. chain'[me.t].accepted = (chain[me.t].accepted \/ outcome = "passed")
  BY <1>1, <1>2
<1>5. \A t \in Track : t # me.t => chain'[t] = chain[t]
  BY <1>1, <1>2
<1> QED
  BY <1>1, <1>3, <1>4, <1>5

\* No step takes back an answer or what the chain accepted.
LEMMA AnswersKeptStep == IInv /\ [Next]_vars => \A t \in Track : AnswersKept(t)
<1> SUFFICES ASSUME IInv, [Next]_vars PROVE \A t \in Track : AnswersKept(t)
  OBVIOUS
<1>1. ASSUME NEW t \in Track, NEW p \in Payloads, SubmitTransaction(t, p)
      PROVE  \A u \in Track : AnswersKept(u)
  <2>1. request \in [Track -> [Slot -> RequestRow]]
    BY DEF IInv, TypeInv, TypeOK
  <2> QED
    BY <1>1, <2>1 DEF SubmitTransaction, AnswersKept
<1>2. ASSUME NEW h \in Handler, Respond(h) PROVE \A t \in Track : AnswersKept(t)
  <2>1. chain' = chain
    BY <1>2 DEF Respond
  <2>2. \A t \in Track, s \in Slot : request[t][s].status # "pending" =>
                                        request'[t][s].status # "pending"
    BY <1>2, RespondAnswers
  <2> QED
    BY <2>1, <2>2 DEF AnswersKept, Party
<1>3. ASSUME NEW h \in Handler, Execute(h) PROVE \A t \in Track : AnswersKept(t)
  <2>1. request' = request
    BY <1>3 DEF Execute
  <2> QED
    BY <1>3, <2>1, ExecuteAccepts DEF AnswersKept
<1>4. ASSUME UNCHANGED <<request, chain>> PROVE \A t \in Track : AnswersKept(t)
  BY <1>4 DEF AnswersKept
<1>5. ASSUME NEW h \in Handler, Reload(h) \/ LoadTrack(h) \/ Tally(h) \/ Settle(h) \/ Refresh(h)
                                \/ Gather(h) \/ Record(h) \/ Close(h) \/ Fail(h)
      PROVE  UNCHANGED <<request, chain>>
  BY <1>5 DEF Reload, LoadTrack, Tally, Settle, Refresh, Gather, Record, Close, Fail
<1>6. ASSUME NEW h \in Handler, NEW user \in User, NEW t \in Track, NEW s \in Slot,
             NEW approved \in Answers, Lookup(h, user, t, s, approved)
      PROVE  UNCHANGED <<request, chain>>
  BY <1>6 DEF Lookup
<1>7. UNCHANGED vars => UNCHANGED <<request, chain>>
  BY DEF vars
<1> QED
  BY <1>1, <1>2, <1>3, <1>4, <1>5, <1>6, <1>7 DEF Next, Advance

\* An answered track stays answered.
LEMMA AnsweredKept ==
    ASSUME NEW t \in Track, Kept(t), AnswersKept(t), track[t].status # "none", Answered(t)
    PROVE  Answered(t)'
BY DEF Kept, AnswersKept, Answered, Party

\* The tally closes only a track all requests of which are answered.
LEMMA TallyAnswered ==
    ASSUME NEW party, NEW status, NEW before,
           Closed(Verdict(party, status, before)), ~Closed(before)
    PROVE  \A s \in party : status[s] \in {"signed", "denied"}
BY DEF Verdict, Closed

\* What a commit leaves in a column is what was there or what is written.
LEMMA WrittenEither ==
    ASSUME NEW stored, NEW loaded, NEW new
    PROVE  Written(stored, loaded, new) \in {stored, new}
BY DEF Written

\* A step that writes the track of a handler leaves there what was there, the
\* verdict, or the result, as far as outcomes go.
LEMMA TrackWritten ==
    ASSUME IInv, NEW h \in Handler, Settle(h) \/ Record(h) \/ Close(h), NEW t \in Track
    PROVE  /\ \/ track'[t].status = track[t].status
              \/ t = handler[h].t /\ Settle(h) /\ track'[t].status = handler[h].verdict
              \/ t = handler[h].t /\ Record(h)
           /\ \/ track'[t].passed \in {track[t].passed, "failed"}
              \/ t = handler[h].t /\ Record(h) /\ track'[t].passed = handler[h].outcome
           /\ UNCHANGED <<request, chain>>
<1> DEFINE me == handler[h]
<1>0. track \in [Track -> TrackRow] /\ me.t \in Track
  BY DEF IInv, TypeInv, TypeOK, Bound, Settle, Record, Close
<1>1. CASE Settle(h)
  <2> DEFINE status == Written(track[me.t].status, me.row.status, me.verdict)
             row == [track[me.t] EXCEPT !.status = status]
  <2>1. track' = [track EXCEPT ![me.t] = row] /\ UNCHANGED <<request, chain>>
    BY <1>1 DEF Settle
  <2>2. row.status = status /\ row.passed = track[me.t].passed
    BY <1>0 DEF TrackRow
  <2>3. status \in {track[me.t].status, me.verdict}
    BY WrittenEither
  <2> HIDE DEF row, status
  <2> QED
    BY <1>0, <1>1, <2>1, <2>2, <2>3
<1>2. CASE Record(h)
  <2> DEFINE status == Written(track[me.t].status, me.row.status, "signed_and_executed")
             passed == Written(track[me.t].passed, me.row.passed, me.outcome)
             row == [track[me.t] EXCEPT !.status = status, !.passed = passed]
  <2>1. track' = [track EXCEPT ![me.t] = row] /\ UNCHANGED <<request, chain>>
    BY <1>2 DEF Record, Recorded
  <2>2. row.status = status /\ row.passed = passed
    BY <1>0 DEF TrackRow
  <2>3. passed \in {track[me.t].passed, me.outcome}
    BY WrittenEither
  <2> HIDE DEF row, status, passed
  <2> QED
    BY <1>0, <1>2, <2>1, <2>2, <2>3
<1>3. CASE Close(h)
  <2> DEFINE passed == Written(track[me.t].passed, me.row.passed, "failed")
             row == [track[me.t] EXCEPT !.passed = passed]
  <2>1. track' = [track EXCEPT ![me.t] = row] /\ UNCHANGED <<request, chain>>
    BY <1>3 DEF Close
  <2>2. row.status = track[me.t].status /\ row.passed = passed
    BY <1>0 DEF TrackRow
  <2>3. passed \in {track[me.t].passed, "failed"}
    BY WrittenEither
  <2> HIDE DEF row, passed
  <2> QED
    BY <1>0, <1>3, <2>1, <2>2, <2>3
<1> QED
  BY <1>1, <1>2, <1>3

\* Every step keeps the outcome of a track backed by its requests and the chain.
LEMMA OutcomeStep == OInv /\ [Next]_vars => \A t \in Track : OutcomeInv(t)'
<1> SUFFICES ASSUME OInv, [Next]_vars, NEW t \in Track PROVE OutcomeInv(t)'
  OBVIOUS
<1>0. /\ track \in [Track -> TrackRow]
      /\ request \in [Track -> [Slot -> RequestRow]]
      /\ IInv /\ OutcomeInv(t) /\ TableInv(t)
      /\ Kept(t) /\ AnswersKept(t)
      /\ \A h \in Handler : AnswerInv(h)
      /\ \A h \in Handler : handler[h].pc # "idle" => track[handler[h].t].status # "none"
  BY KeptStep, AnswersKeptStep DEF OInv, IInv, TypeInv, TypeOK, HandlerInv
<1>1. ASSUME NEW u \in Track, NEW p \in Payloads, SubmitTransaction(u, p)
      PROVE  OutcomeInv(t)'
  <2>1. CASE u = t
    <3>1. track'[t].status = "pending_signers" /\ track'[t].passed = "unset"
      BY <1>0, <1>1, <2>1 DEF SubmitTransaction
    <3> QED
      BY <3>1 DEF OutcomeInv, Closed
  <2>2. CASE u # t
    <3>1. track'[t] = track[t] /\ request'[t] = request[t] /\ chain' = chain
      BY <1>0, <1>1, <2>2 DEF SubmitTransaction
    <3> QED
      BY <1>0, <3>1 DEF OutcomeInv, Answered, Party
  <2> QED
    BY <2>1, <2>2
\* The track stays as it is.
<1>2. ASSUME track'[t] = track[t] PROVE OutcomeInv(t)'
  <2>1. CASE track[t].status = "none"
    <3>1. ~Closed(track'[t].status)
      BY <1>2, <2>1 DEF Closed
    <3>2. track[t].passed = "passed" => chain'[t].accepted
      BY <1>0 DEF OutcomeInv, AnswersKept
    <3> QED
      BY <1>2, <3>1, <3>2 DEF OutcomeInv
  <2>2. CASE track[t].status # "none"
    BY <1>0, <1>2, <2>2, AnsweredKept DEF OutcomeInv, AnswersKept
  <2> QED
    BY <2>1, <2>2
<1>3. ASSUME NEW h \in Handler, Settle(h) \/ Record(h) \/ Close(h) PROVE OutcomeInv(t)'
  <2> DEFINE me == handler[h]
  <2>1. /\ me.pc # "idle" /\ AnswerInv(h)
        /\ Settle(h) => me.pc = "settle"
        /\ Record(h) => me.pc = "record"
    BY <1>0, <1>3 DEF Settle, Record, Close
  <2>2. UNCHANGED <<request, chain>> /\ Answered(t)' = Answered(t)
    BY <1>0, <1>3, TrackWritten DEF Answered, Party
  <2>3. Closed(track'[t].status) => Answered(t)
    BY <1>0, <1>3, <2>1, TrackWritten DEF OutcomeInv, AnswerInv
  <2>4. track'[t].passed = "passed" => chain[t].accepted
    BY <1>0, <1>3, <2>1, TrackWritten DEF OutcomeInv, AnswerInv
  <2> QED
    BY <2>2, <2>3, <2>4 DEF OutcomeInv
<1>4. ASSUME NEW h \in Handler, Respond(h) \/ Reload(h) \/ LoadTrack(h) \/ Tally(h)
                                \/ Refresh(h) \/ Gather(h) \/ Execute(h) \/ Fail(h)
      PROVE  track' = track
  BY <1>4 DEF Respond, Reload, LoadTrack, Tally, Refresh, Gather, Execute, Fail
<1>5. ASSUME NEW h \in Handler, NEW user \in User, NEW u \in Track, NEW s \in Slot,
             NEW approved \in Answers, Lookup(h, user, u, s, approved)
      PROVE  track' = track
  BY <1>5 DEF Lookup
<1>6. UNCHANGED vars => track' = track
  BY DEF vars
<1> QED
  BY <1>1, <1>2, <1>3, <1>4, <1>5, <1>6 DEF Next, Advance

\* What a handler holds stays backed while it does not move.
LEMMA AnswerKept ==
    ASSUME IInv, \A t \in Track : Kept(t) /\ AnswersKept(t),
           NEW h \in Handler, AnswerInv(h), handler'[h] = handler[h]
    PROVE  AnswerInv(h)'
<1> DEFINE me == handler[h]
<1> SUFFICES ASSUME me.pc # "idle" PROVE AnswerInv(h)'
  BY DEF AnswerInv
<1>1. me.t \in Track /\ track[me.t].status # "none" /\ me.s \in Party(me.t)
  BY DEF IInv, TypeInv, Bound, HandlerInv
<1>2. Answered(me.t) => Answered(me.t)'
  BY <1>1, AnsweredKept
<1>3. request[me.t][me.s].status # "pending" => request'[me.t][me.s].status # "pending"
  BY <1>1 DEF AnswersKept
<1>4. chain[me.t].accepted => chain'[me.t].accepted
  BY <1>1 DEF AnswersKept
<1> QED
  BY <1>2, <1>3, <1>4 DEF AnswerInv

\* Every step keeps what each handler has counted backed by the tables.
LEMMA AnswerStep == OInv /\ [Next]_vars => \A h \in Handler : AnswerInv(h)'
<1> SUFFICES ASSUME OInv, [Next]_vars, NEW h \in Handler PROVE AnswerInv(h)'
  OBVIOUS
<1> DEFINE me == handler[h]
<1>0. /\ request \in [Track -> [Slot -> RequestRow]]
      /\ handler \in [Handler -> HandlerRecord]
      /\ IInv
      /\ \A t \in Track : OutcomeInv(t) /\ Kept(t) /\ AnswersKept(t)
      /\ me.pc # "idle" => /\ me \in HandlerRecord
                           /\ me.t \in Track /\ me.s \in Slot
                           /\ HandlerInv(h) /\ AnswerInv(h)
      /\ AnswerInv(h)
  BY KeptStep, AnswersKeptStep DEF OInv, IInv, TypeInv, TypeOK, Bound
<1>1. CASE handler'[h] = me
  BY <1>0, <1>1, AnswerKept
<1>2. CASE handler'[h].pc = "idle"
  BY <1>2 DEF AnswerInv
\* The steps that begin a phase in which nothing is counted.
<1>3. ASSUME handler'[h].pc \in {"respond", "reload", "refresh"}, handler'[h].own = NoRequest
      PROVE  AnswerInv(h)'
  BY <1>3 DEF AnswerInv, NoRequest
<1>4. ASSUME NEW user \in User, NEW t \in Track, NEW s \in Slot, NEW approved \in Answers,
             Lookup(h, user, t, s, approved)
      PROVE  AnswerInv(h)'
  <2>1. handler'[h].pc = "respond" /\ handler'[h].own = NoRequest
    BY <1>0, <1>4 DEF Lookup, Idle
  <2> QED
    BY <1>3, <2>1
<1>5. ASSUME Respond(h) PROVE AnswerInv(h)'
  <2>1. /\ me.pc = "respond" /\ handler'[h].pc = "reload" /\ handler'[h].own = me.own
        /\ handler'[h].t = me.t /\ handler'[h].s = me.s
    BY <1>0, <1>5 DEF Respond, HandlerRecord
  <2>2. me.t \in Track /\ me.s \in Party(me.t) /\ track[me.t].status # "none"
    BY <1>0, <2>1 DEF HandlerInv
  <2>3. request[me.t][me.s].status # "pending" => request'[me.t][me.s].status # "pending"
    BY <1>0, <2>2 DEF AnswersKept
  <2> QED
    BY <1>0, <2>1, <2>3 DEF AnswerInv
\* The steps that only load.
<1>6. ASSUME UNCHANGED <<request, chain>>, me.pc # "idle",
             handler'[h].t = me.t, handler'[h].s = me.s,
             handler'[h].own.status \in {"signed", "denied"}
                => request[me.t][me.s].status # "pending",
             handler'[h].pc = "tally" => ~Closed(handler'[h].row.status),
             handler'[h].pc = "settle" /\ Closed(handler'[h].verdict) => Answered(me.t),
             handler'[h].pc \in {"gather", "execute"} => Answered(me.t),
             handler'[h].pc # "record"
      PROVE  AnswerInv(h)'
  <2>1. Answered(me.t)' = Answered(me.t)
    BY <1>6 DEF Answered, Party
  <2> QED
    BY <1>6, <2>1 DEF AnswerInv
<1>7. ASSUME Reload(h) PROVE AnswerInv(h)'
  <2>1. /\ me.pc = "reload" /\ UNCHANGED <<request, chain>>
        /\ handler'[h].pc = "load" /\ handler'[h].t = me.t /\ handler'[h].s = me.s
        /\ handler'[h].own = request[me.t][me.s]
    BY <1>0, <1>7 DEF Reload, HandlerRecord
  <2> QED
    BY <1>6, <2>1
<1>8. ASSUME NEW pc \in PC, Continue(h, pc, track[me.t]), me.pc # "idle",
             UNCHANGED <<request, chain>>,
             pc \in {"idle", "gather", "close"} \/ (pc = "tally" /\ ~Closed(track[me.t].status)),
             pc = "gather" => track[me.t].status = "signed"
      PROVE  AnswerInv(h)'
  <2>1. CASE pc = "idle"
    BY <1>0, <1>2, <1>8, <2>1 DEF Continue, Idle
  <2>2. CASE pc # "idle"
    <3>1. /\ handler'[h].pc = pc /\ handler'[h].t = me.t /\ handler'[h].s = me.s
          /\ handler'[h].own = me.own /\ handler'[h].row = track[me.t]
      BY <1>0, <1>8, <2>2 DEF Continue, HandlerRecord
    <3>2. me.own.status \in {"signed", "denied"} => request[me.t][me.s].status # "pending"
      BY <1>0, <1>8 DEF AnswerInv
    <3>3. pc = "gather" => Answered(me.t)
      BY <1>0, <1>8 DEF OutcomeInv, Closed
    <3> QED
      BY <1>6, <1>8, <2>2, <3>1, <3>2, <3>3
  <2> QED
    BY <2>1, <2>2
<1>9. ASSUME LoadTrack(h) PROVE AnswerInv(h)'
  BY <1>8, <1>9 DEF LoadTrack, ProcessTracker, Closed, PC
<1>10. ASSUME Refresh(h) PROVE AnswerInv(h)'
  BY <1>8, <1>10 DEF Refresh, ProcessTracker, PC
<1>11. ASSUME Tally(h) PROVE AnswerInv(h)'
  <2> DEFINE status == [s \in Slot |-> IF s = me.s THEN me.own.status
                                                   ELSE request[me.t][s].status]
             verdict == Verdict(Party(me.t), status, me.row.status)
  <2>1. /\ me.pc = "tally" /\ UNCHANGED <<request, chain>>
        /\ handler'[h].pc = "settle" /\ handler'[h].t = me.t /\ handler'[h].s = me.s
        /\ handler'[h].own = me.own /\ handler'[h].verdict = verdict
    BY <1>0, <1>11 DEF Tally, HandlerRecord
  <2>2. /\ ~Closed(me.row.status)
        /\ me.own.status \in {"signed", "denied"} => request[me.t][me.s].status # "pending"
    BY <1>0, <2>1 DEF AnswerInv
  <2>3. ASSUME Closed(verdict) PROVE Answered(me.t)
    <3>1. \A s \in Party(me.t) : status[s] \in {"signed", "denied"}
      <4> HIDE DEF status
      <4> QED
        BY <2>2, <2>3, TallyAnswered
    <3> QED
      BY <2>2, <3>1 DEF Answered, Party
  <2> HIDE DEF verdict
  <2> QED
    BY <1>6, <2>1, <2>2, <2>3
<1>12. ASSUME Settle(h) PROVE AnswerInv(h)'
  <2>1. me.pc = "settle" /\ handler'[h].pc = "refresh" /\ handler'[h].own = NoRequest
    BY <1>0, <1>12 DEF Settle, HandlerRecord
  <2> QED
    BY <1>3, <2>1
<1>13. ASSUME Gather(h) PROVE AnswerInv(h)'
  <2>1. me.pc = "gather" /\ UNCHANGED <<request, chain>>
    BY <1>13 DEF Gather
  <2>2. CASE handler' = [handler EXCEPT ![h] = Idle]
    BY <1>0, <1>2, <2>2 DEF Idle
  <2>3. CASE handler' # [handler EXCEPT ![h] = Idle]
    <3>1. /\ handler'[h].pc = "execute" /\ handler'[h].t = me.t /\ handler'[h].s = me.s
          /\ handler'[h].own = me.own
      BY <1>0, <1>13, <2>1, <2>3 DEF Gather, HandlerRecord
    <3> QED
      BY <1>0, <1>6, <2>1, <3>1 DEF AnswerInv
  <2> QED
    BY <2>2, <2>3
<1>14. ASSUME Execute(h) PROVE AnswerInv(h)'
  <2>1. /\ me.pc = "execute" /\ request' = request
        /\ handler'[h].pc = "record" /\ handler'[h].t = me.t /\ handler'[h].s = me.s
        /\ handler'[h].own = me.own
    BY <1>0, <1>14 DEF Execute, HandlerRecord
  <2>2. handler'[h].outcome = "passed" => chain'[me.t].accepted
    BY <1>0, <1>14, ExecuteAccepts
  <2>3. Answered(me.t)'
    BY <1>0, <2>1 DEF AnswerInv, Answered, Party
  <2> QED
    BY <1>0, <2>1, <2>2, <2>3 DEF AnswerInv
<1>15. ASSUME Record(h) \/ Close(h) \/ Fail(h) PROVE AnswerInv(h)'
  BY <1>0, <1>2, <1>15 DEF Record, Close, Fail, Idle

\* Everything else leaves the record of h alone.
<1>16. ASSUME NEW g \in Handler, g # h, Advance(g) \/ Fail(g) PROVE handler'[h] = me
  BY <1>0, <1>16 DEF Advance, Respond, Reload, LoadTrack, Tally, Settle, Refresh, Gather,
        Execute, Record, Close, Fail, Continue
<1>17. ASSUME NEW g \in Handler, g # h,
              NEW user \in User, NEW t \in Track, NEW s \in Slot, NEW approved \in Answers,
              Lookup(g, user, t, s, approved)
       PROVE  handler'[h] = me
  BY <1>0, <1>17 DEF Lookup
<1>18. ASSUME NEW t \in Track, NEW p \in Payloads, SubmitTransaction(t, p)
       PROVE  handler'[h] = me
  BY <1>18 DEF SubmitTransaction
<1>19. UNCHANGED vars => handler'[h] = me
  BY DEF vars
<1> QED
  BY <1>1, <1>4, <1>5, <1>7, <1>9, <1>10, <1>11, <1>12, <1>13, <1>14, <1>15, <1>16,
     <1>17, <1>18, <1>19 DEF Next, Advance

\* The invariant is inductive.
LEMMA OInvStep == OInv /\ [Next]_vars => OInv'
BY ConsentStep, OutcomeStep, AnswerStep DEF OInv

\* It holds of the service.
LEMMA OInvHolds == Spec => []OInv
BY OutcomeInit, OInvStep, PTL DEF Spec

\* A result that says passed was accepted by the chain, also when handlers
\* overtake each other and overwrite the track.
THEOREM PassedWasAccepted ==
    Spec => [](\A t \in Track : track[t].passed = "passed" => chain[t].accepted)
<1>1. OInv => \A t \in Track : track[t].passed = "passed" => chain[t].accepted
  BY DEF OInv, OutcomeInv
<1> QED
  BY OInvHolds, <1>1, PTL

-----------------------------------------------------------------------------
(* Weights *)

\* The member rows of m whose user is asked to sign t in a role.
AskedRows(t, m, role) ==
    {i \in DOMAIN Members[m] : [as |-> role, who |-> Members[m][i].user] \in Party(t)}

\* The requests of t are enough for the multisigs it is of.
AsksEnough(t) ==
    \A role \in Role :
        LET m == IF role = "tx_sender" THEN track[t].sender ELSE track[t].sponsor
        IN  m \in Msig => WeightOf(m, AskedRows(t, m, role)) >= Threshold[m]

WInv == IInv /\ \A t \in Track : track[t].status # "none" => AsksEnough(t)

\* The requests that are posted for an accepted multisig are those of the rows
\* that were weighed.
LEMMA PostedAreWeighed ==
    ASSUME NEW p \in Payloads, Accepted(p.sender), Accepted(p.sponsor), NEW role \in Role,
           NEW m \in Msig,
           m = IF role = "tx_sender" THEN AccountOf(p.sender, p.requestor)
                                     ELSE AccountOf(p.sponsor, None)
    PROVE  WeightOf(m, {i \in DOMAIN Members[m] :
                            [as |-> role, who |-> Members[m][i].user] \in PartyOf(p)})
                >= Threshold[m]
<1> DEFINE e == IF role = "tx_sender" THEN p.sender ELSE p.sponsor
           rows == {i \in DOMAIN Members[m] :
                        [as |-> role, who |-> Members[m][i].user] \in PartyOf(p)}
<1>1. p.requestor \in User /\ p.sender \in Entry /\ p.sponsor \in Entry
  BY SigningAssumption DEF Payload
<1>2. m \notin User /\ m # None
  BY PrincipalAssumption DEF Principal
<1>3. e \in Entry /\ Accepted(e)
  BY <1>1
<1>4. e.kind = "msig" /\ m = e.msig
  <2>1. e.kind \in {"default", "user", "msig"} /\ (e.kind = "user" => e.user \in User)
    BY <1>3 DEF Entry
  <2> QED
    BY <1>1, <1>2, <2>1 DEF AccountOf
<1>5. ValidMultisig(m, e.signers) /\ e.signers # <<>>
  BY <1>3, <1>4 DEF Accepted
<1>6. NamedWeight(m, e.signers) >= Threshold[m]
  BY <1>5 DEF ValidMultisig
<1>7. SignersOf(e, {p.requestor}) = {Members[m][i].user : i \in Named(m, e.signers)}
      /\ SignersOf(e, {}) = SignersOf(e, {p.requestor})
  BY <1>4 DEF SignersOf
<1>8. \A u : [as |-> role, who |-> u] \in PartyOf(p) <=> u \in SignersOf(e, {})
  <2>1. CASE role = "tx_sender"
    BY <1>7, <2>1 DEF PartyOf
  <2>2. CASE role = "tx_sponsor"
    BY <1>7, <2>2 DEF PartyOf
  <2> QED
    BY <2>1, <2>2 DEF Role
<1> HIDE DEF e
<1>9. rows = Named(m, e.signers)
  <2>1. \A i, j \in DOMAIN Members[m] : Members[m][i].user = Members[m][j].user => i = j
    BY MembersAssumption
  <2>2. Named(m, e.signers) \subseteq DOMAIN Members[m]
    BY DEF Named
  <2> QED
    BY <1>7, <1>8, <2>1, <2>2
<1> HIDE DEF rows
<1>10. WeightOf(m, rows) >= Threshold[m]
  BY <1>6, <1>9 DEF NamedWeight
<1> QED
  BY <1>10 DEF rows

\* A track keeps its accounts.
LEMMA PrincipalsKept ==
    IInv /\ [Next]_vars => \A t \in Track : track[t].status # "none" =>
        track'[t].sender = track[t].sender /\ track'[t].sponsor = track[t].sponsor
<1> SUFFICES ASSUME IInv, [Next]_vars, NEW t \in Track, track[t].status # "none"
             PROVE  track'[t].sender = track[t].sender /\ track'[t].sponsor = track[t].sponsor
  OBVIOUS
<1>0. track \in [Track -> TrackRow] /\ track[t] \in TrackRow
  BY DEF IInv, TypeInv, TypeOK
<1>1. ASSUME NEW u \in Track, NEW p \in Payloads, SubmitTransaction(u, p)
      PROVE  track'[t] = track[t]
  BY <1>0, <1>1 DEF SubmitTransaction
<1>2. ASSUME NEW u, NEW status, NEW passed,
             track' = [track EXCEPT ![u] = [track[u] EXCEPT !.status = status, !.passed = passed]]
      PROVE  track'[t].sender = track[t].sender /\ track'[t].sponsor = track[t].sponsor
  <2>1. CASE u = t
    BY <1>0, <1>2, <2>1 DEF TrackRow
  <2>2. CASE u # t
    BY <1>0, <1>2, <2>2
  <2> QED
    BY <2>1, <2>2
<1>3. ASSUME NEW h \in Handler, Settle(h)
      PROVE  track'[t].sender = track[t].sender /\ track'[t].sponsor = track[t].sponsor
  <2>1. \E status : track' = [track EXCEPT ![handler[h].t].status = status]
    BY <1>3 DEF Settle
  <2> QED
    BY <1>0, <2>1 DEF TrackRow
<1>4. ASSUME NEW h \in Handler, Close(h)
      PROVE  track'[t].sender = track[t].sender /\ track'[t].sponsor = track[t].sponsor
  <2>1. \E passed : track' = [track EXCEPT ![handler[h].t].passed = passed]
    BY <1>4 DEF Close
  <2> QED
    BY <1>0, <2>1 DEF TrackRow
<1>5. ASSUME NEW h \in Handler, Record(h)
      PROVE  track'[t].sender = track[t].sender /\ track'[t].sponsor = track[t].sponsor
  <2>1. \E status, passed : track' = [track EXCEPT ![handler[h].t] =
                [track[handler[h].t] EXCEPT !.status = status, !.passed = passed]]
    BY <1>5 DEF Record, Recorded
  <2> QED
    BY <1>2, <2>1
<1>6. ASSUME NEW h \in Handler, Respond(h) \/ Reload(h) \/ LoadTrack(h) \/ Tally(h) \/ Refresh(h)
                                \/ Gather(h) \/ Execute(h) \/ Fail(h)
      PROVE  track' = track
  BY <1>6 DEF Respond, Reload, LoadTrack, Tally, Refresh, Gather, Execute, Fail
<1>7. ASSUME NEW h \in Handler, NEW user \in User, NEW u \in Track, NEW s \in Slot,
             NEW approved \in Answers, Lookup(h, user, u, s, approved)
      PROVE  track' = track
  BY <1>7 DEF Lookup
<1>8. UNCHANGED vars => track' = track
  BY DEF vars
<1> QED
  BY <1>1, <1>3, <1>4, <1>5, <1>6, <1>7, <1>8 DEF Next, Advance

\* Only accounts are asked.
LEMMA AsksUsers == \A p \in Payloads : PartyOf(p) \subseteq Slot
<1> SUFFICES ASSUME NEW p \in Payloads PROVE PartyOf(p) \subseteq Slot
  OBVIOUS
<1>1. p.requestor \in User /\ p.sender \in Entry /\ p.sponsor \in Entry
  BY SigningAssumption DEF Payload
<1>2. ASSUME NEW e \in Entry, NEW default \in SUBSET User
      PROVE  SignersOf(e, default) \subseteq User
  <2>1. CASE e.kind = "msig"
    <3>1. e.msig \in Msig
      BY <1>2, <2>1 DEF Entry
    <3>2. \A i \in DOMAIN Members[e.msig] : Members[e.msig][i] \in MemberRow
      BY <3>1, MembersAssumption
    <3> QED
      BY <2>1, <3>2 DEF SignersOf, Named, MemberRow
  <2>2. CASE e.kind = "user"
    BY <1>2, <2>2 DEF SignersOf, Entry
  <2>3. CASE e.kind = "default"
    BY <2>3 DEF SignersOf
  <2> QED
    BY <1>2, <2>1, <2>2, <2>3 DEF Entry
<1>3. SignersOf(p.sender, {p.requestor}) \subseteq User /\ SignersOf(p.sponsor, {}) \subseteq User
  BY <1>1, <1>2
<1> QED
  BY <1>3 DEF PartyOf, Slot, Role

\* Only a submission begins a transaction.
LEMMA OnlySubmitted ==
    ASSUME IInv, [Next]_vars, NEW t \in Track, track[t].status = "none",
           track'[t].status # "none"
    PROVE  \E p \in Payloads : SubmitTransaction(t, p)
<1>0. /\ track \in [Track -> TrackRow]
      /\ \A h \in Handler : handler[h].pc # "idle" => track[handler[h].t].status # "none"
  BY DEF IInv, TypeInv, TypeOK, HandlerInv
<1>1. ASSUME NEW u \in Track, NEW p \in Payloads, SubmitTransaction(u, p)
      PROVE  t = u
  BY <1>0, <1>1 DEF SubmitTransaction
<1>2. ASSUME NEW h \in Handler, Settle(h) \/ Record(h) \/ Close(h)
      PROVE  FALSE
  <2>1. handler[h].t # t
    BY <1>0, <1>2 DEF Settle, Record, Close
  <2>2. track'[t] = track[t]
    BY <1>0, <1>2, <2>1 DEF Settle, Record, Close
  <2> QED
    BY <2>2
<1>3. ASSUME NEW h \in Handler, Respond(h) \/ Reload(h) \/ LoadTrack(h) \/ Tally(h) \/ Refresh(h)
                                \/ Gather(h) \/ Execute(h) \/ Fail(h)
      PROVE  track' = track
  BY <1>3 DEF Respond, Reload, LoadTrack, Tally, Refresh, Gather, Execute, Fail
<1>4. ASSUME NEW h \in Handler, NEW user \in User, NEW u \in Track, NEW s \in Slot,
             NEW approved \in Answers, Lookup(h, user, u, s, approved)
      PROVE  track' = track
  BY <1>4 DEF Lookup
<1>5. UNCHANGED vars => track' = track
  BY DEF vars
<1> QED
  BY <1>1, <1>2, <1>3, <1>4, <1>5 DEF Next, Advance

\* The requests of a transaction are posted with it.
LEMMA PartyPosted ==
    ASSUME IInv, NEW t \in Track, NEW p \in Payloads, SubmitTransaction(t, p)
    PROVE  Party(t)' = PartyOf(p)
<1>1. /\ request \in [Track -> [Slot -> RequestRow]]
      /\ request' = [request EXCEPT ![t] =
            [s \in Slot |-> IF s \in PartyOf(p) THEN [status |-> "pending", signature |-> None]
                                              ELSE NoRequest]]
  BY DEF IInv, TypeInv, TypeOK, SubmitTransaction
<1>2. Party(t)' = {s \in Slot : s \in PartyOf(p)}
  BY <1>1 DEF Party, NoRequest
<1>3. PartyOf(p) \subseteq Slot
  BY AsksUsers
<1> QED
  BY <1>2, <1>3

\* A transaction that was submitted keeps asking for enough signatures.
LEMMA WInvStep == WInv /\ [Next]_vars => WInv'
<1> SUFFICES ASSUME WInv, [Next]_vars PROVE WInv'
  OBVIOUS
<1>1. IInv /\ IInv'
  BY ConsentStep DEF WInv
<1>2. ASSUME NEW t \in Track, track[t].status # "none" PROVE AsksEnough(t)'
  <2>1. AsksEnough(t)
    BY <1>2 DEF WInv
  <2>2. Party(t)' = Party(t)
    BY <1>1, <1>2, KeptStep DEF Kept
  <2>3. \A m, role : AskedRows(t, m, role)' = AskedRows(t, m, role)
    BY <2>2 DEF AskedRows
  <2>4. track'[t].sender = track[t].sender /\ track'[t].sponsor = track[t].sponsor
    BY <1>1, <1>2, PrincipalsKept
  <2> QED
    BY <2>1, <2>3, <2>4 DEF AsksEnough
<1>3. ASSUME NEW t \in Track, track[t].status = "none", track'[t].status # "none"
      PROVE  AsksEnough(t)'
  <2>1. PICK p \in Payloads : SubmitTransaction(t, p)
    BY <1>1, <1>3, OnlySubmitted
  <2>2. /\ Accepted(p.sender) /\ Accepted(p.sponsor)
        /\ track'[t].sender = AccountOf(p.sender, p.requestor)
        /\ track'[t].sponsor = AccountOf(p.sponsor, None)
    BY <1>1, <2>1 DEF SubmitTransaction, IInv, TypeInv, TypeOK
  <2>3. Party(t)' = PartyOf(p)
    BY <1>1, <2>1, PartyPosted
  <2> QED
    BY <2>2, <2>3, PostedAreWeighed DEF AsksEnough, AskedRows
<1> QED
  BY <1>1, <1>2, <1>3 DEF WInv

LEMMA WInvHolds == Spec => []WInv
<1>1. Init => WInv
  BY ConsentInit DEF Init, WInv, NoTrack
<1> QED
  BY <1>1, WInvStep, PTL DEF Spec

\* The signatures that are posted when a transaction was sent carry the weight
\* its multisigs need, with any number of members and handlers: what was weighed
\* were the names in the payload (_valid_multisig_account), their accounts are
\* the ones that were asked, and it was sent because every one of them signed.
THEOREM SubmissionMeetsThresholdHolds == Spec => []SubmissionMeetsThreshold
<1>1. WInv => SubmissionMeetsThreshold
  <2> SUFFICES ASSUME WInv, NEW t \in Track, chain[t].submitted > 0, NEW role \in Role,
                      NEW m \in Msig,
                      m = IF role = "tx_sender" THEN track[t].sender ELSE track[t].sponsor
               PROVE  WeightOf(m, SignedRows(t, m, role)) >= Threshold[m]
    BY DEF SubmissionMeetsThreshold
  <2>1. chain[t].submitted # 0
    BY DEF WInv, IInv, TypeInv, TypeOK
  <2>2. track[t].status # "none" /\ Consented(t)
    BY <2>1 DEF WInv, IInv, TableInv
  <2>3. WeightOf(m, AskedRows(t, m, role)) >= Threshold[m]
    BY <2>2 DEF WInv, AsksEnough
  <2>4. SignedRows(t, m, role) = AskedRows(t, m, role)
    BY <2>2 DEF SignedRows, AskedRows, Consented
  <2> QED
    BY <2>3, <2>4
<1> QED
  BY WInvHolds, <1>1, PTL
=============================================================================
