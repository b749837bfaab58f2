---------------------------- MODULE ReportsProofs ----------------------------
(***************************************************************************)
(* Theorems about Reports: what a report shows is backed by what happened, *)
(* although its rows are read one statement after the other while the      *)
(* handlers of Signing commit.  What the track said when it was read holds *)
(* from then on, because no step takes back a signature, an answer or that *)
(* the chain accepted.                                                     *)
(***************************************************************************)
EXTENDS Reports, OutcomeProofs

\* The track that was read is backed now, and so are the requests read after it.
ReaderInv(r) ==
    LET me == reader[r]
    IN  /\ me.pc \in {"signers", "shown"} =>
                /\ me.t \in Track
                /\ me.row.status # "none" => track[me.t].status # "none"
                /\ Closed(me.row.status) => Answered(me.t)
                /\ me.row.status \in Approved => Consented(me.t)
                /\ me.row.passed = "passed" => chain[me.t].accepted
        /\ me.pc = "shown" => \A s \in ReadAfter(me) :
                /\ Closed(me.row.status) => me.signers[s].status # "pending"
                /\ me.row.status \in Approved => me.signers[s].signature = s.who

RInv ==
    /\ OInv
    /\ ReaderTypeOK
    /\ \A r \in Reader : ReaderInv(r)

\* No report is under way at first.
LEMMA ReportsInitial == ReportsInit => RInv
<1> SUFFICES ASSUME ReportsInit PROVE RInv
  OBVIOUS
<1>1. OInv
  BY OutcomeInit DEF ReportsInit
<1>2. NoReport \in ReaderRecord
  BY IdleTyped DEF NoReport, ReaderRecord, Unread
<1>3. ReaderTypeOK
  BY <1>2 DEF ReportsInit, ReaderTypeOK
<1>4. \A r \in Reader : ReaderInv(r)
  BY DEF ReportsInit, ReaderInv, NoReport
<1> QED
  BY <1>1, <1>3, <1>4 DEF RInv

\* The steps of Signing leave the readers alone and what they hold backed.
LEMMA SigningStep ==
    ASSUME RInv, [Next]_vars, UNCHANGED reader
    PROVE  RInv'
<1>1. OInv' /\ ReaderTypeOK'
  BY OInvStep DEF RInv, ReaderTypeOK
<1>2. ASSUME NEW r \in Reader PROVE ReaderInv(r)'
  <2> DEFINE me == reader[r]
  <2>1. ReaderInv(r) /\ ReadAfter(me)' = ReadAfter(me)
    BY DEF RInv, ReadAfter
  <2>2. ASSUME me.pc \in {"signers", "shown"}
        PROVE  /\ me.row.status # "none" => track'[me.t].status # "none"
               /\ Closed(me.row.status) => Answered(me.t)'
               /\ me.row.status \in Approved => Consented(me.t)'
               /\ me.row.passed = "passed" => chain'[me.t].accepted
    <3>1. me.t \in Track
      BY <2>1, <2>2 DEF ReaderInv
    <3>2. Kept(me.t) /\ AnswersKept(me.t)
      BY <3>1, KeptStep, AnswersKeptStep DEF RInv, OInv
    <3>3. me.row.status \in Approved \/ Closed(me.row.status) => track[me.t].status # "none"
      BY <2>1, <2>2 DEF ReaderInv, Closed, Approved
    <3>4. Closed(me.row.status) => Answered(me.t)'
      BY <2>1, <2>2, <3>1, <3>2, <3>3, AnsweredKept DEF ReaderInv
    <3>5. me.row.status \in Approved => Consented(me.t)'
      BY <2>1, <2>2, <3>1, <3>2, <3>3, ConsentKept DEF ReaderInv
    <3> QED
      BY <2>1, <2>2, <3>2, <3>4, <3>5 DEF ReaderInv, Kept, AnswersKept
  <2> QED
    BY <2>1, <2>2 DEF ReaderInv
<1> QED
  BY <1>1, <1>2 DEF RInv

\* A step of a reader keeps the records typed.
LEMMA ReaderTyped ==
    ASSUME RInv, NEW r \in Reader, ReaderStep(r)
    PROVE  ReaderTypeOK'
<1> DEFINE me == reader[r]
<1>0. /\ reader \in [Reader -> ReaderRecord] /\ me \in ReaderRecord
      /\ track \in [Track -> TrackRow]
      /\ request \in [Track -> [Slot -> RequestRow]]
      /\ NoRequest \in RequestRow /\ NoTrack \in TrackRow
  BY IdleTyped DEF RInv, ReaderTypeOK, OInv, IInv, TypeInv, TypeOK
<1>1. ASSUME NEW new \in ReaderRecord, reader' = [reader EXCEPT ![r] = new]
      PROVE  ReaderTypeOK'
  BY <1>0, <1>1 DEF ReaderTypeOK
<1>2. Unread \in [Slot -> RequestRow]
  BY <1>0 DEF Unread
<1>3. NoReport \in ReaderRecord
  BY <1>0, <1>2 DEF NoReport, ReaderRecord
<1>4. ASSUME NEW user \in User, NEW filter \in Filters, Query(r, user, filter)
      PROVE  ReaderTypeOK'
  <2> DEFINE left == {t \in Track : \E s \in Slot : Wanted(user, filter, t, s)}
             listed == [t \in Track |-> [s \in Slot |->
                            IF Wanted(user, filter, t, s) THEN request[t][s] ELSE NoRequest]]
             new == [NoReport EXCEPT !.pc = "listed", !.left = left, !.listed = listed]
  <2>1. reader' = [reader EXCEPT ![r] = new]
    BY <1>4 DEF Query
  <2>2. listed \in [Track -> [Slot -> RequestRow]]
    BY <1>0
  <2>3. left \in SUBSET Track
    OBVIOUS
  <2> HIDE DEF left, listed
  <2>4. new \in ReaderRecord
    BY <1>0, <1>2, <2>2, <2>3 DEF NoReport, ReaderRecord
  <2> QED
    BY <1>1, <2>1, <2>4
<1>5. ASSUME ReadTrack(r) PROVE ReaderTypeOK'
  <2>1. PICK t \in me.left :
            reader' = [reader EXCEPT ![r] = [me EXCEPT !.pc = "signers", !.left = me.left \ {t},
                            !.t = t, !.row = track[t], !.signers = Unread]]
    BY <1>0, <1>5 DEF ReadTrack
  <2>2. t \in Track
    BY <1>0, <2>1 DEF ReaderRecord
  <2>3. [me EXCEPT !.pc = "signers", !.left = me.left \ {t}, !.t = t, !.row = track[t],
                   !.signers = Unread] \in ReaderRecord
    BY <1>0, <1>2, <2>2 DEF ReaderRecord
  <2> QED
    BY <1>1, <2>1, <2>3
<1>6. ASSUME ReadSigners(r) PROVE ReaderTypeOK'
  <2> DEFINE signers == SignersRead(me.listed[me.t], request[me.t])
  <2>1. reader' = [reader EXCEPT ![r] = [me EXCEPT !.pc = "shown", !.signers = signers]]
    BY <1>0, <1>6 DEF ReadSigners
  <2>2. me.t \in Track
    BY <1>6 DEF RInv, ReaderInv, ReadSigners
  <2>3. signers \in [Slot -> RequestRow]
    BY <1>0, <2>2 DEF SignersRead, ReaderRecord
  <2> HIDE DEF signers
  <2>4. [me EXCEPT !.pc = "shown", !.signers = signers] \in ReaderRecord
    BY <1>0, <2>3 DEF ReaderRecord
  <2> QED
    BY <1>1, <2>1, <2>4
<1>7. ASSUME SendReport(r) PROVE ReaderTypeOK'
  BY <1>1, <1>3, <1>7 DEF SendReport
<1> QED
  BY <1>4, <1>5, <1>6, <1>7 DEF ReaderStep

\* A step of a reader takes over only what the tables back.
LEMMA ReaderBacked ==
    ASSUME RInv, NEW r \in Reader, ReaderStep(r), UNCHANGED vars
    PROVE  \A q \in Reader : ReaderInv(q)'
<1> DEFINE me == reader[r]
<1>0. /\ reader \in [Reader -> ReaderRecord] /\ me \in ReaderRecord
      /\ request \in [Track -> [Slot -> RequestRow]]
      /\ \A t \in Track : TableInv(t) /\ OutcomeInv(t)
      /\ \A q \in Reader : ReaderInv(q)
      /\ UNCHANGED <<track, request, chain>>
      /\ \A t \in Track : Answered(t)' = Answered(t) /\ Consented(t)' = Consented(t)
  BY DEF RInv, ReaderTypeOK, OInv, IInv, TypeInv, TypeOK, vars, Answered, Consented, Party
<1>1. ASSUME NEW q \in Reader, reader'[q] = reader[q] PROVE ReaderInv(q)'
  <2>1. ReadAfter(reader[q])' = ReadAfter(reader[q])
    BY <1>1 DEF ReadAfter
  <2> QED
    BY <1>0, <1>1, <2>1 DEF ReaderInv
<1>2. ASSUME NEW q \in Reader, q # r PROVE reader'[q] = reader[q]
  BY <1>0, <1>2 DEF ReaderStep, Query, ReadTrack, ReadSigners, SendReport
<1>3. ReaderInv(r)'
  <2>1. ASSUME reader'[r].pc \in {"idle", "listed"} PROVE ReaderInv(r)'
    BY <2>1 DEF ReaderInv
  <2>2. ASSUME NEW user \in User, NEW filter \in Filters, Query(r, user, filter)
        PROVE  reader'[r].pc = "listed"
    BY <1>0, <2>2 DEF Query, NoReport
  <2>3. SendReport(r) => reader'[r].pc = "idle"
    BY <1>0 DEF SendReport, NoReport
  <2>4. ASSUME ReadTrack(r) PROVE ReaderInv(r)'
    <3>1. PICK t \in me.left : /\ reader'[r].pc = "signers" /\ reader'[r].t = t
                               /\ reader'[r].row = track[t]
      BY <1>0, <2>4 DEF ReadTrack, ReaderRecord
    <3>2. t \in Track
      BY <1>0, <3>1 DEF ReaderRecord
    <3>3. /\ Closed(track[t].status) => Answered(t)
          /\ track[t].status \in Approved => Consented(t)
          /\ track[t].passed = "passed" => chain[t].accepted
      BY <1>0, <3>2 DEF TableInv, OutcomeInv
    <3> QED
      BY <1>0, <3>1, <3>2, <3>3 DEF ReaderInv
  <2>5. ASSUME ReadSigners(r) PROVE ReaderInv(r)'
    <3>1. /\ me.pc = "signers" /\ me.t \in Track
          /\ reader'[r].pc = "shown" /\ reader'[r].t = me.t /\ reader'[r].row = me.row
          /\ reader'[r].listed = me.listed
          /\ reader'[r].signers = SignersRead(me.listed[me.t], request[me.t])
      BY <1>0, <2>5 DEF ReadSigners, ReaderRecord, ReaderInv
    <3>2. ASSUME NEW s \in Slot, s \in ReadAfter(reader[r])'
          PROVE  /\ reader'[r].signers[s] = request[me.t][s]
                 /\ request[me.t][s] # NoRequest
      BY <3>1, <3>2 DEF ReadAfter, SignersRead
    <3>3. ASSUME NEW s \in Slot, request[me.t][s] # NoRequest
          PROVE  /\ Answered(me.t) => request[me.t][s].status # "pending"
                 /\ Consented(me.t) => request[me.t][s].signature = s.who
      <4>1. CASE s \in Party(me.t)
        BY <4>1 DEF Answered, Consented
      <4>2. CASE s \notin Party(me.t)
        <5>1. request[me.t][s].status = "none"
          BY <4>2 DEF Party
        <5>2. request[me.t][s].signature # None
          BY <1>0, <3>1, <3>3, <5>1 DEF NoRequest, RequestRow
        <5> QED
          BY <1>0, <3>1, <5>1, <5>2 DEF TableInv
      <4> QED
        BY <4>1, <4>2
    <3>4. \A s \in ReadAfter(reader[r])' : s \in Slot
      BY DEF ReadAfter
    <3>5. ASSUME NEW s \in ReadAfter(reader[r])'
          PROVE  /\ Closed(me.row.status) => reader'[r].signers[s].status # "pending"
                 /\ me.row.status \in Approved => reader'[r].signers[s].signature = s.who
      BY <1>0, <3>1, <3>2, <3>3, <3>4 DEF ReaderInv
    <3> QED
      BY <1>0, <3>1, <3>5 DEF ReaderInv
  <2> QED
    BY <2>1, <2>2, <2>3, <2>4, <2>5 DEF ReaderStep
<1> QED
  BY <1>1, <1>2, <1>3

\* The invariant is inductive.
LEMMA RInvStep == RInv /\ [ReportsNext]_reportVars => RInv'
<1> SUFFICES ASSUME RInv, [ReportsNext]_reportVars PROVE RInv'
  OBVIOUS
<1>1. CASE [Next]_vars /\ UNCHANGED reader
  BY <1>1, SigningStep
<1>2. ASSUME NEW r \in Reader, ReaderStep(r), UNCHANGED vars PROVE RInv'
  <2>1. OInv'
    BY <1>2, OInvStep DEF RInv
  <2> QED
    BY <1>2, <2>1, ReaderTyped, ReaderBacked DEF RInv
<1> QED
  BY <1>1, <1>2 DEF ReportsNext, reportVars, vars

\* The records of the queries keep their types.
THEOREM ReaderTypeCorrect == ReportsSpec => []ReaderTypeOK
<1>1. RInv => ReaderTypeOK
  BY DEF RInv
<1> QED
  BY ReportsInitial, RInvStep, <1>1, PTL DEF ReportsSpec

\* However a query interleaves with the handlers of answers and wherever they
\* die, a track it shows as closed comes with the answers it was closed by, one
\* it shows as signed with the signature of each other account, and a result
\* that says passed was accepted by the chain.
THEOREM ReportIsBackedHolds == ReportsSpec => []ReportIsBacked
<1>1. RInv => ReportIsBacked
  BY DEF RInv, ReaderInv, ReportIsBacked, Approved
<1> QED
  BY ReportsInitial, RInvStep, <1>1, PTL DEF ReportsSpec
=============================================================================
