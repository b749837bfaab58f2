--------------------------- MODULE SequentialProofs ---------------------------
(***************************************************************************)
(* Theorems about the way of a transaction from the last answer to the     *)
(* recorded result.                                                        *)
(*                                                                         *)
(* With any number of handlers a signed transaction is carried by one of   *)
(* them.  The rest of what a requestor expects of a track holds only while *)
(* no two handlers work on the same transaction, since nobody looks        *)
(* whether a row changed after it was loaded: OneAtATime is what a lock on *)
(* the row would establish.  Handlers of different transactions interleave *)
(* freely, and any of them may die.                                        *)
(***************************************************************************)
EXTENDS OutcomeProofs, NamesProofs, SequenceTheorems

-----------------------------------------------------------------------------
(* Whom an accepted entry asks *)

\* The members of a multisig and what is named of them.
LEMMA MembersTyped ==
    ASSUME NEW m \in Msig, NEW signers \in Seq(User)
    PROVE  /\ \A i \in DOMAIN Members[m] : Members[m][i].user \in User
           /\ \A i, j \in DOMAIN Members[m] : Members[m][i].user = Members[m][j].user => i = j
           /\ Named(m, signers) \subseteq DOMAIN Members[m]
<1>1. /\ Members[m] \in Seq(MemberRow)
      /\ \A i, j \in DOMAIN Members[m] : Members[m][i].user = Members[m][j].user => i = j
  BY MembersAssumption
<1>2. DOMAIN Members[m] = 1..Len(Members[m])
  BY <1>1
<1>3. ASSUME NEW i \in DOMAIN Members[m] PROVE Members[m][i].user \in User
  <2>1. Members[m][i] \in MemberRow
    BY <1>1, <1>2, ElementOfSeq
  <2> QED
    BY <2>1 DEF MemberRow
<1> QED
  BY <1>1, <1>3 DEF Named

\* An accepted entry asks exactly the accounts it names: members all of them,
\* each named once, whose weights reach the threshold of a confirmed multisig
\* (_valid_multisig_account, SignersRes).
THEOREM AcceptedNamesMembers ==
    ASSUME NEW m \in Msig, NEW signers \in Seq(User), Accepted(MsigEntry(m, signers))
    PROVE  /\ SignersOf(MsigEntry(m, signers), {}) = {signers[k] : k \in DOMAIN signers}
           /\ \A k \in DOMAIN signers : signers[k] \in MemberUsers(m)
           /\ \A j, k \in DOMAIN signers : signers[j] = signers[k] => j = k
           /\ NamedWeight(m, signers) >= Threshold[m]
           /\ m \in Confirmed
<1> DEFINE N == Named(m, signers)
           member == [i \in DOMAIN Members[m] |-> Members[m][i].user]
<1>1. /\ signers # <<>> /\ m \in Confirmed
      /\ Cardinality(N) = Len(signers) /\ NamedWeight(m, signers) >= Threshold[m]
  BY DEF Accepted, MsigEntry, ValidMultisig
<1>2. /\ member \in [DOMAIN Members[m] -> User]
      /\ \A i, j \in DOMAIN Members[m] : member[i] = member[j] => i = j
      /\ N \in SUBSET DOMAIN Members[m]
      /\ \A i \in N : \E k \in DOMAIN signers : signers[k] = member[i]
  BY MembersTyped DEF Named
<1>3. \A i \in N : i \in DOMAIN Members[m] /\ member[i] = Members[m][i].user
  BY DEF Named
<1> HIDE DEF N, member
<1>4. /\ \A k \in DOMAIN signers : \E i \in N : member[i] = signers[k]
      /\ \A j, k \in DOMAIN signers : signers[j] = signers[k] => j = k
  <2> DEFINE I == DOMAIN Members[m]
  <2>1. /\ member \in [I -> User] /\ \A i, j \in I : member[i] = member[j] => i = j
        /\ N \in SUBSET I /\ \A i \in N : \E k \in DOMAIN signers : signers[k] = member[i]
    BY <1>2
  <2> HIDE DEF I
  <2> QED
    BY <1>1, <2>1, NamesMatch
<1>5. \A k \in DOMAIN signers : signers[k] \in MemberUsers(m)
  BY <1>3, <1>4 DEF MemberUsers
<1>6. SignersOf(MsigEntry(m, signers), {}) = {Members[m][i].user : i \in N}
  BY DEF SignersOf, MsigEntry, N
<1>7. \A i \in N : \E k \in DOMAIN signers : signers[k] = Members[m][i].user
  BY DEF Named, N
<1>8. {Members[m][i].user : i \in N} = {signers[k] : k \in DOMAIN signers}
  BY <1>3, <1>4, <1>7
<1> QED
  BY <1>1, <1>4, <1>5, <1>6, <1>8

-----------------------------------------------------------------------------
(* Definitions *)

\* The signatures of t can be gathered: they are all by members, in one role.
Gatherable(t) ==
    /\ ~Raises(track[t], Party(t))
    /\ track[t].sender \in Msig => ~GatherMisaligned("tx_sender", Party(t))
    /\ track[t].sponsor \in Msig => ~GatherMisaligned("tx_sponsor", Party(t))

\* A handler that came from its own tally shows the signatures of the tables.
Carries(h, t) ==
    /\ handler[h].t = t
    /\ handler[h].pc \in {"refresh", "gather", "execute", "record"}
    /\ handler[h].own = NoRequest

\* A handler on its way to the chain found the track signed, with the accounts
\* it still has.
RowInv(h) ==
    LET me == handler[h]
    IN  me.pc \in {"gather", "execute", "record"} =>
            /\ me.row.status = "signed"
            /\ me.row.sender = track[me.t].sender
            /\ me.row.sponsor = track[me.t].sponsor

CarriedInv ==
    /\ IInv
    /\ \A t \in Track : track[t].status # "none" /\ Unmixed(t) => Gatherable(t)
    /\ \A h \in Handler : RowInv(h)
    /\ \A t \in Track : track[t].status = "signed" /\ Unmixed(t) /\ failures = 0 =>
            \E h \in Handler : Carries(h, t)

\* The answers of one transaction are handled one after the other.
OneAtATime ==
    \A g, h \in Handler :
        handler[g].pc # "idle" /\ handler[h].pc # "idle" /\ handler[g].t = handler[h].t => g = h

Unanimous(t) == \A s \in Party(t) : request[t][s].status = "signed"

\* What a handler holds is what the tables say.
CurrentInv(h) ==
    LET me == handler[h]
    IN  me.pc # "idle" =>
            /\ me.pc \in {"tally", "settle", "gather", "execute", "record", "close"}
                    => me.row = track[me.t]
            /\ me.pc \in {"load", "tally"} => me.own = request[me.t][me.s]
            /\ me.pc \in {"tally", "settle"} => ~Closed(me.row.status)
            /\ me.pc = "settle" => me.verdict =
                    Verdict(Party(me.t), [s \in Slot |-> request[me.t][s].status], me.row.status)
            /\ me.pc = "refresh" /\ track[me.t].status = "signed" => Unanimous(me.t)
            /\ me.pc \in {"gather", "execute", "record"} =>
                    Unanimous(me.t) \/ failures > 0 \/ ~Unmixed(me.t)
            /\ me.pc = "close" => me.row.status = "denied"
            /\ me.pc = "record" => chain[me.t].submitted > 0
            /\ me.pc = "record" /\ me.outcome = "failed" /\ chain[me.t].accepted => failures > 0

\* How often t was sent, by what its track says.
CountInv(t) ==
    /\ track[t].status \notin {"denied", "signed_and_executed"} => track[t].passed = "unset"
    /\ track[t].status \notin {"signed", "signed_and_executed"} => chain[t].submitted = 0
    /\ track[t].status = "signed" =>
            \/ chain[t].submitted <= failures
            \/ Busy(t, {"record"}) /\ chain[t].submitted <= 1 + failures
    /\ track[t].status = "signed_and_executed" => chain[t].submitted \in 1..(1 + failures)
    /\ chain[t].accepted => chain[t].submitted > 0
    /\ track[t].passed = "failed" /\ chain[t].accepted => failures > 0

\* Some account is still asked, or the accounts disagree.
Waits(t) ==
    \/ \E s \in Party(t) : request[t][s].status = "pending"
    \/ {request[t][s].status : s \in Party(t)} = {"signed", "denied"}

\* An undecided transaction waits, unless an answer is being counted.
WaitInv(t) ==
    /\ track[t].status \in {"pending_signers", "partially_completed"}
    /\ failures = 0
    => Busy(t, {"reload", "load", "tally", "settle"}) \/ Waits(t)

SInv ==
    /\ OInv
    /\ CarriedInv
    /\ \A h \in Handler : CurrentInv(h)
    /\ \A t \in Track : CountInv(t) /\ WaitInv(t)

-----------------------------------------------------------------------------
(* Whatever the handlers do, a signed transaction is carried *)

\* The requests that are posted for an accepted payload can be gathered, unless
\* a multisig shares the transaction with the other role's account.
LEMMA PostedAreGatherable ==
    ASSUME IInv, NEW t \in Track, NEW p \in Payloads, SubmitTransaction(t, p), Unmixed(t)'
    PROVE  Gatherable(t)'
<1>1. p.requestor \in User /\ p.sender \in Entry /\ p.sponsor \in Entry
  BY SigningAssumption DEF Payload
<1>2. /\ track'[t].sender = AccountOf(p.sender, p.requestor)
      /\ track'[t].sponsor = AccountOf(p.sponsor, None)
  BY DEF SubmitTransaction, IInv, TypeInv, TypeOK
<1>3. Party(t)' = PartyOf(p)
  BY PartyPosted
<1>4. CASE track'[t].sender \notin Msig
  BY <1>4 DEF Gatherable, Raises, Unmixed
<1>5. CASE track'[t].sender \in Msig
  <2>1. p.sender.kind = "msig" /\ p.sender.msig = track'[t].sender
    BY <1>1, <1>2, <1>5, PrincipalAssumption DEF AccountOf, Entry, Principal
  <2>2. track'[t].sponsor = None
    BY <1>5 DEF Unmixed
  <2>3. p.sponsor.kind = "default"
    BY <1>1, <1>2, <2>2, PrincipalAssumption DEF AccountOf, Entry, Principal
  <2>4. SignersOf(p.sponsor, {}) = {}
    BY <2>3 DEF SignersOf
  <2>5. SignersOf(p.sender, {p.requestor}) \subseteq MemberUsers(track'[t].sender)
    BY <2>1 DEF SignersOf, Named, MemberUsers
  <2>6. \A s \in Party(t)' : s.as = "tx_sender" /\ s.who \in MemberUsers(track'[t].sender)
    BY <1>3, <2>4, <2>5 DEF PartyOf
  <2>7. ~GatherRaises(track'[t].sender, Party(t)')
    BY <2>6 DEF GatherRaises
  <2>8. ~GatherMisaligned("tx_sender", Party(t)')
    BY <2>6 DEF GatherMisaligned
  <2> QED
    BY <2>2, <2>7, <2>8, PrincipalAssumption DEF Gatherable, Raises, Principal
<1> QED
  BY <1>4, <1>5

\* The accounts and the requests of a track stay, so does that they fit.
LEMMA GatherableStep ==
    CarriedInv /\ [Next]_vars =>
        \A t \in Track : track'[t].status # "none" /\ Unmixed(t)' => Gatherable(t)'
<1> SUFFICES ASSUME CarriedInv, [Next]_vars, NEW t \in Track,
                    track'[t].status # "none", Unmixed(t)'
             PROVE  Gatherable(t)'
  OBVIOUS
<1>1. IInv
  BY DEF CarriedInv
<1>2. CASE track[t].status = "none"
  BY <1>1, <1>2, OnlySubmitted, PostedAreGatherable
<1>3. CASE track[t].status # "none"
  <2>1. track'[t].sender = track[t].sender /\ track'[t].sponsor = track[t].sponsor
    BY <1>1, <1>3, PrincipalsKept
  <2>2. Party(t)' = Party(t)
    BY <1>1, <1>3, KeptStep DEF Kept
  <2>3. Gatherable(t)
    BY <1>3, <2>1 DEF CarriedInv, Unmixed
  <2> QED
    BY <2>1, <2>2, <2>3 DEF Gatherable, Raises
<1> QED
  BY <1>2, <1>3

\* Only the steps that look at the track begin the way to the chain.
LEMMA RowStep == CarriedInv /\ [Next]_vars => \A h \in Handler : RowInv(h)'
<1> SUFFICES ASSUME CarriedInv, [Next]_vars, NEW h \in Handler PROVE RowInv(h)'
  OBVIOUS
<1> DEFINE me == handler[h]
<1>0. /\ IInv /\ RowInv(h)
      /\ handler \in [Handler -> HandlerRecord] /\ me \in HandlerRecord
      /\ me.pc # "idle" => me.t \in Track /\ track[me.t].status # "none"
      /\ \A t \in Track : track[t].status # "none" =>
            track'[t].sender = track[t].sender /\ track'[t].sponsor = track[t].sponsor
  BY PrincipalsKept DEF CarriedInv, IInv, TypeInv, TypeOK, Bound, HandlerInv
\* The handler stays where it is, or goes on with the row it holds.
<1>1. ASSUME me.pc \in {"gather", "execute", "record"},
             handler'[h].t = me.t, handler'[h].row = me.row
      PROVE  RowInv(h)'
  BY <1>0, <1>1 DEF RowInv
<1>2. ASSUME handler'[h] = me PROVE RowInv(h)'
  BY <1>0, <1>1, <1>2 DEF RowInv
<1>3. ASSUME handler'[h].pc \notin {"gather", "execute", "record"} PROVE RowInv(h)'
  BY <1>3 DEF RowInv
<1>4. ASSUME NEW pc \in PC, me.pc # "idle", UNCHANGED track,
             pc = "gather" => track[me.t].status = "signed",
             pc \notin {"execute", "record"},
             Continue(h, pc, track[me.t])
      PROVE  RowInv(h)'
  <2>1. CASE pc = "idle"
    BY <1>0, <1>3, <1>4, <2>1 DEF Continue, Idle
  <2>2. CASE pc # "idle"
    <3>1. handler'[h].pc = pc /\ handler'[h].t = me.t /\ handler'[h].row = track[me.t]
      BY <1>0, <1>4, <2>2 DEF Continue, HandlerRecord
    <3> QED
      BY <1>4, <3>1 DEF RowInv
  <2> QED
    BY <2>1, <2>2
<1>5. ASSUME LoadTrack(h) PROVE RowInv(h)'
  BY <1>4, <1>5 DEF LoadTrack, ProcessTracker, PC
<1>6. ASSUME Refresh(h) PROVE RowInv(h)'
  BY <1>4, <1>6 DEF Refresh, ProcessTracker, PC
<1>7. ASSUME Gather(h) \/ Execute(h) PROVE RowInv(h)'
  <2>1. CASE handler' = [handler EXCEPT ![h] = Idle]
    BY <1>0, <1>3, <2>1 DEF Idle
  <2>2. CASE handler' # [handler EXCEPT ![h] = Idle]
    <3>1. me.pc \in {"gather", "execute"} /\ handler'[h].t = me.t /\ handler'[h].row = me.row
      BY <1>0, <1>7, <2>2 DEF Gather, Execute, HandlerRecord
    <3> QED
      BY <1>1, <3>1
  <2> QED
    BY <2>1, <2>2
<1>8. ASSUME Respond(h) \/ Reload(h) \/ Tally(h) \/ Settle(h) PROVE RowInv(h)'
  <2>1. handler'[h].pc \in {"reload", "load", "settle", "refresh"}
    <3>1. CASE Respond(h)
      BY <1>0, <3>1 DEF Respond, HandlerRecord
    <3>2. CASE Reload(h)
      BY <1>0, <3>2 DEF Reload, HandlerRecord
    <3>3. CASE Tally(h)
      BY <1>0, <3>3 DEF Tally, HandlerRecord
    <3>4. CASE Settle(h)
      BY <1>0, <3>4 DEF Settle, HandlerRecord
    <3> QED
      BY <1>8, <3>1, <3>2, <3>3, <3>4
  <2> QED
    BY <1>3, <2>1
<1>9. ASSUME Record(h) \/ Close(h) \/ Fail(h) PROVE RowInv(h)'
  BY <1>0, <1>3, <1>9 DEF Record, Close, Fail, Idle
<1>10. ASSUME NEW user \in User, NEW t \in Track, NEW s \in Slot, NEW approved \in Answers,
              Lookup(h, user, t, s, approved)
       PROVE  RowInv(h)'
  <2>1. handler'[h].pc = "respond"
    BY <1>0, <1>10 DEF Lookup, Idle
  <2> QED
    BY <1>3, <2>1
<1>11. ASSUME NEW g \in Handler, g # h, Advance(g) \/ Fail(g) PROVE handler'[h] = me
  BY <1>0, <1>11 DEF Advance, Respond, Reload, LoadTrack, Tally, Settle, Refresh, Gather,
        Execute, Record, Close, Fail, Continue
<1>12. ASSUME NEW g \in Handler, g # h,
              NEW user \in User, NEW t \in Track, NEW s \in Slot, NEW approved \in Answers,
              Lookup(g, user, t, s, approved)
       PROVE  handler'[h] = me
  BY <1>0, <1>12 DEF Lookup
<1>13. ASSUME NEW t \in Track, NEW p \in Payloads, SubmitTransaction(t, p)
       PROVE  handler'[h] = me
  BY <1>13 DEF SubmitTransaction
<1>14. UNCHANGED vars => handler'[h] = me
  BY DEF vars
<1> QED
  BY <1>2, <1>5, <1>6, <1>7, <1>8, <1>9, <1>10, <1>11, <1>12, <1>13, <1>14 DEF Next, Advance

\* The carrier does not drop the transaction while nobody dies.
LEMMA CarrierGoesOn ==
    ASSUME CarriedInv, NEW h \in Handler, NEW t \in Track, Carries(h, t),
           Advance(h), track[t].status = "signed", Unmixed(t)
    PROVE  Carries(h, t)' \/ track'[t].status = "signed_and_executed"
<1> DEFINE me == handler[h]
           party == Party(t)
<1>0. /\ track \in [Track -> TrackRow] /\ handler \in [Handler -> HandlerRecord]
      /\ me \in HandlerRecord /\ me.t = t /\ me.own = NoRequest
      /\ me.pc \in {"refresh", "gather", "execute", "record"}
      /\ RowInv(h) /\ Gatherable(t)
  BY DEF CarriedInv, IInv, TypeInv, TypeOK, Carries
<1>1. CASE me.pc = "refresh"
  <2>1. Refresh(h)
    BY <1>1 DEF Advance, Respond, Reload, LoadTrack, Tally, Settle, Gather, Execute, Record, Close
  <2>2. Continue(h, "gather", track[t])
    BY <1>0, <2>1 DEF Refresh, ProcessTracker
  <2>3. handler'[h].pc = "gather" /\ handler'[h].t = t /\ handler'[h].own = NoRequest
    BY <1>0, <2>2 DEF Continue, HandlerRecord
  <2> QED
    BY <2>3 DEF Carries
<1>2. CASE me.pc = "gather"
  <2>1. Gather(h)
    BY <1>2 DEF Advance, Respond, Reload, LoadTrack, Tally, Settle, Refresh, Execute, Record, Close
  <2>2. me.row.sender = track[t].sender /\ me.row.sponsor = track[t].sponsor
    BY <1>0, <1>2 DEF RowInv
  <2>3. ~Raises(me.row, party)
    BY <1>0, <2>2 DEF Gatherable, Raises
  <2>4. \A s \in party : Held(me, s) # None
    <3>1. Consented(t) /\ party \subseteq Slot
      BY <1>0, <1>2 DEF CarriedInv, IInv, HandlerInv, Party
    <3>2. \A s \in Slot : s.who # None
      BY PrincipalAssumption DEF Slot, Principal
    <3> QED
      BY <1>0, <3>1, <3>2 DEF Held, Consented
  <2>5. WellSigned(me, party)
    BY <1>0, <2>2, <2>4 DEF WellSigned, Gatherable
  <2>6. handler' = [handler EXCEPT ![h].pc = "execute", ![h].complete = WellSigned(me, party)]
    BY <1>0, <2>1, <2>3, <2>5 DEF Gather
  <2>7. handler'[h].pc = "execute" /\ handler'[h].t = t /\ handler'[h].own = NoRequest
    BY <1>0, <2>6 DEF HandlerRecord
  <2> QED
    BY <2>7 DEF Carries
<1>3. CASE me.pc = "execute"
  <2>1. Execute(h)
    BY <1>3 DEF Advance, Respond, Reload, LoadTrack, Tally, Settle, Refresh, Gather, Record, Close
  <2>2. handler'[h].pc = "record" /\ handler'[h].t = t /\ handler'[h].own = NoRequest
    BY <1>0, <2>1 DEF Execute, HandlerRecord
  <2> QED
    BY <2>2 DEF Carries
<1>4. CASE me.pc = "record"
  <2>1. Record(h)
    BY <1>4 DEF Advance, Respond, Reload, LoadTrack, Tally, Settle, Refresh, Gather, Execute, Close
  <2>2. Written(track[t].status, me.row.status, "signed_and_executed") = "signed_and_executed"
    BY <1>0, <1>4 DEF RowInv, Written
  <2>3. track'[t].status = "signed_and_executed"
    BY <1>0, <2>1, <2>2 DEF Record, Recorded, TrackRow
  <2> QED
    BY <2>3
<1> QED
  BY <1>0, <1>1, <1>2, <1>3, <1>4

\* The handler that settles a track as signed carries it, and nobody else makes
\* a track signed.
LEMMA SignedBySettle ==
    ASSUME CarriedInv, [Next]_vars, NEW t \in Track,
           track[t].status # "signed", track'[t].status = "signed"
    PROVE  \E h \in Handler : Settle(h) /\ Carries(h, t)'
<1>0. /\ IInv /\ track \in [Track -> TrackRow] /\ handler \in [Handler -> HandlerRecord]
      /\ \A h \in Handler : RowInv(h)
      /\ \A h \in Handler : handler[h].pc # "idle" => handler[h].t \in Track
  BY DEF CarriedInv, IInv, TypeInv, TypeOK, Bound
<1>1. ASSUME NEW u \in Track, NEW p \in Payloads, SubmitTransaction(u, p) PROVE FALSE
  BY <1>0, <1>1 DEF SubmitTransaction
<1>2. ASSUME NEW h \in Handler, Settle(h) PROVE Carries(h, t)'
  <2>1. handler[h].t = t
    BY <1>0, <1>2, TrackWritten DEF Settle, Record
  <2>2. /\ handler'[h].pc = "refresh" /\ handler'[h].t = handler[h].t
        /\ handler'[h].own = NoRequest
    BY <1>0, <1>2 DEF Settle, HandlerRecord
  <2> QED
    BY <2>1, <2>2 DEF Carries
<1>3. ASSUME NEW h \in Handler, Record(h) PROVE FALSE
  <2> DEFINE me == handler[h]
             status == Written(track[me.t].status, me.row.status, "signed_and_executed")
             passed == Written(track[me.t].passed, me.row.passed, me.outcome)
             row == [track[me.t] EXCEPT !.status = status, !.passed = passed]
  <2>1. track' = [track EXCEPT ![me.t] = row] /\ me.t \in Track
    BY <1>0, <1>3 DEF Record, Recorded
  <2>2. row.status = status
    BY <1>0, <2>1 DEF TrackRow
  <2>3. status \in {track[me.t].status, "signed_and_executed"}
    BY WrittenEither
  <2> HIDE DEF row, status
  <2>4. track'[t] = IF t = me.t THEN row ELSE track[t]
    BY <1>0, <2>1
  <2> QED
    BY <2>2, <2>3, <2>4
<1>4. ASSUME NEW h \in Handler, Close(h) PROVE FALSE
  BY <1>0, <1>4, TrackWritten DEF Close, Settle, Record
<1>5. ASSUME NEW h \in Handler, Respond(h) \/ Reload(h) \/ LoadTrack(h) \/ Tally(h)
                                \/ Refresh(h) \/ Gather(h) \/ Execute(h) \/ Fail(h)
      PROVE  track' = track
  BY <1>5 DEF Respond, Reload, LoadTrack, Tally, Refresh, Gather, Execute, Fail
<1>6. ASSUME NEW h \in Handler, NEW user \in User, NEW u \in Track, NEW s \in Slot,
             NEW approved \in Answers, Lookup(h, user, u, s, approved)
      PROVE  track' = track
  BY <1>6 DEF Lookup
<1>7. UNCHANGED vars => track' = track
  BY DEF vars
<1> QED
  BY <1>1, <1>2, <1>3, <1>4, <1>5, <1>6, <1>7 DEF Next, Advance

\* The count of dead handlers only grows.
LEMMA FailuresGrow ==
    IInv /\ [Next]_vars => failures \in Nat /\ failures' \in Nat /\ failures <= failures'
<1> SUFFICES ASSUME IInv, [Next]_vars
             PROVE  failures \in Nat /\ failures' \in Nat /\ failures <= failures'
  OBVIOUS
<1>1. failures \in Nat
  BY SigningAssumption DEF IInv, TypeInv, TypeOK
<1>2. failures' \in {failures, failures + 1}
  <2>1. ASSUME NEW h \in Handler, Advance(h) PROVE failures' = failures
    BY <2>1 DEF Advance, Respond, Reload, LoadTrack, Tally, Settle, Refresh, Gather, Execute,
          Record, Close
  <2>2. ASSUME NEW h \in Handler, Fail(h) PROVE failures' = failures + 1
    BY <2>2 DEF Fail
  <2>3. ASSUME NEW t \in Track, NEW p \in Payloads, SubmitTransaction(t, p)
        PROVE  failures' = failures
    BY <2>3 DEF SubmitTransaction
  <2>4. ASSUME NEW h \in Handler, NEW user \in User, NEW t \in Track, NEW s \in Slot,
               NEW approved \in Answers, Lookup(h, user, t, s, approved)
        PROVE  failures' = failures
    BY <2>4 DEF Lookup
  <2>5. UNCHANGED vars => failures' = failures
    BY DEF vars
  <2> QED
    BY <2>1, <2>2, <2>3, <2>4, <2>5 DEF Next
<1> QED
  BY <1>1, <1>2

\* A step of another handler, or of nobody, leaves a handler where it is.
LEMMA OthersStay ==
    ASSUME IInv, NEW h \in Handler, [Next]_vars, ~Advance(h), ~Fail(h), handler[h].pc # "idle"
    PROVE  handler'[h] = handler[h]
<1>0. handler \in [Handler -> HandlerRecord]
  BY DEF IInv, TypeInv, TypeOK
<1>1. ASSUME NEW g \in Handler, g # h, Advance(g) \/ Fail(g) PROVE handler'[h] = handler[h]
  BY <1>0, <1>1 DEF Advance, Respond, Reload, LoadTrack, Tally, Settle, Refresh, Gather,
        Execute, Record, Close, Fail, Continue
<1>2. ASSUME NEW g \in Handler, NEW user \in User, NEW t \in Track, NEW s \in Slot,
             NEW approved \in Answers, Lookup(g, user, t, s, approved)
      PROVE  handler'[h] = handler[h]
  BY <1>0, <1>2 DEF Lookup
<1>3. ASSUME NEW t \in Track, NEW p \in Payloads, SubmitTransaction(t, p)
      PROVE  handler'[h] = handler[h]
  BY <1>3 DEF SubmitTransaction
<1>4. UNCHANGED vars => handler'[h] = handler[h]
  BY DEF vars
<1> QED
  BY <1>1, <1>2, <1>3, <1>4 DEF Next

\* Every step leaves a signed transaction with a carrier.
LEMMA CarryStep ==
    CarriedInv /\ [Next]_vars =>
        \A t \in Track : track'[t].status = "signed" /\ Unmixed(t)' /\ failures' = 0 =>
            \E h \in Handler : Carries(h, t)'
<1> SUFFICES ASSUME CarriedInv, [Next]_vars, NEW t \in Track,
                    track'[t].status = "signed", Unmixed(t)', failures' = 0
             PROVE  \E h \in Handler : Carries(h, t)'
  OBVIOUS
<1>1. CASE track[t].status # "signed"
  BY <1>1, SignedBySettle
<1>2. CASE track[t].status = "signed"
  <2>1. Unmixed(t)
    BY <1>2, PrincipalsKept DEF CarriedInv, Unmixed
  <2>2. failures = 0
    BY FailuresGrow DEF CarriedInv
  <2>3. PICK h \in Handler : Carries(h, t)
    BY <1>2, <2>1, <2>2 DEF CarriedInv
  <2>4. ~Fail(h)
    BY <2>2 DEF Fail
  <2>5. CASE Advance(h)
    BY <1>2, <2>1, <2>3, <2>5, CarrierGoesOn
  <2>6. CASE ~Advance(h)
    <3>1. handler'[h] = handler[h]
      BY <2>3, <2>4, <2>6, OthersStay DEF CarriedInv, Carries
    <3> QED
      BY <2>3, <3>1 DEF Carries
  <2> QED
    BY <2>5, <2>6
<1> QED
  BY <1>1, <1>2

LEMMA CarriedStep == CarriedInv /\ [Next]_vars => CarriedInv'
BY ConsentStep, GatherableStep, RowStep, CarryStep DEF CarriedInv

LEMMA CarriedInit == Init => CarriedInv
BY ConsentInit DEF Init, CarriedInv, RowInv, NoTrack, Idle

\* A signed transaction is not dropped between the tally and the chain, with any
\* number of handlers that overtake each other and overwrite its status: only
\* a handler that died leaves it behind.
THEOREM SignedIsCarriedHolds == Spec => []SignedIsCarried
<1>1. CarriedInv => SignedIsCarried
  BY DEF CarriedInv, SignedIsCarried, Carries, Busy
<1> QED
  BY CarriedInit, CarriedStep, <1>1, PTL DEF Spec

-----------------------------------------------------------------------------
(* One at a time: each handler has its transaction for itself *)

TablesKept(t) ==
    /\ track'[t] = track[t]
    /\ request'[t] = request[t]
    /\ chain'[t] = chain[t]

\* A handler touches its own record and its own transaction.
LEMMA StepIsLocal ==
    ASSUME IInv, NEW h \in Handler, Advance(h) \/ Fail(h)
    PROVE  /\ handler[h].pc # "idle" /\ handler[h].t \in Track
           /\ \A g \in Handler : g # h => handler'[g] = handler[g]
           /\ \A t \in Track : t # handler[h].t => TablesKept(t)
           /\ handler'[h].pc = "idle" \/ handler'[h].t = handler[h].t
<1> DEFINE me == handler[h]
<1>0. /\ track \in [Track -> TrackRow]
      /\ request \in [Track -> [Slot -> RequestRow]]
      /\ handler \in [Handler -> HandlerRecord] /\ me \in HandlerRecord
      /\ chain \in [Track -> [submitted : 0..MaxSubmits, accepted : BOOLEAN]]
  BY DEF IInv, TypeInv, TypeOK
<1>1. handler[h].pc # "idle" /\ handler[h].t \in Track
  <2>1. handler[h].pc # "idle"
    BY DEF Advance, Respond, Reload, LoadTrack, Tally, Settle, Refresh, Gather, Execute,
           Record, Close, Fail
  <2> QED
    BY <2>1 DEF IInv, TypeInv, Bound
<1>2. \A g \in Handler : g # h => handler'[g] = handler[g]
  BY <1>0 DEF Advance, Respond, Reload, LoadTrack, Tally, Settle, Refresh, Gather,
        Execute, Record, Close, Fail, Continue
<1>3. ASSUME NEW t \in Track, t # handler[h].t PROVE TablesKept(t)
  BY <1>0, <1>1, <1>3 DEF TablesKept, Advance, Respond, Reload, LoadTrack, Tally, Settle,
        Refresh, Gather, Execute, Record, Close, Fail
<1>4. handler'[h].pc = "idle" \/ handler'[h].t = handler[h].t
  <2>1. CASE handler' = [handler EXCEPT ![h] = Idle]
    BY <1>0, <2>1 DEF Idle
  <2>2. CASE handler' # [handler EXCEPT ![h] = Idle]
    <3>1. ASSUME NEW pc \in PC \ {"idle"}, NEW row, Continue(h, pc, row)
          PROVE  handler'[h].t = me.t
      BY <1>0, <3>1 DEF Continue, HandlerRecord
    <3>2. ASSUME NEW row, Continue(h, "idle", row) PROVE FALSE
      BY <2>2, <3>2 DEF Continue
    <3>3. LoadTrack(h) \/ Refresh(h) => handler'[h].t = me.t
      <4>1. \A status : ProcessTracker(status) \in {"gather", "close", "idle"}
        BY DEF ProcessTracker
      <4> QED
        BY <3>1, <3>2, <4>1 DEF LoadTrack, Refresh, PC
    <3>4. Respond(h) \/ Reload(h) \/ Tally(h) \/ Settle(h) \/ Gather(h) \/ Execute(h)
            => handler'[h].t = me.t
      <4>1. Respond(h) \/ Reload(h) => handler'[h].t = me.t
        BY <1>0 DEF Respond, Reload, HandlerRecord
      <4>2. Tally(h) \/ Settle(h) => handler'[h].t = me.t
        BY <1>0 DEF Tally, Settle, HandlerRecord
      <4>3. Gather(h) => handler'[h].t = me.t
        BY <1>0, <2>2 DEF Gather, HandlerRecord
      <4>4. Execute(h) => handler'[h].t = me.t
        BY <1>0, <2>2 DEF Execute, HandlerRecord
      <4> QED
        BY <4>1, <4>2, <4>3, <4>4
    <3> QED
      BY <2>2, <3>3, <3>4 DEF Advance, Record, Close, Fail
  <2> QED
    BY <2>1, <2>2
<1> QED
  BY <1>1, <1>2, <1>3, <1>4

\* A step that is not of a handler of t leaves t alone, or submits it.
LEMMA QuietStep ==
    ASSUME IInv, [Next]_vars, NEW t \in Track,
           \A h \in Handler : handler[h].t = t => ~Advance(h) /\ ~Fail(h)
    PROVE  TablesKept(t) \/ track[t].status = "none"
<1>0. /\ track \in [Track -> TrackRow]
      /\ request \in [Track -> [Slot -> RequestRow]]
  BY DEF IInv, TypeInv, TypeOK
<1>1. ASSUME NEW h \in Handler, Advance(h) \/ Fail(h) PROVE TablesKept(t)
  <2>1. handler[h].t # t
    BY <1>1
  <2> QED
    BY <1>1, <2>1, StepIsLocal
<1>2. ASSUME NEW u \in Track, NEW p \in Payloads, SubmitTransaction(u, p)
      PROVE  TablesKept(t) \/ track[t].status = "none"
  BY <1>0, <1>2 DEF SubmitTransaction, TablesKept
<1>3. ASSUME NEW h \in Handler, NEW user \in User, NEW u \in Track, NEW s \in Slot,
             NEW approved \in Answers, Lookup(h, user, u, s, approved)
      PROVE  TablesKept(t)
  BY <1>3 DEF Lookup, TablesKept
<1>4. UNCHANGED vars => TablesKept(t)
  BY DEF vars, TablesKept
<1> QED
  BY <1>1, <1>2, <1>3, <1>4 DEF Next

\* A handler of t that is under way stays while no handler of t moves.
LEMMA BusyKept ==
    ASSUME IInv, [Next]_vars, NEW t \in Track, NEW phases, "idle" \notin phases,
           Busy(t, phases),
           \A h \in Handler : handler[h].t = t => ~Advance(h) /\ ~Fail(h)
    PROVE  Busy(t, phases)'
<1>1. PICK h \in Handler : handler[h].t = t /\ handler[h].pc \in phases
  BY DEF Busy
<1>2. handler[h].pc # "idle"
  BY <1>1
<1>3. handler'[h] = handler[h]
  BY <1>1, <1>2, OthersStay
<1> QED
  BY <1>1, <1>3 DEF Busy

\* What the commit of a tally leaves in the track, when the row that was loaded
\* is still the row.
LEMMA SettleWrites ==
    ASSUME IInv, NEW h \in Handler, Settle(h), handler[h].row = track[handler[h].t]
    PROVE  /\ track'[handler[h].t].status = handler[h].verdict
           /\ track'[handler[h].t].passed = track[handler[h].t].passed
           /\ UNCHANGED <<request, chain, failures>>
<1> DEFINE me == handler[h]
<1>1. track \in [Track -> TrackRow] /\ me.t \in Track
  BY DEF IInv, TypeInv, TypeOK, Bound, Settle
<1>2. Written(track[me.t].status, me.row.status, me.verdict) = me.verdict
  BY DEF Written
<1> QED
  BY <1>1, <1>2 DEF Settle, TrackRow

\* So does the commit of the result.
LEMMA RecordWrites ==
    ASSUME IInv, NEW h \in Handler, Record(h), handler[h].row = track[handler[h].t]
    PROVE  /\ track'[handler[h].t].status = "signed_and_executed"
           /\ track'[handler[h].t].passed = handler[h].outcome
           /\ UNCHANGED <<request, chain, failures>>
<1> DEFINE me == handler[h]
<1>1. track \in [Track -> TrackRow] /\ me.t \in Track
  BY DEF IInv, TypeInv, TypeOK, Bound, Record
<1>2. /\ Written(track[me.t].status, me.row.status, "signed_and_executed")
            = "signed_and_executed"
      /\ Written(track[me.t].passed, me.row.passed, me.outcome) = me.outcome
  BY DEF Written
<1> QED
  BY <1>1, <1>2 DEF Record, Recorded, TrackRow

\* A verdict over open requests: signed only if all are, never executed, and
\* open only if somebody is still asked or the accounts disagree.
LEMMA VerdictMeans ==
    ASSUME NEW party, NEW status, NEW before, ~Closed(before),
           \A s \in party : status[s] \in SignerStatus
    PROVE  /\ Verdict(party, status, before) = "signed" =>
                    \A s \in party : status[s] = "signed"
           /\ Verdict(party, status, before) # "signed_and_executed"
           /\ Verdict(party, status, before) \notin {"denied", "signed"} =>
                    \/ \E s \in party : status[s] = "pending"
                    \/ {status[s] : s \in party} = {"signed", "denied"}
<1> DEFINE v == Verdict(party, status, before)
<1>1. v = "signed" => \A s \in party : status[s] = "signed"
  BY DEF Verdict, Closed
<1>2. v # "signed_and_executed"
  BY DEF Verdict, Closed
<1>3. ASSUME v \notin {"denied", "signed"}, \A s \in party : status[s] # "pending"
      PROVE  {status[s] : s \in party} = {"signed", "denied"}
  <2>1. /\ ~\A s \in party : status[s] = "denied"
        /\ ~\A s \in party : status[s] = "signed"
    BY <1>3 DEF Verdict
  <2>2. \A s \in party : status[s] \in {"signed", "denied"}
    BY <1>3 DEF SignerStatus
  <2> QED
    BY <2>1, <2>2
<1> QED
  BY <1>1, <1>2, <1>3
-----------------------------------------------------------------------------
(* One at a time: what a handler holds stays what the tables say *)

\* A handler that does not move, on a transaction nobody else touches.
LEMMA CurrentStays ==
    ASSUME IInv, [Next]_vars, NEW h \in Handler, CurrentInv(h), handler'[h] = handler[h],
           handler[h].pc # "idle" => TablesKept(handler[h].t)
    PROVE  CurrentInv(h)'
<1> DEFINE me == handler[h]
<1> SUFFICES ASSUME me.pc # "idle" PROVE CurrentInv(h)'
  BY DEF CurrentInv
<1>1. TablesKept(me.t)
  OBVIOUS
<1>2. failures > 0 => failures' > 0
  BY FailuresGrow
<1>3. /\ Unanimous(me.t)' = Unanimous(me.t)
      /\ Unmixed(me.t)' = Unmixed(me.t)
      /\ Party(me.t)' = Party(me.t)
  BY <1>1 DEF TablesKept, Unanimous, Unmixed, Party
<1> QED
  BY <1>1, <1>2, <1>3 DEF CurrentInv, TablesKept

\* The steps of a handler keep what it holds current.
LEMMA CurrentAdvance ==
    ASSUME SInv, OneAtATime, [Next]_vars, NEW h \in Handler, Advance(h),
           NEW t \in Track, handler[h].t = t
    PROVE  CurrentInv(h)'
<1> DEFINE me == handler[h]
<1>0. /\ IInv /\ CurrentInv(h) /\ RowInv(h)
      /\ track \in [Track -> TrackRow]
      /\ request \in [Track -> [Slot -> RequestRow]]
      /\ handler \in [Handler -> HandlerRecord] /\ me \in HandlerRecord
      /\ chain \in [Track -> [submitted : 0..MaxSubmits, accepted : BOOLEAN]]
      /\ me.t = t /\ me.s \in Slot /\ me.pc # "idle"
      /\ handler'[h].pc = "idle" \/ handler'[h].t = t
      /\ CountInv(t)
  BY StepIsLocal DEF SInv, CarriedInv, IInv, TypeInv, TypeOK, Bound
<1>1. CASE handler'[h].pc \in {"idle", "respond", "reload"}
  BY <1>1 DEF CurrentInv
<1>2. ASSUME Respond(h) PROVE CurrentInv(h)'
  BY <1>0, <1>1, <1>2 DEF Respond, HandlerRecord
<1>3. ASSUME Reload(h) PROVE CurrentInv(h)'
  <2>1. /\ handler'[h].pc = "load" /\ handler'[h].t = t /\ handler'[h].s = me.s
        /\ handler'[h].own = request[t][me.s] /\ request' = request
    BY <1>0, <1>3 DEF Reload, HandlerRecord
  <2> QED
    BY <2>1 DEF CurrentInv
\* The track was loaded again, and leads on.
<1>4. ASSUME NEW pc \in {"idle", "tally", "gather", "close"}, Continue(h, pc, track[t]),
             UNCHANGED <<track, request, chain, failures>>,
             pc = "tally" => ~Closed(track[t].status) /\ me.own = request[t][me.s],
             pc = "gather" => Unanimous(t) \/ failures > 0 \/ ~Unmixed(t),
             pc = "close" => track[t].status = "denied"
      PROVE  CurrentInv(h)'
  <2>1. CASE pc = "idle"
    BY <1>0, <1>1, <1>4, <2>1 DEF Continue, Idle
  <2>2. CASE pc # "idle"
    <3>1. /\ handler'[h].pc = pc /\ handler'[h].t = t /\ handler'[h].s = me.s
          /\ handler'[h].own = me.own /\ handler'[h].row = track[t]
      BY <1>0, <1>4, <2>2 DEF Continue, HandlerRecord
    <3>2. Unanimous(t)' = Unanimous(t) /\ Unmixed(t)' = Unmixed(t)
      BY <1>4 DEF Unanimous, Unmixed, Party
    <3> QED
      BY <1>4, <3>1, <3>2 DEF CurrentInv
  <2> QED
    BY <2>1, <2>2
<1>5. ASSUME LoadTrack(h) PROVE CurrentInv(h)'
  <2>1. me.pc = "load" /\ UNCHANGED <<track, request, chain, failures>>
        /\ Continue(h, IF Closed(track[t].status) THEN ProcessTracker(track[t].status)
                                                  ELSE "tally", track[t])
    BY <1>5 DEF LoadTrack
  <2>2. me.own = request[t][me.s]
    BY <1>0, <2>1 DEF CurrentInv
\* Nobody died and the track is signed: then somebody else carries it.
  <2>3. track[t].status = "signed" => failures > 0 \/ ~Unmixed(t)
    <3> SUFFICES ASSUME track[t].status = "signed", failures = 0, Unmixed(t) PROVE FALSE
      BY <1>0, FailuresGrow
    <3>1. PICK g \in Handler : Carries(g, t)
      BY <1>0 DEF SInv, CarriedInv
    <3>2. g = h
      BY <1>0, <3>1 DEF OneAtATime, Carries
    <3> QED
      BY <2>1, <3>1, <3>2 DEF Carries
  <2> QED
    BY <1>4, <2>1, <2>2, <2>3 DEF ProcessTracker, Closed
<1>6. ASSUME Tally(h) PROVE CurrentInv(h)'
  <2> DEFINE held == [s \in Slot |-> IF s = me.s THEN me.own.status ELSE request[t][s].status]
             status == [s \in Slot |-> request[t][s].status]
  <2>1. /\ me.pc = "tally" /\ UNCHANGED <<track, request, chain, failures>>
        /\ handler'[h].pc = "settle" /\ handler'[h].t = t /\ handler'[h].s = me.s
        /\ handler'[h].row = me.row
        /\ handler'[h].verdict = Verdict(Party(t), held, me.row.status)
    BY <1>0, <1>6 DEF Tally, HandlerRecord
  <2>2. me.row = track[t] /\ me.own = request[t][me.s] /\ ~Closed(me.row.status)
    BY <1>0, <2>1 DEF CurrentInv
  <2>3. held = status
    BY <2>2
  <2>4. Party(t)' = Party(t)
    BY <2>1 DEF Party
  <2> QED
    BY <2>1, <2>2, <2>3, <2>4 DEF CurrentInv
<1>7. ASSUME Settle(h) PROVE CurrentInv(h)'
  <2> DEFINE status == [s \in Slot |-> request[t][s].status]
  <2>1. me.pc = "settle" /\ handler'[h].pc = "refresh" /\ handler'[h].t = t
    BY <1>0, <1>7 DEF Settle, HandlerRecord
  <2>2. /\ me.row = track[t] /\ ~Closed(me.row.status)
        /\ me.verdict = Verdict(Party(t), status, me.row.status)
    BY <1>0, <2>1 DEF CurrentInv
  <2>3. track'[t].status = me.verdict /\ request' = request
    BY <1>0, <1>7, <2>2, SettleWrites
  <2>4. \A s \in Party(t) : status[s] \in SignerStatus /\ status[s] = request[t][s].status
    BY <1>0 DEF Party, RequestRow
  <2>5. me.verdict = "signed" => \A s \in Party(t) : status[s] = "signed"
    <3>1. \A s \in Party(t) : status[s] \in SignerStatus
      BY <2>4
    <3>2. ~Closed(me.row.status)
      BY <2>2
    <3> HIDE DEF status
    <3>3. Verdict(Party(t), status, me.row.status) = "signed" =>
                \A s \in Party(t) : status[s] = "signed"
      BY <3>1, <3>2, VerdictMeans
    <3> QED
      BY <2>2, <3>3
  <2>6. track'[t].status = "signed" => Unanimous(t)'
    BY <2>3, <2>4, <2>5 DEF Unanimous, Party
  <2> QED
    BY <2>1, <2>6 DEF CurrentInv
<1>8. ASSUME Refresh(h) PROVE CurrentInv(h)'
  <2>1. me.pc = "refresh" /\ UNCHANGED <<track, request, chain, failures>>
        /\ Continue(h, ProcessTracker(track[t].status), track[t])
    BY <1>8 DEF Refresh
  <2>2. track[t].status = "signed" => Unanimous(t)
    BY <1>0, <2>1 DEF CurrentInv
  <2> QED
    BY <1>4, <2>1, <2>2 DEF ProcessTracker
<1>9. ASSUME Gather(h) PROVE CurrentInv(h)'
  <2>1. CASE handler' = [handler EXCEPT ![h] = Idle]
    BY <1>0, <1>1, <2>1 DEF Idle
  <2>2. CASE handler' # [handler EXCEPT ![h] = Idle]
    <3>1. /\ me.pc = "gather" /\ UNCHANGED <<track, request, chain, failures>>
          /\ handler'[h].pc = "execute" /\ handler'[h].t = t /\ handler'[h].row = me.row
      BY <1>0, <1>9, <2>2 DEF Gather, HandlerRecord
    <3>2. Unanimous(t)' = Unanimous(t) /\ Unmixed(t)' = Unmixed(t)
      BY <3>1 DEF Unanimous, Unmixed, Party
    <3> QED
      BY <1>0, <3>1, <3>2 DEF CurrentInv
  <2> QED
    BY <2>1, <2>2
<1>10. ASSUME Execute(h) PROVE CurrentInv(h)'
  <2>1. PICK outcome \in {"passed", "failed"} :
          /\ handler' = [handler EXCEPT ![h].pc = "record", ![h].outcome = outcome]
          /\ chain' = [chain EXCEPT ![t] =
                [submitted |-> IF @.submitted < MaxSubmits THEN @.submitted + 1 ELSE MaxSubmits,
                 accepted  |-> @.accepted \/ outcome = "passed"]]
    BY <1>10 DEF Execute
  <2>2. /\ me.pc = "execute" /\ UNCHANGED <<track, request, failures>>
        /\ handler'[h].pc = "record" /\ handler'[h].t = t /\ handler'[h].row = me.row
        /\ handler'[h].outcome = outcome
    BY <1>0, <1>10, <2>1 DEF Execute, HandlerRecord
  <2>3. chain'[t].submitted > 0
    BY <1>0, <2>1, SigningAssumption
  <2>4. chain'[t].accepted = (chain[t].accepted \/ outcome = "passed")
    BY <1>0, <2>1
  <2>5. me.row = track[t] /\ (Unanimous(t) \/ failures > 0 \/ ~Unmixed(t))
    BY <1>0, <2>2 DEF CurrentInv
  <2>6. chain[t].accepted => failures > 0
    <3>1. track[t].status = "signed"
      BY <1>0, <2>2, <2>5 DEF RowInv
    <3>2. ~Busy(t, {"record"})
      BY <1>0, <2>2 DEF Busy, OneAtATime
    <3>3. chain[t].accepted => chain[t].submitted > 0
      BY <1>0 DEF CountInv
    <3>4. chain[t].submitted <= failures
      BY <1>0, <3>1, <3>2 DEF CountInv
    <3>5. chain[t].submitted \in Nat /\ failures \in Nat
      BY <1>0, FailuresGrow
    <3> QED
      BY <3>3, <3>4, <3>5
  <2>7. Unanimous(t)' = Unanimous(t) /\ Unmixed(t)' = Unmixed(t)
    BY <2>2 DEF Unanimous, Unmixed, Party
  <2>8. handler'[h].outcome = "failed" /\ chain'[t].accepted => failures' > 0
    BY <2>2, <2>4, <2>6
  <2> QED
    BY <2>2, <2>3, <2>5, <2>7, <2>8 DEF CurrentInv
<1>11. ASSUME Record(h) \/ Close(h) PROVE CurrentInv(h)'
  BY <1>0, <1>1, <1>11 DEF Record, Close, Idle
<1> QED
  BY <1>2, <1>3, <1>5, <1>6, <1>7, <1>8, <1>9, <1>10, <1>11 DEF Advance

\* While handlers have their transactions for themselves, every step keeps what
\* each of them holds current.
LEMMA CurrentStep ==
    SInv /\ OneAtATime /\ [Next]_vars => \A h \in Handler : CurrentInv(h)'
<1> SUFFICES ASSUME SInv, OneAtATime, [Next]_vars, NEW h \in Handler PROVE CurrentInv(h)'
  OBVIOUS
<1>0. /\ IInv /\ CurrentInv(h) /\ handler \in [Handler -> HandlerRecord]
      /\ handler[h].pc # "idle" => handler[h].t \in Track /\ track[handler[h].t].status # "none"
  BY DEF SInv, CarriedInv, IInv, TypeInv, TypeOK, Bound, HandlerInv
<1>1. CASE Advance(h)
  <2>1. handler[h].t \in Track
    BY <1>0, <1>1, StepIsLocal
  <2> QED
    BY <1>1, <2>1, CurrentAdvance
<1>2. CASE Fail(h)
  BY <1>0, <1>2 DEF Fail, Idle, CurrentInv
<1>3. CASE handler[h].pc = "idle"
  <2>1. handler'[h] = handler[h] \/ handler'[h].pc = "respond" \/ Advance(h) \/ Fail(h)
    <3>1. ASSUME NEW g \in Handler, g # h, Advance(g) \/ Fail(g) PROVE handler'[h] = handler[h]
      BY <1>0, <3>1, StepIsLocal
    <3>2. ASSUME NEW g \in Handler, NEW user \in User, NEW t \in Track, NEW s \in Slot,
                 NEW approved \in Answers, Lookup(g, user, t, s, approved)
          PROVE  handler'[h] = handler[h] \/ handler'[h].pc = "respond"
      BY <1>0, <3>2 DEF Lookup, Idle
    <3>3. ASSUME NEW t \in Track, NEW p \in Payloads, SubmitTransaction(t, p)
          PROVE  handler'[h] = handler[h]
      BY <3>3 DEF SubmitTransaction
    <3>4. UNCHANGED vars => handler'[h] = handler[h]
      BY DEF vars
    <3> QED
      BY <3>1, <3>2, <3>3, <3>4 DEF Next
  <2> QED
    BY <1>1, <1>2, <1>3, <2>1 DEF CurrentInv
<1>4. CASE handler[h].pc # "idle" /\ ~Advance(h) /\ ~Fail(h)
  <2>1. handler'[h] = handler[h]
    BY <1>0, <1>4, OthersStay
  <2>2. \A g \in Handler : handler[g].t = handler[h].t => ~Advance(g) /\ ~Fail(g)
    BY <1>0, <1>4, StepIsLocal DEF OneAtATime
  <2>3. TablesKept(handler[h].t)
    BY <1>0, <1>4, <2>2, QuietStep
  <2> QED
    BY <1>0, <2>1, <2>3, CurrentStays
<1> QED
  BY <1>1, <1>2, <1>3, <1>4
-----------------------------------------------------------------------------
(* One at a time: how often a transaction was sent *)

\* A transaction whose track and chain stay, and whose handlers stay.
LEMMA CountStays ==
    ASSUME IInv, [Next]_vars, NEW t \in Track, CountInv(t),
           track'[t] = track[t], chain'[t] = chain[t],
           Busy(t, {"record"}) => Busy(t, {"record"})' \/ failures' = failures + 1
    PROVE  CountInv(t)'
<1>1. /\ failures \in Nat /\ failures' \in Nat /\ failures <= failures'
      /\ chain[t].submitted \in Nat
  BY FailuresGrow DEF IInv, TypeInv, TypeOK
<1>2. track[t].status = "signed" =>
          \/ chain[t].submitted <= failures'
          \/ Busy(t, {"record"})' /\ chain[t].submitted <= 1 + failures'
  BY <1>1 DEF CountInv
<1>3. track[t].status = "signed_and_executed" => chain[t].submitted \in 1..(1 + failures')
  BY <1>1 DEF CountInv
<1> QED
  BY <1>1, <1>2, <1>3 DEF CountInv

\* The step of a handler of t.
LEMMA CountAdvance ==
    ASSUME SInv, OneAtATime, [Next]_vars, NEW h \in Handler, Advance(h) \/ Fail(h),
           NEW t \in Track, handler[h].t = t
    PROVE  CountInv(t)'
<1> DEFINE me == handler[h]
<1>0. /\ IInv /\ CurrentInv(h) /\ RowInv(h) /\ CountInv(t)
      /\ track \in [Track -> TrackRow]
      /\ request \in [Track -> [Slot -> RequestRow]]
      /\ handler \in [Handler -> HandlerRecord] /\ me \in HandlerRecord
      /\ chain \in [Track -> [submitted : 0..MaxSubmits, accepted : BOOLEAN]]
      /\ me.t = t /\ me.pc # "idle"
      /\ failures \in Nat /\ chain[t].submitted \in Nat
  BY StepIsLocal, FailuresGrow DEF SInv, CarriedInv, IInv, TypeInv, TypeOK
<1>1. me.pc # "record" => ~Busy(t, {"record"})
  BY <1>0 DEF Busy, OneAtATime
<1>2. ASSUME Respond(h) \/ Reload(h) \/ LoadTrack(h) \/ Tally(h) \/ Refresh(h) \/ Gather(h)
      PROVE  CountInv(t)'
  <2>1. me.pc # "record" /\ UNCHANGED <<track, chain>>
    BY <1>2 DEF Respond, Reload, LoadTrack, Tally, Refresh, Gather
  <2> QED
    BY <1>0, <1>1, <2>1, CountStays
<1>3. ASSUME Fail(h) PROVE CountInv(t)'
  <2>1. failures' = failures + 1 /\ UNCHANGED <<track, chain>>
    BY <1>3 DEF Fail
  <2> QED
    BY <1>0, <2>1, CountStays
<1>4. ASSUME Settle(h) PROVE CountInv(t)'
  <2> DEFINE status == [s \in Slot |-> request[t][s].status]
  <2>1. /\ me.row = track[t] /\ ~Closed(track[t].status)
        /\ me.verdict = Verdict(Party(t), status, track[t].status)
    BY <1>0, <1>4 DEF CurrentInv, Settle
  <2>2. /\ track'[t].status = me.verdict /\ track'[t].passed = track[t].passed
        /\ chain' = chain /\ failures' = failures
    BY <1>0, <1>4, <2>1, SettleWrites
  <2>3. \A s \in Party(t) : status[s] \in SignerStatus
    BY <1>0 DEF Party, RequestRow
  <2> HIDE DEF status
  <2>4. me.verdict # "signed_and_executed"
    BY <2>1, <2>3, VerdictMeans
  <2>5. chain[t].submitted = 0 /\ ~chain[t].accepted /\ track[t].passed = "unset"
    BY <1>0, <2>1 DEF CountInv, Closed
  <2> QED
    BY <1>0, <2>2, <2>4, <2>5 DEF CountInv
<1>5. ASSUME Execute(h) PROVE CountInv(t)'
  <2>1. PICK outcome \in {"passed", "failed"} :
          /\ handler' = [handler EXCEPT ![h].pc = "record", ![h].outcome = outcome]
          /\ chain' = [chain EXCEPT ![t] =
                [submitted |-> IF @.submitted < MaxSubmits THEN @.submitted + 1 ELSE MaxSubmits,
                 accepted  |-> @.accepted \/ outcome = "passed"]]
    BY <1>0, <1>5 DEF Execute
  <2>2. me.pc = "execute" /\ UNCHANGED <<track, failures>>
    BY <1>5 DEF Execute
  <2>3. Busy(t, {"record"})'
    <3>1. handler'[h].pc = "record" /\ handler'[h].t = t
      BY <1>0, <2>1 DEF HandlerRecord
    <3> QED
      BY <3>1 DEF Busy
  <2>4. chain'[t].submitted > 0 /\ chain'[t].submitted <= chain[t].submitted + 1
        /\ chain'[t].submitted \in Nat
    BY <1>0, <2>1, SigningAssumption
  <2>5. track[t].status = "signed"
    BY <1>0, <2>2 DEF RowInv, CurrentInv
  <2>6. chain[t].submitted <= failures
    BY <1>0, <1>1, <2>2, <2>5 DEF CountInv
  <2>7. chain'[t].submitted <= 1 + failures
    BY <1>0, <2>4, <2>6
  <2>8. track'[t].status = "signed" /\ track'[t].passed = "unset"
    BY <1>0, <2>2, <2>5 DEF CountInv
  <2> QED
    BY <2>2, <2>3, <2>4, <2>7, <2>8 DEF CountInv
<1>6. ASSUME Record(h) PROVE CountInv(t)'
  <2>1. /\ me.row = track[t] /\ chain[t].submitted > 0
        /\ me.outcome = "failed" /\ chain[t].accepted => failures > 0
    BY <1>0, <1>6 DEF CurrentInv, Record
  <2>2. /\ track'[t].status = "signed_and_executed" /\ track'[t].passed = me.outcome
        /\ chain' = chain /\ failures' = failures
    BY <1>0, <1>6, <2>1, RecordWrites
  <2>3. track[t].status = "signed"
    BY <1>0, <1>6, <2>1 DEF RowInv, Record
  <2>4. chain[t].submitted \in 1..(1 + failures)
    BY <1>0, <2>1, <2>3 DEF CountInv
  <2> QED
    BY <1>0, <2>1, <2>2, <2>4 DEF CountInv
<1>7. ASSUME Close(h) PROVE CountInv(t)'
  <2>1. me.row = track[t] /\ track[t].status = "denied"
    BY <1>0, <1>7 DEF CurrentInv, Close
  <2>2. track'[t].status = track[t].status /\ chain' = chain
    BY <1>0, <1>7 DEF Close, TrackRow
  <2>3. chain[t].submitted = 0 /\ ~chain[t].accepted
    BY <1>0, <2>1 DEF CountInv
  <2> QED
    BY <2>1, <2>2, <2>3 DEF CountInv
<1> QED
  BY <1>2, <1>3, <1>4, <1>5, <1>6, <1>7 DEF Advance

\* A track that does not exist yet is submitted, or stays.
LEMMA NewTrack ==
    ASSUME IInv, [Next]_vars, NEW t \in Track, track[t].status = "none"
    PROVE  \/ TablesKept(t)
           \/ \E p \in Payloads : SubmitTransaction(t, p)
<1>0. /\ track \in [Track -> TrackRow]
      /\ request \in [Track -> [Slot -> RequestRow]]
      /\ \A h \in Handler : handler[h].pc # "idle" => track[handler[h].t].status # "none"
  BY DEF IInv, TypeInv, TypeOK, HandlerInv
<1>1. ASSUME NEW h \in Handler, Advance(h) \/ Fail(h) PROVE TablesKept(t)
  BY <1>0, <1>1, StepIsLocal
<1>2. ASSUME NEW u \in Track, NEW p \in Payloads, SubmitTransaction(u, p), u # t
      PROVE  TablesKept(t)
  BY <1>0, <1>2 DEF SubmitTransaction, TablesKept
<1>3. ASSUME NEW h \in Handler, NEW user \in User, NEW u \in Track, NEW s \in Slot,
             NEW approved \in Answers, Lookup(h, user, u, s, approved)
      PROVE  TablesKept(t)
  BY <1>3 DEF Lookup, TablesKept
<1>4. UNCHANGED vars => TablesKept(t)
  BY DEF vars, TablesKept
<1> QED
  BY <1>1, <1>2, <1>3, <1>4 DEF Next

\* Every step keeps the count in line with the track.
LEMMA CountStep ==
    SInv /\ OneAtATime /\ [Next]_vars => \A t \in Track : CountInv(t)'
<1> SUFFICES ASSUME SInv, OneAtATime, [Next]_vars, NEW t \in Track PROVE CountInv(t)'
  OBVIOUS
<1>0. IInv /\ CountInv(t)
  BY DEF SInv, CarriedInv
<1>1. CASE \E h \in Handler : handler[h].t = t /\ (Advance(h) \/ Fail(h))
  BY <1>1, CountAdvance
<1>2. CASE ~\E h \in Handler : handler[h].t = t /\ (Advance(h) \/ Fail(h))
  <2>1. Busy(t, {"record"}) => Busy(t, {"record"})'
    BY <1>0, <1>2, BusyKept
  <2>2. CASE TablesKept(t)
    BY <1>0, <2>1, <2>2, CountStays DEF TablesKept
  <2>3. CASE track[t].status = "none" /\ ~TablesKept(t)
    <3>1. PICK p \in Payloads : SubmitTransaction(t, p)
      BY <1>0, <2>3, NewTrack
    <3>2. /\ track'[t].status = "pending_signers" /\ track'[t].passed = "unset"
          /\ chain' = chain
      BY <1>0, <3>1 DEF SubmitTransaction, IInv, TypeInv, TypeOK
    <3>3. chain[t].submitted = 0 /\ ~chain[t].accepted
      BY <1>0, <2>3 DEF CountInv
    <3> QED
      BY <3>2, <3>3 DEF CountInv
  <2> QED
    BY <1>0, <1>2, <2>2, <2>3, QuietStep
<1> QED
  BY <1>1, <1>2
-----------------------------------------------------------------------------
(* One at a time: an undecided transaction waits for somebody *)

\* A payload that passes the checks asks somebody.
LEMMA SomebodyIsAsked ==
    ASSUME NEW p \in Payloads, Accepted(p.sender)
    PROVE  PartyOf(p) # {}
<1>1. p.requestor \in User /\ p.sender \in Entry
  BY SigningAssumption DEF Payload
<1>2. SignersOf(p.sender, {p.requestor}) # {}
  <2>1. CASE p.sender.kind = "default"
    BY <2>1 DEF SignersOf
  <2>2. CASE p.sender.kind = "user"
    BY <2>2 DEF SignersOf
  <2>3. CASE p.sender.kind = "msig"
    <3>1. PICK m \in Msig, signers \in Seq(User) : p.sender = MsigEntry(m, signers)
      BY <1>1, <2>3 DEF Entry, MsigEntry
    <3>2. SignersOf(MsigEntry(m, signers), {}) = {signers[k] : k \in DOMAIN signers}
      BY <3>1, AcceptedNamesMembers
    <3>3. signers # <<>>
      BY <3>1 DEF Accepted, MsigEntry
    <3>4. 1 \in DOMAIN signers
      BY <3>3
    <3>5. SignersOf(p.sender, {p.requestor}) = SignersOf(p.sender, {})
      BY <2>3 DEF SignersOf
    <3> QED
      BY <3>1, <3>2, <3>4, <3>5
  <2> QED
    BY <1>1, <2>1, <2>2, <2>3 DEF Entry
<1>3. PICK u : u \in SignersOf(p.sender, {p.requestor})
  BY <1>2
<1>4. [as |-> "tx_sender", who |-> u] \in PartyOf(p)
  BY <1>3 DEF PartyOf
<1> QED
  BY <1>4

\* A transaction that was just submitted waits for its accounts.
LEMMA SubmittedWaits ==
    ASSUME IInv, NEW t \in Track, NEW p \in Payloads, SubmitTransaction(t, p)
    PROVE  Waits(t)'
<1>1. Party(t)' = PartyOf(p) /\ PartyOf(p) # {}
  BY PartyPosted, SomebodyIsAsked DEF SubmitTransaction
<1>2. \A s \in Slot : s \in PartyOf(p) => request'[t][s].status = "pending"
  BY DEF SubmitTransaction, IInv, TypeInv, TypeOK
<1>3. PartyOf(p) \subseteq Slot
  BY AsksUsers
<1> QED
  BY <1>1, <1>2, <1>3 DEF Waits

\* The step of a handler of t.
LEMMA WaitAdvance ==
    ASSUME SInv, OneAtATime, [Next]_vars, NEW h \in Handler, Advance(h) \/ Fail(h),
           NEW t \in Track, handler[h].t = t
    PROVE  WaitInv(t)'
<1> DEFINE me == handler[h]
           phases == {"reload", "load", "tally", "settle"}
<1>0. /\ IInv /\ CurrentInv(h) /\ RowInv(h) /\ WaitInv(t)
      /\ track \in [Track -> TrackRow]
      /\ request \in [Track -> [Slot -> RequestRow]]
      /\ handler \in [Handler -> HandlerRecord] /\ me \in HandlerRecord
      /\ me.t = t /\ me.pc # "idle"
      /\ failures \in Nat
  BY StepIsLocal, FailuresGrow DEF SInv, CarriedInv, IInv, TypeInv, TypeOK
<1>1. ASSUME handler'[h].pc \in phases, handler'[h].t = t PROVE WaitInv(t)'
  <2>1. Busy(t, phases)'
    BY <1>1 DEF Busy
  <2> QED
    BY <2>1 DEF WaitInv
<1>2. ASSUME track'[t].status \notin {"pending_signers", "partially_completed"}
      PROVE  WaitInv(t)'
  BY <1>2 DEF WaitInv
\* A handler that counts nothing changes neither the track nor the requests.
<1>3. ASSUME me.pc \notin phases, UNCHANGED <<track, request, failures>> PROVE WaitInv(t)'
  <2>1. Waits(t)' = Waits(t)
    BY <1>3 DEF Waits, Party
  <2>2. ~Busy(t, phases)
    BY <1>0, <1>3 DEF Busy, OneAtATime
  <2> QED
    BY <1>0, <1>3, <2>1, <2>2 DEF WaitInv
<1>4. ASSUME Respond(h) \/ Reload(h) \/ Tally(h) PROVE WaitInv(t)'
  <2>1. handler'[h].pc \in phases /\ handler'[h].t = t
    BY <1>0, <1>4 DEF Respond, Reload, Tally, HandlerRecord
  <2> QED
    BY <1>1, <2>1
<1>5. ASSUME LoadTrack(h) PROVE WaitInv(t)'
  <2>1. track' = track
    BY <1>5 DEF LoadTrack
  <2>2. CASE Closed(track[t].status)
    BY <1>2, <2>1, <2>2 DEF Closed
  <2>3. CASE ~Closed(track[t].status)
    <3>1. handler'[h].pc = "tally" /\ handler'[h].t = t
      BY <1>0, <1>5, <2>3 DEF LoadTrack, Continue, HandlerRecord
    <3> QED
      BY <1>1, <3>1
  <2> QED
    BY <2>2, <2>3
<1>6. ASSUME Settle(h) PROVE WaitInv(t)'
  <2> DEFINE status == [s \in Slot |-> request[t][s].status]
  <2>1. /\ me.row = track[t] /\ ~Closed(track[t].status)
        /\ me.verdict = Verdict(Party(t), status, track[t].status)
    BY <1>0, <1>6 DEF CurrentInv, Settle
  <2>2. track'[t].status = me.verdict /\ request' = request
    BY <1>0, <1>6, <2>1, SettleWrites
  <2>3. \A s \in Party(t) : status[s] \in SignerStatus
    BY <1>0 DEF Party, RequestRow
  <2>4. CASE me.verdict \in {"denied", "signed"}
    BY <1>2, <2>2, <2>4
  <2>5. CASE me.verdict \notin {"denied", "signed"}
    <3>1. \A s \in Party(t) : status[s] = request[t][s].status
      BY DEF Party
    <3> HIDE DEF status
    <3>2. \/ \E s \in Party(t) : status[s] = "pending"
          \/ {status[s] : s \in Party(t)} = {"signed", "denied"}
      BY <2>1, <2>3, <2>5, VerdictMeans
    <3>3. {status[s] : s \in Party(t)} = {request[t][s].status : s \in Party(t)}
      BY <3>1
    <3>4. Waits(t)
      BY <3>1, <3>2, <3>3 DEF Waits
    <3>5. Waits(t)'
      BY <2>2, <3>4 DEF Waits, Party
    <3> QED
      BY <3>5 DEF WaitInv
  <2> QED
    BY <2>4, <2>5
<1>7. ASSUME Refresh(h) \/ Gather(h) \/ Execute(h) PROVE WaitInv(t)'
  <2>1. me.pc \notin phases /\ UNCHANGED <<track, request, failures>>
    BY <1>7 DEF Refresh, Gather, Execute
  <2> QED
    BY <1>3, <2>1
<1>8. ASSUME Record(h) PROVE WaitInv(t)'
  <2>1. track'[t].status = "signed_and_executed"
    BY <1>0, <1>8, RecordWrites DEF CurrentInv, Record
  <2> QED
    BY <1>2, <2>1
<1>9. ASSUME Close(h) PROVE WaitInv(t)'
  <2>1. track'[t].status = track[t].status /\ track[t].status = "denied"
    BY <1>0, <1>9 DEF Close, TrackRow, CurrentInv
  <2> QED
    BY <1>2, <2>1
<1>10. ASSUME Fail(h) PROVE WaitInv(t)'
  <2>1. failures' # 0
    BY <1>0, <1>10 DEF Fail
  <2> QED
    BY <2>1 DEF WaitInv
<1> QED
  BY <1>4, <1>5, <1>6, <1>7, <1>8, <1>9, <1>10 DEF Advance

\* Every step leaves an undecided transaction waiting, or being counted.
LEMMA WaitStep ==
    SInv /\ OneAtATime /\ [Next]_vars => \A t \in Track : WaitInv(t)'
<1> SUFFICES ASSUME SInv, OneAtATime, [Next]_vars, NEW t \in Track PROVE WaitInv(t)'
  OBVIOUS
<1> DEFINE phases == {"reload", "load", "tally", "settle"}
<1>0. IInv /\ WaitInv(t)
  BY DEF SInv, CarriedInv
<1>1. CASE \E h \in Handler : handler[h].t = t /\ (Advance(h) \/ Fail(h))
  BY <1>1, WaitAdvance
<1>2. CASE ~\E h \in Handler : handler[h].t = t /\ (Advance(h) \/ Fail(h))
  <2>1. CASE TablesKept(t)
    <3>1. Waits(t)' = Waits(t)
      BY <2>1 DEF TablesKept, Waits, Party
    <3>2. Busy(t, phases) => Busy(t, phases)'
      BY <1>0, <1>2, BusyKept
    <3>3. failures' = 0 => failures = 0
      BY <1>0, FailuresGrow
    <3> QED
      BY <1>0, <2>1, <3>1, <3>2, <3>3 DEF WaitInv, TablesKept
  <2>2. CASE track[t].status = "none" /\ ~TablesKept(t)
    <3>1. PICK p \in Payloads : SubmitTransaction(t, p)
      BY <1>0, <2>2, NewTrack
    <3> QED
      BY <1>0, <3>1, SubmittedWaits DEF WaitInv
  <2> QED
    BY <1>0, <1>2, <2>1, <2>2, QuietStep
<1> QED
  BY <1>1, <1>2

-----------------------------------------------------------------------------
(* Theorems *)

LEMMA SInvInit == Init => SInv
<1> SUFFICES ASSUME Init PROVE SInv
  OBVIOUS
<1>1. \A h \in Handler : CurrentInv(h)
  BY DEF Init, CurrentInv, Idle
<1>2. \A t \in Track : CountInv(t) /\ WaitInv(t)
  BY DEF Init, CountInv, WaitInv, NoTrack, Untouched
<1> QED
  BY <1>1, <1>2, OutcomeInit, CarriedInit DEF SInv

LEMMA SInvStep == SInv /\ OneAtATime /\ [Next]_vars => SInv'
BY OInvStep, CarriedStep, CurrentStep, CountStep, WaitStep DEF SInv

LEMMA SInvHolds == Spec /\ []OneAtATime => []SInv
BY SInvInit, SInvStep, PTL DEF Spec

\* What the track tells the requestor is what happened, when the answers of one
\* transaction are handled one after the other: for any number of transactions
\* and of handlers, wherever they die.
THEOREM ResultMatchesChainHolds == Spec /\ []OneAtATime => []ResultMatchesChain
<1>1. SInv => ResultMatchesChain
  <2> SUFFICES ASSUME SInv, NEW t \in Track
               PROVE  /\ track[t].status = "denied" => chain[t].submitted = 0
                      /\ track[t].status = "signed_and_executed" => chain[t].submitted > 0
                      /\ track[t].passed = "passed" => chain[t].accepted
                      /\ track[t].passed = "failed" /\ chain[t].accepted => failures > 0
    BY DEF ResultMatchesChain
  <2>1. CountInv(t) /\ OutcomeInv(t) /\ failures \in Nat
    BY SigningAssumption DEF SInv, OInv, IInv, TypeInv, TypeOK
  <2>2. track[t].status = "signed_and_executed" => chain[t].submitted > 0
    BY <2>1 DEF CountInv
  <2> QED
    BY <2>1, <2>2 DEF CountInv, OutcomeInv
<1> QED
  BY SInvHolds, <1>1, PTL

\* A transaction is sent once more at most for each handler that died, however
\* often its accounts answer, when they are answered for one after the other.
THEOREM ResubmittedOnlyAfterFailureHolds ==
    Spec /\ []OneAtATime => []ResubmittedOnlyAfterFailure
<1>1. SInv => ResubmittedOnlyAfterFailure
  <2> SUFFICES ASSUME SInv, NEW t \in Track PROVE chain[t].submitted <= 1 + failures
    BY DEF ResubmittedOnlyAfterFailure
  <2>1. CountInv(t) /\ failures \in Nat /\ chain[t].submitted \in Nat
    BY SigningAssumption DEF SInv, OInv, IInv, TypeInv, TypeOK
  <2>2. CASE track[t].status = "signed_and_executed"
    BY <2>1, <2>2 DEF CountInv
  <2>3. CASE track[t].status = "signed"
    BY <2>1, <2>3 DEF CountInv
  <2>4. CASE track[t].status \notin {"signed", "signed_and_executed"}
    BY <2>1, <2>4 DEF CountInv
  <2> QED
    BY <2>2, <2>3, <2>4
<1> QED
  BY SInvHolds, <1>1, PTL

\* A transaction stays undecided only while somebody is still asked or the
\* accounts disagree, unless a handler died.
THEOREM OpenWaitsForSomebodyHolds == Spec /\ []OneAtATime => []OpenWaitsForSomebody
<1>1. SInv => OpenWaitsForSomebody
  BY DEF SInv, WaitInv, Waits, Busy, OpenWaitsForSomebody
<1> QED
  BY SInvHolds, <1>1, PTL

\* The transaction is carried on at every stage: an approved one by a handler
\* that counts or sends, a sent one by the handler that will record the result.
\* With fairness this is why it gets there; TLC checks that.
THEOREM NothingIsDroppedHolds == Spec /\ []OneAtATime => []NothingIsDropped
<1>1. SInv => NothingIsDropped
  <2> SUFFICES ASSUME SInv, NEW t \in Track, Unmixed(t), failures = 0
               PROVE  /\ AllSigned(t) /\ track[t].status # "denied" /\ chain[t].submitted = 0
                            => Busy(t, PC \ {"idle"})
                      /\ chain[t].submitted > 0
                            => track[t].status = "signed_and_executed" \/ Busy(t, {"record"})
    BY DEF NothingIsDropped
  <2>1. /\ CountInv(t) /\ WaitInv(t) /\ TableInv(t)
        /\ track[t].status \in SignatureStatus \cup {"none"} /\ chain[t].submitted \in Nat
        /\ track[t].status = "signed" => \E h \in Handler : Carries(h, t)
    BY DEF SInv, CarriedInv, OInv, IInv, TypeInv, TypeOK, TrackRow
  <2>2. ASSUME AllSigned(t), track[t].status # "denied", chain[t].submitted = 0
        PROVE  Busy(t, PC \ {"idle"})
    <3>1. track[t].status # "none"
      BY <2>1, <2>2 DEF TableInv, AllSigned
    <3>2. track[t].status # "signed_and_executed"
      BY <2>1, <2>2 DEF CountInv
    <3>3. CASE track[t].status = "signed"
      BY <2>1, <3>3 DEF Carries, Busy, PC
    <3>4. CASE track[t].status \in {"pending_signers", "partially_completed"}
      <4>1. ~Waits(t)
        BY <2>2 DEF AllSigned, Waits
      <4> QED
        BY <2>1, <3>4, <4>1 DEF WaitInv, Busy, PC
    <3> QED
      BY <2>1, <2>2, <3>1, <3>2, <3>3, <3>4 DEF SignatureStatus
  <2>3. ASSUME chain[t].submitted > 0
        PROVE  track[t].status = "signed_and_executed" \/ Busy(t, {"record"})
    BY <2>1, <2>3 DEF CountInv
  <2> QED
    BY <2>2, <2>3
<1> QED
  BY SInvHolds, <1>1, PTL

\* A closed track is not reopened or decided the other way, whatever the
\* accounts answer later, when they are answered for one after the other.
THEOREM ClosedIsFinalHolds == Spec /\ []OneAtATime => ClosedIsFinal
<1> DEFINE final(t) ==
            /\ track[t].status \in {"denied", "signed_and_executed"}
                    => track'[t].status = track[t].status
            /\ track[t].status = "signed" => track'[t].status \in {"signed", "signed_and_executed"}
<1>1. ASSUME SInv, [Next]_vars, NEW t \in Track PROVE final(t)
  <2>0. /\ IInv /\ track \in [Track -> TrackRow]
        /\ \A h \in Handler : CurrentInv(h) /\ RowInv(h)
    BY <1>1 DEF SInv, CarriedInv, IInv, TypeInv, TypeOK
  <2>1. ASSUME NEW h \in Handler, handler[h].t = t, Advance(h) \/ Fail(h) PROVE final(t)
    <3>1. CASE Settle(h)
      <4>1. ~Closed(track[t].status)
        BY <2>0, <2>1, <3>1 DEF CurrentInv, Settle
      <4> QED
        BY <4>1 DEF Closed
    <3>2. CASE Record(h)
      <4>1. handler[h].row = track[t] /\ track[t].status = "signed"
        BY <2>0, <2>1, <3>2 DEF CurrentInv, RowInv, Record
      <4>2. track'[t].status = "signed_and_executed"
        BY <2>0, <2>1, <3>2, <4>1, RecordWrites
      <4> QED
        BY <4>1, <4>2
    <3>3. CASE Close(h)
      <4>1. track'[t].status = track[t].status
        BY <2>0, <2>1, <3>3 DEF Close, TrackRow
      <4> QED
        BY <4>1
    <3>4. CASE ~Settle(h) /\ ~Record(h) /\ ~Close(h)
      <4>1. track' = track
        BY <2>1, <3>4 DEF Advance, Respond, Reload, LoadTrack, Tally, Refresh, Gather,
              Execute, Fail
      <4> QED
        BY <4>1
    <3> QED
      BY <3>1, <3>2, <3>3, <3>4
  <2>2. CASE ~\E h \in Handler : handler[h].t = t /\ (Advance(h) \/ Fail(h))
    BY <1>1, <2>0, <2>2, QuietStep DEF TablesKept
  <2> QED
    BY <2>1, <2>2
<1>2. SInv /\ [Next]_vars => [\A t \in Track : final(t)]_vars
  BY <1>1
<1> QED
  BY SInvHolds, <1>2, PTL DEF Spec, ClosedIsFinal

\* Nobody can take an approval back between the tally and the chain, unless a
\* handler died: the transaction that is sent has no denied request.
THEOREM DenialIsHeededHolds == Spec /\ []OneAtATime => DenialIsHeeded
<1> DEFINE heeded(t) ==
            chain'[t].submitted > chain[t].submitted /\ Unmixed(t) /\ failures = 0
                => \A s \in Party(t) : request[t][s].status # "denied"
<1>1. ASSUME SInv, [Next]_vars, NEW t \in Track,
             chain'[t].submitted > chain[t].submitted, Unmixed(t), failures = 0
      PROVE  \A s \in Party(t) : request[t][s].status # "denied"
  <2>0. /\ IInv /\ \A h \in Handler : CurrentInv(h)
        /\ chain \in [Track -> [submitted : 0..MaxSubmits, accepted : BOOLEAN]]
    BY <1>1 DEF SInv, CarriedInv, IInv, TypeInv, TypeOK
  <2>1. chain'[t] # chain[t]
    BY <1>1, <2>0
  <2>2. PICK h \in Handler : Execute(h) /\ handler[h].t = t
    <3>1. ASSUME NEW h \in Handler, Advance(h) \/ Fail(h) PROVE Execute(h) /\ handler[h].t = t
      <4>1. handler[h].t = t
        BY <2>0, <2>1, <3>1, StepIsLocal DEF TablesKept
      <4>2. Execute(h)
        BY <2>1, <3>1 DEF Advance, Respond, Reload, LoadTrack, Tally, Settle, Refresh, Gather,
              Record, Close, Fail
      <4> QED
        BY <4>1, <4>2
    <3>2. ASSUME NEW u \in Track, NEW p \in Payloads, SubmitTransaction(u, p) PROVE FALSE
      BY <2>1, <3>2 DEF SubmitTransaction
    <3>3. ASSUME NEW h \in Handler, NEW user \in User, NEW u \in Track, NEW s \in Slot,
                 NEW approved \in Answers, Lookup(h, user, u, s, approved)
          PROVE  FALSE
      BY <2>1, <3>3 DEF Lookup
    <3>4. ~UNCHANGED vars
      BY <2>1 DEF vars
    <3> QED
      BY <1>1, <3>1, <3>2, <3>3, <3>4 DEF Next
  <2>3. Unanimous(t)
    <3>1. handler[h].pc = "execute"
      BY <2>2 DEF Execute
    <3>2. Unanimous(t) \/ failures > 0 \/ ~Unmixed(t)
      <4>1. CurrentInv(h) /\ handler[h].t = t
        BY <2>0, <2>2
      <4> QED
        BY <3>1, <4>1 DEF CurrentInv
    <3> QED
      BY <1>1, <3>2
  <2> QED
    BY <2>3 DEF Unanimous
<1>2. SInv /\ [Next]_vars => [\A t \in Track : heeded(t)]_vars
  BY <1>1
<1> QED
  BY SInvHolds, <1>2, PTL DEF Spec, DenialIsHeeded
=============================================================================
