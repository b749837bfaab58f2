------------------------------ MODULE Reports -------------------------------
(***************************************************************************)
(* What an account is told about its transactions while they are handled:  *)
(* /account/signing-requests and /account/transaction (account.py).        *)
(*                                                                         *)
(* Both list the account's own requests that pass a filter, by one SELECT. *)
(* The first route answers with these.  The second reads, track by track,  *)
(* the track and then its requests: statements of their own, between which *)
(* the handlers of Signing commit.  The database session does not replace  *)
(* the rows it has: the listed requests stay in the report as they were    *)
(* when they were listed.                                                  *)
(***************************************************************************)
EXTENDS Signing

CONSTANTS
    Reader,     \* the threads that answer a query
    Filters     \* the filters that queries come with

\* SignRequestFilter: a role, or none, and the flags that are set.
Filter == [as : {"none", "sender", "sponsor", "other"}, flags : SUBSET SignerStatus]

ASSUME ReportsAssumption == Filters \subseteq Filter

VARIABLE reader     \* reader[r]: where the thread is and what it has read

reportVars == <<track, request, handler, chain, failures, reader>>

Unread == [s \in Slot |-> NoRequest]

ReaderRecord ==
    [pc      : {"idle", "listed", "signers", "shown"},
     left    : SUBSET Track,                    \* tracks still to be reported
     listed  : [Track -> [Slot -> RequestRow]], \* requests, ireq
     t       : Track \cup {None},               \* the track that is reported
     row     : TrackRow,                        \* track
     signers : [Slot -> RequestRow]]            \* track.requests

NoReport == [pc |-> "idle", left |-> {}, listed |-> [t \in Track |-> Unread],
             t |-> None, row |-> NoTrack, signers |-> Unread]

ReportsInit == Init /\ reader = [r \in Reader |-> NoReport]

-----------------------------------------------------------------------------
(* The filter: _requested_filtered *)

\* A role that is none of the two lists nothing.
WantedRoles(filter) ==
    IF filter.as = "none" THEN Role
    ELSE IF filter.as = "sender" THEN {"tx_sender"}
    ELSE IF filter.as = "sponsor" THEN {"tx_sponsor"}
    ELSE {}

\* No flag is all flags.
WantedStatuses(filter) ==
    IF filter.flags = {} THEN SignerStatus ELSE filter.flags

Wanted(user, filter, t, s) ==
    /\ s.who = user
    /\ s.as \in WantedRoles(filter)
    /\ request[t][s].status \in WantedStatuses(filter)

-----------------------------------------------------------------------------
(* The queries, step by step *)

\* The SELECT of the account's requests.  A query that lists nothing is over.
Query(r, user, filter) ==
    LET lists(t) == \E s \in Slot : Wanted(user, filter, t, s)
    IN  /\ reader[r].pc = "idle"
        /\ \E t \in Track : lists(t)
        /\ reader' = [reader EXCEPT ![r] =
                [NoReport EXCEPT
                    !.pc = "listed",
                    !.left = {t \in Track : lists(t)},
                    !.listed = [t \in Track |-> [s \in Slot |->
                        IF Wanted(user, filter, t, s) THEN request[t][s] ELSE NoRequest]]]]

\* get_transaction_results: the track of a listed request.  A track that was
\* reported is not read again, its rows are those the session has.
ReadTrack(r) ==
    /\ reader[r].pc \in {"listed", "shown"}
    /\ \E t \in reader[r].left :
            reader' = [reader EXCEPT ![r] =
                [@ EXCEPT !.pc = "signers", !.left = reader[r].left \ {t}, !.t = t,
                          !.row = track[t], !.signers = Unread]]

\* Mutant: the filter is applied to the requests of the track too.
ListedSigners(listed, stored) == [s \in {r \in Slot : listed[r] # NoRequest} |-> listed[s]]

\* The listed requests as they were listed, the others as they are stored.
SignersRead(listed, stored) ==
    [s \in Slot |-> IF listed[s] = NoRequest THEN stored[s] ELSE listed[s]]

\* Mutant: the track is refreshed after its requests were read.
ReadSignersThenTrack(r) ==
    LET me == reader[r]
    IN  /\ me.pc = "signers"
        /\ \/ /\ me.signers = Unread
              /\ reader' = [reader EXCEPT
                    ![r].signers = SignersRead(me.listed[me.t], request[me.t])]
           \/ /\ me.signers # Unread
              /\ reader' = [reader EXCEPT ![r].pc = "shown", ![r].row = track[me.t]]

\* The requests of the track.
ReadSigners(r) ==
    LET me == reader[r]
    IN  /\ me.pc = "signers"
        /\ reader' = [reader EXCEPT ![r] =
                [@ EXCEPT !.pc = "shown",
                          !.signers = SignersRead(me.listed[me.t], request[me.t])]]

\* The answer is sent: /account/signing-requests after the listing, or
\* /account/transaction after the last track.
SendReport(r) ==
    /\ \/ reader[r].pc = "listed"
       \/ reader[r].pc = "shown" /\ reader[r].left = {}
    /\ reader' = [reader EXCEPT ![r] = NoReport]

ReaderStep(r) ==
    \/ \E user \in User, filter \in Filters : Query(r, user, filter)
    \/ ReadTrack(r) \/ ReadSigners(r) \/ SendReport(r)

ReportsNext ==
    \/ Next /\ UNCHANGED reader
    \/ (\E r \in Reader : ReaderStep(r)) /\ UNCHANGED vars

ReportsSpec == ReportsInit /\ [][ReportsNext]_reportVars

\* As FairSpec: threads that answer requests keep running, queries need not come.
FairReportsSpec == ReportsSpec /\ \A h \in Handler : WF_vars(Advance(h))
-----------------------------------------------------------------------------
(* Properties *)

ReaderTypeOK == reader \in [Reader -> ReaderRecord]

\* The requests of a report that were read after its track.
ReadAfter(me) == {s \in Slot : me.signers[s] # NoRequest /\ me.listed[me.t][s] = NoRequest}

\* A report is put together from rows of different moments, and is true all the
\* same: the track is read first, so a track that is shown as closed comes with
\* the answers it was closed by, one that is shown as signed with the signature
\* of each other account, and a result that says passed was accepted by the
\* chain (get_transaction_results).
ReportIsBacked ==
    \A r \in Reader :
        LET me == reader[r]
        IN  me.pc = "shown" =>
                /\ Closed(me.row.status) =>
                        \A s \in ReadAfter(me) : me.signers[s].status # "pending"
                /\ me.row.status \in {"signed", "signed_and_executed"} =>
                        \A s \in ReadAfter(me) : me.signers[s].signature = s.who
                /\ me.row.passed = "passed" => chain[me.t].accepted
=============================================================================
