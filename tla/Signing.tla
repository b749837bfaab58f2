------------------------------- MODULE Signing -------------------------------
(***************************************************************************)
(* The life of a transaction: submitted by an account, answered by the     *)
(* accounts that have to sign it, and sent to the chain when all signed.   *)
(*                                                                         *)
(* State is in two tables, SignatureTrack (one row per transaction) and    *)
(* SignatureRequest (one row per slot of the track), and in the request    *)
(* handlers of /account/sign that are under way.  A handler runs on a      *)
(* thread of its own with a database session of its own.  Each statement   *)
(* it sends, each commit and the call to the chain is a step: between two  *)
(* steps the handlers of other requests run.  The database session keeps   *)
(* the rows it loaded and writes, at a commit, only the columns whose      *)
(* value differs from the loaded one; a commit makes it forget its rows.   *)
(***************************************************************************)
EXTENDS Signers

CONSTANTS
    Track,       \* the identities of the transactions
    Handler,     \* the threads that can run /account/sign at a time
    Payloads,    \* the payloads that are submitted
    Answers,     \* what signers answer: {TRUE} if nobody denies
    MaxFail,     \* bound: handlers that die half way
    MaxSubmits   \* bound: submissions of one transaction that are told apart

ASSUME SigningAssumption ==
    /\ None \notin Track
    /\ Payloads \subseteq Payload
    /\ Answers \subseteq BOOLEAN
    /\ MaxFail \in Nat
    /\ MaxSubmits \in Nat \ {0}

VARIABLES
    track,      \* track[t]: the SignatureTrack row
    request,    \* request[t][s]: the SignatureRequest row of slot s
    handler,    \* handler[h]: where the thread is and what it holds
    chain,      \* chain[t]: what the chain has seen of the transaction
    failures    \* how many handlers died so far

vars == <<track, request, handler, chain, failures>>

-----------------------------------------------------------------------------
(* Rows and records *)

SignatureStatus ==
    {"pending_signers", "partially_completed", "denied", "signed", "signed_and_executed"}

SignerStatus == {"pending", "signed", "denied"}

TrackRow == [status  : SignatureStatus \cup {"none"},
             sender  : Principal \cup {None},
             sponsor : Principal \cup {None},
             passed  : {"unset", "passed", "failed"}]

RequestRow == [status : SignerStatus \cup {"none"}, signature : User \cup {None}]

NoTrack == [status |-> "none", sender |-> None, sponsor |-> None, passed |-> "unset"]

NoRequest == [status |-> "none", signature |-> None]

PC == {"idle", "respond", "reload", "load", "tally", "settle", "refresh",
       "gather", "execute", "record", "close"}

HandlerRecord ==
    [pc       : PC,
     user     : User \cup {None},              \* session["user_key"]
     t        : Track \cup {None},             \* sign_request.tracking
     s        : Slot \cup {None},              \* sign_request
     approved : BOOLEAN,                       \* sig_resp.approved
     seen     : RequestRow,                    \* sign_request as looked up
     own      : RequestRow,                    \* sign_request after the first commit
     row      : TrackRow,                      \* track as last loaded
     verdict  : SignatureStatus \cup {"none"}, \* track.status before its commit
     complete : BOOLEAN,                       \* the gathered signatures fit
     outcome  : {"unset", "passed", "failed"}] \* what the chain answered

Idle == [pc |-> "idle", user |-> None, t |-> None, s |-> None, approved |-> FALSE,
         seen |-> NoRequest, own |-> NoRequest, row |-> NoTrack,
         verdict |-> "none", complete |-> FALSE, outcome |-> "unset"]

Untouched == [submitted |-> 0, accepted |-> FALSE]

Init ==
    /\ track = [t \in Track |-> NoTrack]
    /\ request = [t \in Track |-> [s \in Slot |-> NoRequest]]
    /\ handler = [h \in Handler |-> Idle]
    /\ chain = [t \in Track |-> Untouched]
    /\ failures = 0

\* The slots of the requests of t.
Party(t) == {s \in Slot : request[t][s].status # "none"}

-----------------------------------------------------------------------------
(* Submission: one handler, one commit *)

\* _submit_transaction and post_signature_request.  A payload that is not
\* accepted raises before anything is written.
SubmitTransaction(t, p) ==
    /\ track[t].status = "none"
    /\ Accepted(p.sender)
    /\ Accepted(p.sponsor)
    /\ track' = [track EXCEPT ![t] =
                    [status  |-> "pending_signers",
                     sender  |-> AccountOf(p.sender, p.requestor),
                     sponsor |-> AccountOf(p.sponsor, None),
                     passed  |-> "unset"]]
    /\ request' = [request EXCEPT ![t] =
                    [s \in Slot |-> IF s \in PartyOf(p)
                                      THEN [status |-> "pending", signature |-> None]
                                      ELSE NoRequest]]
    /\ UNCHANGED <<handler, chain, failures>>

-----------------------------------------------------------------------------
(* /account/sign, step by step *)

\* Mutant: whoever is logged in may answer the request.
AnybodyMaySign(user, s) == TRUE

\* The request is answered by the account it was posted to.
MaySign(user, s) == s.who = user

\* signature_update: the row is looked up by the id in the payload.  It need
\* not be pending.  The answer of another account changes nothing.
Lookup(h, user, t, s, approved) ==
    /\ handler[h].pc = "idle"
    /\ request[t][s].status # "none"
    /\ MaySign(user, s)
    /\ handler' = [handler EXCEPT ![h] =
                    [Idle EXCEPT !.pc = "respond", !.user = user, !.t = t, !.s = s,
                                 !.approved = approved, !.seen = request[t][s]]]
    /\ UNCHANGED <<track, request, chain, failures>>

\* Mutant: the outcome of the payload is stored, which is no SignerStatus.
AnswerAsGiven(approved, user, seen) ==
    [status    |-> IF approved THEN "accepted" ELSE "rejected",
     signature |-> IF approved THEN user ELSE seen.signature]

\* A denial leaves the signature column as it is.
Answer(approved, user, seen) ==
    [status    |-> IF approved THEN "signed" ELSE "denied",
     signature |-> IF approved THEN user ELSE seen.signature]

\* What a commit leaves in a column: a value that is the loaded one is not
\* part of the UPDATE.
Written(stored, loaded, new) == IF new = loaded THEN stored ELSE new

\* _update_signatures: the answer is stored and committed.
Respond(h) ==
    LET me == handler[h]
        new == Answer(me.approved, me.user, me.seen)
    IN  /\ me.pc = "respond"
        /\ request' = [request EXCEPT ![me.t][me.s] =
                        [status    |-> Written(@.status, me.seen.status, new.status),
                         signature |-> Written(@.signature, me.seen.signature, new.signature)]]
        /\ handler' = [handler EXCEPT ![h].pc = "reload", ![h].seen = NoRequest]
        /\ UNCHANGED <<track, chain, failures>>

\* Reading sig_req.signature_track refreshes the request first.  From here to
\* the next commit the session shows this copy of it.
Reload(h) ==
    /\ handler[h].pc = "reload"
    /\ handler' = [handler EXCEPT ![h].pc = "load",
                                  ![h].own = request[handler[h].t][handler[h].s]]
    /\ UNCHANGED <<track, request, chain, failures>>

\* Mutant: an executed track is not recognised as closed.
ClosedBeforeExecution(status) == status \in {"denied", "signed"}

\* _update_tracker: "If already denied, signed or signed and executed".
Closed(status) == status \in {"denied", "signed", "signed_and_executed"}

\* Mutant: a track that is signed is not processed.
ProcessDeniedOnly(status) == IF status = "denied" THEN "close" ELSE "idle"

\* _process_tracker: which branch a track status takes.
ProcessTracker(status) ==
    IF status = "signed" THEN "gather" ELSE IF status = "denied" THEN "close" ELSE "idle"

\* The step after the track was loaded; the handler ends when there is none.
Continue(h, pc, row) ==
    handler' = [handler EXCEPT ![h] =
                    IF pc = "idle" THEN Idle ELSE [@ EXCEPT !.pc = pc, !.row = row]]

\* _update_tracker loads the track and leaves early if it is closed.
LoadTrack(h) ==
    LET row == track[handler[h].t]
    IN  /\ handler[h].pc = "load"
        /\ Continue(h, IF Closed(row.status) THEN ProcessTracker(row.status) ELSE "tally", row)
        /\ UNCHANGED <<track, request, chain, failures>>

\* Mutant: a single signer is told apart, but its signature is not counted.
SingleIgnoredVerdict(party, status, before) ==
    IF \A s \in party : status[s] = "denied" THEN "denied"
    ELSE IF Cardinality(party) = 1 THEN before
    ELSE IF \A s \in party : status[s] = "signed" THEN "signed"
    ELSE "partially_completed"

\* Mutant: the track is signed once everybody answered and not all denied.
AnsweredVerdict(party, status, before) ==
    IF \A s \in party : status[s] = "denied" THEN "denied"
    ELSE IF \A s \in party : status[s] # "pending" THEN "signed"
    ELSE IF Cardinality(party) = 1 THEN before ELSE "partially_completed"

\* The tally of the requests' statuses.  With one request the track keeps its
\* status unless that request is answered.
Verdict(party, status, before) ==
    IF \A s \in party : status[s] = "denied" THEN "denied"
    ELSE IF \A s \in party : status[s] = "signed" THEN "signed"
    ELSE IF Cardinality(party) = 1 THEN before ELSE "partially_completed"

\* The requests are loaded by one SELECT, but the session does not replace
\* the copy it has of the handler's own request.
Tally(h) ==
    LET me == handler[h]
        status == [s \in Slot |-> IF s = me.s THEN me.own.status ELSE request[me.t][s].status]
    IN  /\ me.pc = "tally"
        /\ handler' = [handler EXCEPT
                ![h].pc = "settle",
                ![h].verdict = Verdict(Party(me.t), status, me.row.status)]
        /\ UNCHANGED <<track, request, chain, failures>>

\* The commit of the tally: the session forgets its rows.  Nobody looks whether
\* the track changed since it was loaded.
Settle(h) ==
    LET me == handler[h]
    IN  /\ me.pc = "settle"
        /\ track' = [track EXCEPT ![me.t].status = Written(@, me.row.status, me.verdict)]
        /\ handler' = [handler EXCEPT ![h].pc = "refresh", ![h].own = NoRequest,
                                      ![h].row = NoTrack, ![h].verdict = "none"]
        /\ UNCHANGED <<request, chain, failures>>

\* _process_tracker reads the track, which the commit expired.
Refresh(h) ==
    LET row == track[handler[h].t]
    IN  /\ handler[h].pc = "refresh"
        /\ Continue(h, ProcessTracker(row.status), row)
        /\ UNCHANGED <<track, request, chain, failures>>

\* The signature of slot s in the handler's session: the copy of its own request
\* if no commit came since it was read (the track was closed already).
Held(me, s) ==
    IF s = me.s /\ me.own # NoRequest THEN me.own.signature ELSE request[me.t][s].signature

\* Some member check fails while the signatures are gathered.
Raises(row, party) ==
    \/ row.sender \in Msig /\ GatherRaises(row.sender, party)
    \/ row.sponsor \in Msig /\ GatherRaises(row.sponsor, party)

\* The gathered signatures are all there and belong to the keys.
WellSigned(me, party) ==
    /\ \A s \in party : Held(me, s) # None
    /\ me.row.sender \in Msig => ~GatherMisaligned("tx_sender", party)
    /\ me.row.sponsor \in Msig => ~GatherMisaligned("tx_sponsor", party)

\* _gather_address_and_signatures.  If signatures are missing or do not match
\* the keys, pysui raises or builds a signature the chain refuses.
Gather(h) ==
    LET me == handler[h]
        party == Party(me.t)
    IN  /\ me.pc = "gather"
        /\ \/ /\ ~Raises(me.row, party)
              /\ handler' = [handler EXCEPT ![h].pc = "execute",
                                            ![h].complete = WellSigned(me, party)]
           \/ /\ Raises(me.row, party) \/ ~WellSigned(me, party)
              /\ handler' = [handler EXCEPT ![h] = Idle]
        /\ UNCHANGED <<track, request, chain, failures>>

\* The call to the chain.  It may refuse any transaction; one that is not
\* properly signed it does refuse.
Execute(h) ==
    LET me == handler[h]
    IN  /\ me.pc = "execute"
        /\ \E outcome \in {"passed", "failed"} :
            /\ outcome = "passed" => me.complete
            /\ handler' = [handler EXCEPT ![h].pc = "record", ![h].outcome = outcome]
            /\ chain' = [chain EXCEPT ![me.t] =
                    [submitted |-> IF @.submitted < MaxSubmits THEN @.submitted + 1
                                                               ELSE MaxSubmits,
                     accepted  |-> @.accepted \/ outcome = "passed"]]
        /\ UNCHANGED <<track, request, failures>>

\* Mutant: only what the chain accepted is recorded.
RecordedIfPassed(row, outcome) ==
    IF outcome = "passed" THEN [status |-> "signed_and_executed", passed |-> outcome]
                          ELSE [status |-> row.status, passed |-> row.passed]

\* Whatever the chain answered, the track is executed.
Recorded(row, outcome) ==
    [status |-> "signed_and_executed", passed |-> outcome]

\* The commit of the result.
Record(h) ==
    LET me == handler[h]
        new == Recorded(me.row, me.outcome)
    IN  /\ me.pc = "record"
        /\ track' = [track EXCEPT
                ![me.t].status = Written(@, me.row.status, new.status),
                ![me.t].passed = Written(@, me.row.passed, new.passed)]
        /\ handler' = [handler EXCEPT ![h] = Idle]
        /\ UNCHANGED <<request, chain, failures>>

\* "Signing denied."
Close(h) ==
    LET me == handler[h]
    IN  /\ me.pc = "close"
        /\ track' = [track EXCEPT ![me.t].passed = Written(@, me.row.passed, "failed")]
        /\ handler' = [handler EXCEPT ![h] = Idle]
        /\ UNCHANGED <<request, chain, failures>>

\* The process is killed, the database is locked for too long, or the call to
\* the chain does not return: what was not committed is lost.
Fail(h) ==
    /\ handler[h].pc # "idle"
    /\ failures < MaxFail
    /\ failures' = failures + 1
    /\ handler' = [handler EXCEPT ![h] = Idle]
    /\ UNCHANGED <<track, request, chain>>

-----------------------------------------------------------------------------
Advance(h) ==
    \/ Respond(h) \/ Reload(h) \/ LoadTrack(h) \/ Tally(h) \/ Settle(h)
    \/ Refresh(h) \/ Gather(h) \/ Execute(h) \/ Record(h) \/ Close(h)

Next ==
    \/ \E t \in Track, p \in Payloads : SubmitTransaction(t, p)
    \/ \E h \in Handler :
        \/ \E user \in User, t \in Track, s \in Slot, approved \in Answers :
                Lookup(h, user, t, s, approved)
        \/ Advance(h)
        \/ Fail(h)

Spec == Init /\ [][Next]_vars

\* A thread that has begun keeps running; nobody has to submit or answer.
FairSpec == Spec /\ \A h \in Handler : WF_vars(Advance(h))
-----------------------------------------------------------------------------
(* Properties *)

TypeOK ==
    /\ track \in [Track -> TrackRow]
    /\ request \in [Track -> [Slot -> RequestRow]]
    /\ handler \in [Handler -> HandlerRecord]
    /\ chain \in [Track -> [submitted : 0..MaxSubmits, accepted : BOOLEAN]]
    /\ failures \in 0..MaxFail

\* Every account that has to sign t has posted a signature of its own.
Consented(t) == \A s \in Party(t) : request[t][s].signature = s.who

AllSigned(t) == Party(t) # {} /\ \A s \in Party(t) : request[t][s].status = "signed"

\* A transaction goes to the chain, and its track says that it was signed,
\* only after each account that has to sign it approved it in its own
\* session, however the handlers of the answers interleave and wherever they
\* die ("When all signatures satisfied, submits transaction for execution").
ConsentedSubmission ==
    \A t \in Track :
        chain[t].submitted > 0 \/ track[t].status \in {"signed", "signed_and_executed"}
            => Consented(t)

\* A transaction that is not decided waits for somebody: when no answer is being
\* handled and no handler died, either a request of it is still pending or its
\* accounts disagree, which the tally leaves open (see DenialDenies).  Otherwise
\* it would stay open with nobody left to ask.  (Holds when answers are handled
\* one at a time.)
OpenWaitsForSomebody ==
    \A t \in Track :
        /\ track[t].status \in {"pending_signers", "partially_completed"}
        /\ \A h \in Handler : handler[h].t # t
        /\ failures = 0
        => \/ \E s \in Party(t) : request[t][s].status = "pending"
           \/ {request[t][s].status : s \in Party(t)} = {"signed", "denied"}

\* The member rows of m whose user has signed t in a role.
SignedRows(t, m, role) ==
    {i \in DOMAIN Members[m] :
        LET s == [as |-> role, who |-> Members[m][i].user]
        IN  s \in Party(t) /\ request[t][s].signature = s.who}

\* When a transaction went to the chain, the members that signed it themselves
\* carry, for each multisig of the transaction and in its role, at least the
\* threshold's weight.  The weights are checked once, of the names in the payload
\* (_valid_multisig_account); the signatures come later, one by one, and nothing
\* adds their weights up again before they are sent.
SubmissionMeetsThreshold ==
    \A t \in Track : chain[t].submitted > 0 =>
        \A role \in Role :
            LET m == IF role = "tx_sender" THEN track[t].sender ELSE track[t].sponsor
            IN  m \in Msig => WeightOf(m, SignedRows(t, m, role)) >= Threshold[m]

\* What the track tells the requestor is what happened: a denied transaction
\* never reached the chain, an executed one did, and a result that says passed
\* was accepted by the chain.  (Holds when answers are handled one at a time.)
ResultMatchesChain ==
    \A t \in Track :
        /\ track[t].status = "denied" => chain[t].submitted = 0
        /\ track[t].status = "signed_and_executed" => chain[t].submitted > 0
        /\ track[t].passed = "passed" => chain[t].accepted
        /\ track[t].passed = "failed" /\ chain[t].accepted => failures > 0

\* A transaction is sent to the chain again only because a handler died between
\* the call and the commit of its result: accounts may answer as often as they
\* like.  (Holds when answers are handled one at a time.)
ResubmittedOnlyAfterFailure ==
    \A t \in Track : chain[t].submitted <= 1 + failures

\* A closed track is not reopened or decided the other way, whatever the
\* accounts answer later.  (Holds when answers are handled one at a time.)
ClosedIsFinal ==
    [][\A t \in Track :
        /\ track[t].status \in {"denied", "signed_and_executed"}
                => track'[t].status = track[t].status
        /\ track[t].status = "signed" => track'[t].status \in {"signed", "signed_and_executed"}
      ]_vars

\* The handlers of t are in one of some phases.
Busy(t, phases) == \E h \in Handler : handler[h].t = t /\ handler[h].pc \in phases

\* No multisig shares the transaction with the account of the other role: the
\* signatures of a multisig are gathered over the requests of both roles.
Unmixed(t) ==
    /\ track[t].sponsor \notin Msig
    /\ track[t].sender \in Msig => track[t].sponsor = None

\* A transaction that is signed is never dropped between the tally and the
\* chain: as long as the track says signed, some handler has yet to look at it,
\* to gather its signatures, to send it or to record the result, however the
\* handlers of its answers overtake each other and overwrite its status.  Only
\* a handler that died leaves it behind: nobody looks for such transactions.
SignedIsCarried ==
    \A t \in Track :
        track[t].status = "signed" /\ Unmixed(t) /\ failures = 0
            => Busy(t, {"refresh", "gather", "execute", "record"})

\* At each stage of its way some handler carries the transaction on, unless one
\* died: when all accounts approved it and it was not sent yet, and when it was
\* sent and the track does not say so yet.  (Holds when answers are handled one
\* at a time.)
NothingIsDropped ==
    \A t \in Track :
        Unmixed(t) /\ failures = 0 =>
            /\ AllSigned(t) /\ track[t].status # "denied" /\ chain[t].submitted = 0
                    => Busy(t, PC \ {"idle"})
            /\ chain[t].submitted > 0
                    => track[t].status = "signed_and_executed" \/ Busy(t, {"record"})

\* "Once all required signatures are returned approved, the transaction is
\* submitted to Sui for execution", unless it was denied before or a handler
\* died.  (Holds when answers are handled one at a time and no multisig shares
\* the transaction with the account or multisig of the other role.)
FullyApprovedIsSubmitted ==
    \A t \in Track : (AllSigned(t) /\ track[t].status # "denied")
                        ~> (chain[t].submitted > 0 \/ failures > 0)

\* A track does not stay in the state between the tally and the result: some
\* handler is on its way to the chain, also when handlers overtake each other,
\* unless one died.
SignedIsTransient ==
    \A t \in Track : (track[t].status = "signed" /\ Unmixed(t))
                        ~> (track[t].status # "signed" \/ failures > 0)

\* The result reaches the requestor: what was submitted is recorded, unless a
\* handler died.  (Holds when answers are handled one at a time.)
SubmittedIsRecorded ==
    \A t \in Track : (chain[t].submitted > 0)
                        ~> (track[t].status = "signed_and_executed" \/ failures > 0)

\* "denied: If any one has denied, the entire transaction won't run": once the
\* answers are handled, a transaction that an account has denied and that was not
\* sent is denied.
DenialDenies ==
    \A t \in Track :
        /\ \E s \in Party(t) : request[t][s].status = "denied"
        /\ chain[t].submitted = 0
        /\ \A h \in Handler : handler[h].t # t
        => track[t].status = "denied"

\* "If any one has denied, the entire transaction won't run" (SignatureStatus):
\* no request stands denied when the transaction is sent to the chain.
DeniedDoesNotRun ==
    [][\A t \in Track : chain'[t].submitted > chain[t].submitted =>
            \A s \in Party(t) : request[t][s].status # "denied"]_vars

\* What holds of it: only a handler that died between the tally and the chain
\* gives an account the time to take its approval back before the transaction is
\* sent after all.  (Holds when answers are handled one at a time.)
DenialIsHeeded ==
    [][\A t \in Track :
        chain'[t].submitted > chain[t].submitted /\ Unmixed(t) /\ failures = 0
            => \A s \in Party(t) : request[t][s].status # "denied"]_vars

\* The slots of t that consented.
Given(t) == {s \in Party(t) : request[t][s].signature = s.who}

Promise == INSTANCE Consent WITH
    asked <- [t \in Track |-> Party(t)],
    given <- [t \in Track |-> Given(t)],
    sent  <- {t \in Track : chain[t].submitted > 0}

\* Seen from outside, the service only asks a set of accounts once, collects
\* their consent, never drops one that was given, and sends what everybody
\* asked consented to (signing.py as a whole against Consent).
ImplementsConsent == Promise!Spec
=============================================================================
