------------------------------- MODULE Signers -------------------------------
(***************************************************************************)
(* Who has to sign a transaction.                                          *)
(*                                                                         *)
(* A payload of /account/transaction/execute names, for the sender and for *)
(* the sponsor, nothing, one user, or a multisig with the members that     *)
(* shall sign (payload.py, Signers and MultiSig).  The server validates    *)
(* those entries against its tables (common.py), builds the signature      *)
(* block (construct_sigblock_entry) and posts one signature request per    *)
(* signer (post_signature_request).  When the requests are signed it       *)
(* gathers the signatures again per principal (signing.py,                 *)
(* _gather_address_and_signatures).                                        *)
(*                                                                         *)
(* Users and multisigs are constant here: no route changes the keys, the   *)
(* members or the status of an existing one.                               *)
(***************************************************************************)
EXTENDS Naturals, Sequences, FiniteSets, FiniteSetsExt

CONSTANTS
    User,       \* the registered users
    Msig,       \* the provisioned multisigs
    Members,    \* Members[m]: the member rows of m in table order
    Threshold,  \* Threshold[m]: the weight a signature of m has to reach
    Confirmed,  \* the multisigs with MultiSigStatus.confirmed
    None        \* a null column

Role == {"tx_sender", "tx_sponsor"}

Principal == User \cup Msig

\* One SignatureRequest row of a track: who signs, and in which role.
Slot == [as : Role, who : User]

MemberRow == [user : User, weight : Nat]

ASSUME PrincipalAssumption ==
    /\ User \cap Msig = {}
    /\ None \notin Principal

\* A user is a member of a multisig at most once.
ASSUME MembersAssumption ==
    /\ Members \in [Msig -> Seq(MemberRow)]
    /\ \A m \in Msig : \A i, j \in DOMAIN Members[m] :
            Members[m][i].user = Members[m][j].user => i = j

ASSUME ThresholdAssumption == Threshold \in [Msig -> Nat]

ASSUME ConfirmedAssumption == Confirmed \subseteq Msig

MemberUsers(m) == {Members[m][i].user : i \in DOMAIN Members[m]}

-----------------------------------------------------------------------------
(* The entries of a payload *)

DefaultEntry == [kind |-> "default"]
UserEntry(u) == [kind |-> "user", user |-> u]
\* An empty list and no list at all are the same to the code: both are false.
MsigEntry(m, signers) == [kind |-> "msig", msig |-> m, signers |-> signers]

Entry ==
    [kind : {"default"}] \cup [kind : {"user"}, user : User]
        \cup [kind : {"msig"}, msig : Msig, signers : Seq(User)]

Payload == [requestor : User, sender : Entry, sponsor : Entry]

\* The member rows whose address is in msig_signers.
Named(m, signers) ==
    {i \in DOMAIN Members[m] : \E k \in DOMAIN signers : signers[k] = Members[m][i].user}

\* The weight of some member rows.
WeightOf(m, rows) == MapThenSumSet(LAMBDA i : Members[m][i].weight, rows)

NamedWeight(m, signers) == WeightOf(m, Named(m, signers))

\* Mutant: the names that were not found are not counted.
NamedUncounted(m, signers) ==
    signers = <<>> \/ NamedWeight(m, signers) >= Threshold[m]

\* _valid_multisig_account: a named subset has to consist of members, each
\* named once, and to reach the threshold.  No list passes unchecked.
ValidMultisig(m, signers) ==
    \/ signers = <<>>
    \/ /\ Cardinality(Named(m, signers)) = Len(signers)
       /\ NamedWeight(m, signers) >= Threshold[m]

\* Of an entry that is a multisig: the checks between the payload and the
\* posted requests.  The list of signers stays None when the payload names
\* none, and post_signature_request cannot iterate over it.
Accepted(e) ==
    e.kind = "msig" =>
        /\ ValidMultisig(e.msig, e.signers)
        /\ e.msig \in Confirmed
        /\ e.signers # <<>>

\* The users that are asked to sign for the entry, the requestor by default
\* for the sender and nobody for the sponsor.
SignersOf(e, default) ==
    IF e.kind = "default" THEN default
    ELSE IF e.kind = "user" THEN {e.user}
    ELSE {Members[e.msig][i].user : i \in Named(e.msig, e.signers)}

\* explicit_sender and explicit_sponsor of the track.
AccountOf(e, default) ==
    IF e.kind = "default" THEN default ELSE IF e.kind = "user" THEN e.user ELSE e.msig

\* The slots post_signature_request creates.
PartyOf(p) ==
    [as : {"tx_sender"}, who : SignersOf(p.sender, {p.requestor})]
        \cup [as : {"tx_sponsor"}, who : SignersOf(p.sponsor, {})]

-----------------------------------------------------------------------------
(* Gathering the signatures of a multisig: _gather_msig_signature *)

\* Each request of the track, of the other role too, has to be a member's.
GatherRaises(m, party) == \E s \in party : s.who \notin MemberUsers(m)

\* The public keys are those of all requests, the signatures those of the
\* role: they only correspond when there is no request of the other role.
GatherMisaligned(role, party) == \E s \in party : s.as # role
=============================================================================
