---------------------------- MODULE Provisioning -----------------------------
(***************************************************************************)
(* What the administrator does with accounts and multisigs: registers      *)
(* them, one thread for each request, and pages through the accounts       *)
(* (admin.py).  This is where the tables come from that Signers takes for  *)
(* constants.                                                              *)
(*                                                                         *)
(* A multisig is built member by member: each is looked up by a SELECT,    *)
(* between which accounts are registered.  Its address is made of the      *)
(* members' keys, their weights and the threshold, and only the rows of    *)
(* the members are left to make it again when signatures are gathered      *)
(* (construct_multisig).                                                   *)
(***************************************************************************)
EXTENDS Accounts, FiniteSets

CONSTANTS
    MsigName,   \* names of multisigs
    MsigSetups, \* the payloads of /admin/multisig
    Maker,      \* the threads that run /admin/multisig
    Counts,     \* the page sizes that are asked for
    PageMax,    \* entries_per_page
    MaxMsigs    \* bound: rows of the multisig table

MsigSetup == [name : MsigName, threshold : Nat, attested : BOOLEAN,
              members : Seq([address : Address, weight : Nat])]

ASSUME ProvisioningAssumption ==
    /\ MsigSetups \subseteq MsigSetup
    /\ Counts \subseteq Nat
    /\ PageMax \in Nat \ {0}
    /\ MaxMsigs \in Nat

VARIABLES
    msig,       \* the multisig table with its members, in the order of the ids
    maker,      \* maker[k]: the multisig a thread is building
    pager       \* the administrator's walk through /admin/accounts

provisionVars == <<user, session, handler, pardoned, msig, maker, pager>>

-----------------------------------------------------------------------------
MemberRow == [user : 1..MaxUsers, weight : Nat]

\* The address of a multisig stands for what it is made of.
MsigAddress == [keys : Seq(Address), weights : Seq(Nat), threshold : Nat]

MsigRow == [name : MsigName, threshold : Nat, confirmed : BOOLEAN,
            members : Seq(MemberRow), address : MsigAddress]

NotMaking == [pc |-> "idle"]

MakerRecord == {NotMaking} \cup [pc : {"members"}, setup : MsigSetups, found : Seq(1..MaxUsers)]

\* seen: the ids on the pages so far; began: the accounts when the walk began.
PagerRecord ==
    [pc : {"idle", "page", "count", "done"}, page : 1..MaxUsers+1, size : 1..PageMax,
     seen : Seq(1..MaxUsers), items : 0..PageMax, began : 0..MaxUsers]

NoWalk == [pc |-> "idle", page |-> 1, size |-> 1, seen |-> <<>>, items |-> 0, began |-> 0]

ProvisionInit ==
    /\ Init
    /\ msig = <<>>
    /\ maker = [k \in Maker |-> NotMaking]
    /\ pager = NoWalk

-----------------------------------------------------------------------------
(* Multisigs *)

\* new_multi_sig_account, up to the registration.
CheckMsigName(k, i, setup) ==
    /\ maker[k] = NotMaking
    /\ session[i].admin
    /\ \A m \in DOMAIN msig : msig[m].name # setup.name
    /\ maker' = [maker EXCEPT ![k] = [pc |-> "members", setup |-> setup, found |-> <<>>]]
    /\ UNCHANGED <<user, session, handler, pardoned, msig, pager>>

\* The first account with an address, 0 if there is none.
FirstAt(address) == SelectInSeq(user, LAMBDA row : row.address = address)

\* Mutant: a member that is not found is added all the same.
LookupAnyMember(k) ==
    LET me == maker[k]
    IN  /\ me.pc = "members"
        /\ Len(me.found) < Len(me.setup.members)
        /\ maker' = [maker EXCEPT ![k].found =
                        Append(@, FirstAt(me.setup.members[Len(@) + 1].address))]
        /\ UNCHANGED <<user, session, handler, pardoned, msig, pager>>

\* _new_msig_reg looks the next member up.  One that is not found raises, and
\* the session is dropped with all that was added to it.
LookupMember(k) ==
    LET me == maker[k]
        u == FirstAt(me.setup.members[Len(me.found) + 1].address)
    IN  /\ me.pc = "members"
        /\ Len(me.found) < Len(me.setup.members)
        /\ maker' = [maker EXCEPT ![k] =
                        IF u = 0 THEN NotMaking ELSE [me EXCEPT !.found = Append(me.found, u)]]
        /\ UNCHANGED <<user, session, handler, pardoned, msig, pager>>

Weights(members) == [j \in DOMAIN members |-> members[j].weight]

Keys(ids) == [j \in DOMAIN ids |-> user[ids[j]].address]

\* Mutant: the members are stored in the order the accounts were registered.
MembersByAccount(setup, found) ==
    [j \in DOMAIN found |->
        [user |-> SortSeq(found, <)[j], weight |-> setup.members[j].weight]]

\* msig_members: rows are stored in the order of the payload.
MemberRows(setup, found) ==
    [j \in DOMAIN found |-> [user |-> found[j], weight |-> setup.members[j].weight]]

\* The address is computed and everything is committed at once, or pysui does
\* not take the keys, weights and threshold.
StoreMsig(k) ==
    LET me == maker[k]
        setup == me.setup
    IN  /\ me.pc = "members"
        /\ Len(me.found) = Len(setup.members)
        /\ \/ /\ Len(msig) < MaxMsigs
              /\ msig' = Append(msig,
                    [name      |-> setup.name,
                     threshold |-> setup.threshold,
                     confirmed |-> ~setup.attested,
                     members   |-> MemberRows(setup, me.found),
                     address   |-> [keys |-> Keys(me.found), weights |-> Weights(setup.members),
                                    threshold |-> setup.threshold]])
           \/ UNCHANGED msig
        /\ maker' = [maker EXCEPT ![k] = NotMaking]
        /\ UNCHANGED <<user, session, handler, pardoned, pager>>

-----------------------------------------------------------------------------
(* Paging: query_user_accounts, and the client that follows the cursor *)

PageSize(count) == IF count \in 1..PageMax THEN count ELSE PageMax

\* The first request of a walk.  The client asks for pages of one size.
BeginWalk(i, count) ==
    /\ pager.pc = "idle"
    /\ session[i].admin
    /\ pager' = [NoWalk EXCEPT !.pc = "page", !.size = PageSize(count), !.began = Len(user)]
    /\ UNCHANGED <<user, session, handler, pardoned, msig, maker>>

\* The rows of a page, in the order of the ids: LIMIT and OFFSET.
Page(page, size) ==
    LET first == (page - 1) * size + 1
        last == IF page * size < Len(user) THEN page * size ELSE Len(user)
    IN  [j \in 1..(IF first > last THEN 0 ELSE last - first + 1) |-> first + j - 1]

ReadPage ==
    /\ pager.pc = "page"
    /\ pager' = [pager EXCEPT !.pc = "count",
                              !.seen = @ \o Page(pager.page, pager.size),
                              !.items = Len(Page(pager.page, pager.size))]
    /\ UNCHANGED <<user, session, handler, pardoned, msig, maker>>

\* Mutant: a page is the last one unless it is as full as pages can be.
RemainsIfFull(page, size, items, total) == items = PageMax

\* has_remaining_data: there are more pages than this one.
HasRemaining(page, size, items, total) == page * size < total

\* The rows are counted by a statement of its own.  A client goes on while
\* there is a next page.
CountRows ==
    /\ pager.pc = "count"
    /\ pager' = IF HasRemaining(pager.page, pager.size, pager.items, Len(user))
                  THEN [pager EXCEPT !.pc = "page", !.page = @ + 1]
                  ELSE [pager EXCEPT !.pc = "done"]
    /\ UNCHANGED <<user, session, handler, pardoned, msig, maker>>

EndWalk ==
    /\ pager.pc = "done"
    /\ pager' = NoWalk
    /\ UNCHANGED <<user, session, handler, pardoned, msig, maker>>

-----------------------------------------------------------------------------
\* The administrator's part of Accounts; no other route writes these tables'
\* names, keys and members.
Register ==
    /\ \/ \E i \in Sid :
            \/ AdminLogin(i) \/ AdminLogoff(i)
            \/ \E h \in Handler, batch \in Batches : CheckNames(h, i, batch)
       \/ \E h \in Handler : InsertUsers(h)
    /\ UNCHANGED <<msig, maker, pager>>

ProvisionNext ==
    \/ Register
    \/ \E i \in Sid :
        \/ \E k \in Maker, setup \in MsigSetups : CheckMsigName(k, i, setup)
        \/ \E count \in Counts : BeginWalk(i, count)
    \/ \E k \in Maker : LookupMember(k) \/ StoreMsig(k)
    \/ ReadPage \/ CountRows \/ EndWalk

ProvisionSpec == ProvisionInit /\ [][ProvisionNext]_provisionVars
-----------------------------------------------------------------------------
(* Properties *)

ProvisionTypeOK ==
    /\ TypeOK
    /\ msig \in Seq(MsigRow)
    /\ Len(msig) <= MaxMsigs
    /\ maker \in [Maker -> MakerRecord]
    /\ pager \in PagerRecord

\* construct_multisig: the multisig that the rows of m make.
Reconstructed(row) ==
    [keys      |-> [j \in DOMAIN row.members |-> user[row.members[j].user].address],
     weights   |-> Weights(row.members),
     threshold |-> row.threshold]

\* The rows of a multisig make the address it was registered with, in whatever
\* order its members were registered and whatever is registered later: a
\* signature that is gathered from the rows is one of the stored address.
MsigIntact == \A m \in DOMAIN msig : msig[m].address = Reconstructed(msig[m])

\* Signers, with the tables as they are for its constants.  Multisigs get
\* numbers behind those of the accounts.
Numbered == {MaxUsers + m : m \in DOMAIN msig}

Tables == INSTANCE Signers WITH
    User      <- DOMAIN user,
    Msig      <- Numbered,
    Members   <- [n \in Numbered |-> msig[n - MaxUsers].members],
    Threshold <- [n \in Numbered |-> msig[n - MaxUsers].threshold],
    Confirmed <- {n \in Numbered : msig[n - MaxUsers].confirmed},
    None      <- 0

\* The accounts that an address means.
Addressed == {u \in DOMAIN user : FirstAt(user[u].address) = u}

\* If a payload names a multisig and some accounts and is accepted, the accounts
\* asked to sign are exactly the ones it names, they are members, and together
\* they can produce a signature that reaches the threshold
\* (_valid_multisig_account counts and adds while it walks over the members, so
\* a name that is no member or is repeated must not slip through the count).
\* (Of multisigs without a repeated member.)
NamedSignersSuffice ==
    \A n \in Numbered :
        LET members == msig[n - MaxUsers].members
        IN  Cardinality(Tables!MemberUsers(n)) = Len(members) =>
                \A signers \in BoundedSeq(Addressed, 3) :
                    LET entry == Tables!MsigEntry(n, signers)
                        asked == Tables!SignersOf(entry, {})
                    IN  Tables!Accepted(entry) =>
                            /\ asked = {signers[j] : j \in DOMAIN signers}
                            /\ asked \subseteq Tables!MemberUsers(n)
                            /\ Tables!WeightOf(n, {j \in DOMAIN members : members[j].user \in asked})
                                    >= msig[n - MaxUsers].threshold

\* A client that follows the cursor with pages of one size sees each account
\* that was registered before it began, and no account twice, although the rows
\* of a page and their number are read at different times and accounts are
\* registered all along.  (With a size that changes on the way, as in the
\* integration tests, accounts between two pages are skipped.)
WalkSeesAll ==
    /\ \A j, l \in DOMAIN pager.seen : pager.seen[j] = pager.seen[l] => j = l
    /\ pager.pc = "done" => \A u \in 1..pager.began : \E j \in DOMAIN pager.seen : pager.seen[j] = u
=============================================================================
