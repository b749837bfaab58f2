------------------------- MODULE ProvisioningProofs --------------------------
(***************************************************************************)
(* Registration of multisigs and paging, for any number of threads, names, *)
(* payloads and page sizes.                                                *)
(*                                                                         *)
(* Rows of accounts are only appended and their addresses never change, so *)
(* the ids that a thread has found and those in the rows of members go on  *)
(* meaning the same keys.  A walk has seen all accounts up to the end of   *)
(* its last page that were there when it began, and nothing behind it.     *)
(***************************************************************************)
EXTENDS Provisioning, AccountsProofs, NamesProofs

Making(k) == maker[k].pc = "members"

MakingRecord == [pc : {"members"}, setup : MsigSetups, found : Seq(1..MaxUsers)]

\* The ids of accounts that were found are those of rows.
FoundExist ==
    \A k \in Maker : Making(k) => \A j \in DOMAIN maker[k].found :
        maker[k].found[j] \in 1..Len(user)

MembersExist ==
    \A m \in DOMAIN msig : \A j \in DOMAIN msig[m].members :
        msig[m].members[j].user \in 1..Len(user)

Seen(u) == \E j \in DOMAIN pager.seen : pager.seen[j] = u

\* The walk has seen what was registered up to this id, and nothing behind it.
SeenUpTo(last) ==
    /\ \A j \in DOMAIN pager.seen : pager.seen[j] <= last
    /\ \A u \in 1..pager.began : u <= last => Seen(u)

SeenOnce == \A j, l \in DOMAIN pager.seen : pager.seen[j] = pager.seen[l] => j = l

Walked ==
    /\ pager.began <= Len(user)
    /\ SeenOnce
    /\ pager.pc = "page" => SeenUpTo((pager.page - 1) * pager.size)
    /\ pager.pc = "count" => SeenUpTo(pager.page * pager.size)
    /\ pager.pc = "done" => \A u \in 1..pager.began : Seen(u)

ProvisionTyped ==
    /\ msig \in Seq(MsigRow)
    /\ Len(msig) <= MaxMsigs
    /\ maker \in [Maker -> MakerRecord]
    /\ pager \in PagerRecord

PInv == AInv /\ ProvisionTyped /\ FoundExist /\ MembersExist /\ MsigIntact /\ Walked

-----------------------------------------------------------------------------
LEMMA MakerKinds ==
    ASSUME ProvisionTyped, NEW k \in Maker, Making(k)
    PROVE  maker[k] \in MakingRecord
<1>1. maker[k] \in {NotMaking} \cup MakingRecord
  BY DEF ProvisionTyped, MakerRecord, MakingRecord
<1> QED
  BY <1>1 DEF Making, NotMaking

LEMMA InitPInv == ProvisionInit => PInv
<1> SUFFICES ASSUME ProvisionInit PROVE PInv
  OBVIOUS
<1>1. Init /\ msig = <<>> /\ maker = [k \in Maker |-> NotMaking] /\ pager = NoWalk
  BY DEF ProvisionInit
<1>2. AInv
  BY <1>1, InitAInv
<1>3. Len(user) \in Nat
  BY <1>2 DEF AInv, TypeOK
<1>4. /\ pager.pc = "idle" /\ pager.seen = <<>> /\ pager.began = 0
      /\ pager \in PagerRecord
  BY <1>1, AccountsAssumption, ProvisioningAssumption DEF NoWalk, PagerRecord
<1>5. msig \in Seq(MsigRow) /\ Len(msig) = 0
  BY <1>1
<1>6. maker \in [Maker -> MakerRecord] /\ \A k \in Maker : ~Making(k)
  BY <1>1 DEF MakerRecord, NotMaking, Making
<1>7. ProvisionTyped
  BY <1>4, <1>5, <1>6, ProvisioningAssumption DEF ProvisionTyped
<1>8. FoundExist
  BY <1>6 DEF FoundExist
<1>9. MembersExist /\ MsigIntact
  BY <1>1 DEF MembersExist, MsigIntact
<1>10. Walked
  BY <1>3, <1>4 DEF Walked, SeenOnce
<1> QED
  BY <1>2, <1>7, <1>8, <1>9, <1>10 DEF PInv

-----------------------------------------------------------------------------
(* Registration of accounts *)

LEMMA RowsStay ==
    ASSUME PInv, AInv', UNCHANGED <<msig, maker, pager>>, Len(user) <= Len(user'),
           \A u \in DOMAIN user : user'[u] = user[u]
    PROVE  PInv'
<1>1. Len(user) \in Nat /\ Len(user') \in Nat /\ DOMAIN user = 1..Len(user)
  BY DEF PInv, AInv, TypeOK
<1>2. ProvisionTyped' /\ FoundExist' /\ MembersExist'
  BY <1>1 DEF PInv, ProvisionTyped, FoundExist, MembersExist, Making
<1>3. ASSUME NEW m \in DOMAIN msig PROVE msig[m].address = Reconstructed(msig[m])'
  <2>1. \A j \in DOMAIN msig[m].members :
            user'[msig[m].members[j].user] = user[msig[m].members[j].user]
    BY <1>1 DEF PInv, MembersExist
  <2>2. Reconstructed(msig[m])' = Reconstructed(msig[m])
    BY <2>1 DEF Reconstructed, Weights
  <2> QED
    BY <2>2 DEF PInv, MsigIntact
<1>4. MsigIntact'
  BY <1>3 DEF MsigIntact
<1>5. Walked'
  <2>1. pager.began \in Nat
    BY AccountsAssumption DEF PInv, ProvisionTyped, PagerRecord
  <2> QED
    BY <1>1, <2>1 DEF PInv, Walked, SeenOnce, SeenUpTo, Seen
<1> QED
  BY <1>2, <1>4, <1>5 DEF PInv

LEMMA RegisterPInv ==
    ASSUME PInv, Register
    PROVE  PInv'
<1>1. AInv /\ UNCHANGED <<msig, maker, pager>>
  BY DEF PInv, Register
<1>2. CASE \E h \in Handler : InsertUsers(h)
  BY <1>1, <1>2, InsertUsersAInv, RowsStay
<1>3. CASE \E i \in Sid :
            \/ AdminLogin(i) \/ AdminLogoff(i)
            \/ \E h \in Handler, batch \in Batches : CheckNames(h, i, batch)
  <2>1. user' = user
    BY <1>3 DEF AdminLogin, AdminLogoff, CheckNames
  <2>2. AInv'
    BY <1>1, <1>3, SessionStepAInv, CheckNamesAInv
  <2>3. Len(user) <= Len(user')
    BY <2>1, <1>1 DEF AInv, TypeOK
  <2> QED
    BY <1>1, <2>1, <2>2, <2>3, RowsStay
<1> QED
  BY <1>2, <1>3 DEF Register

\* The other steps leave the tables of Accounts alone.
LEMMA AccountsStay ==
    ASSUME AInv, UNCHANGED <<user, session, handler, pardoned>>
    PROVE  AInv'
BY AInvInductive DEF vars

-----------------------------------------------------------------------------
(* Multisigs *)

LEMMA FirstAtFound ==
    ASSUME TypeOK, NEW address
    PROVE  FirstAt(address) \in 0..Len(user)
<1> DEFINE found == {k \in 1..Len(user) : user[k].address = address}
<1>1. Len(user) \in Nat
  BY DEF TypeOK
<1>2. FirstAt(address) = IF found # {} THEN Min(found) ELSE 0
  BY DEF FirstAt, SelectInSeq
<1>3. CASE found # {}
  <2>1. found \subseteq Nat
    BY <1>1
  <2>2. Min(found) \in found
    BY <1>3, <2>1, LeastExists
  <2> QED
    BY <1>1, <1>2, <1>3, <2>2
<1> QED
  BY <1>1, <1>2, <1>3

\* A thread goes on or ends, the tables stay.
LEMMA MakerStep ==
    ASSUME PInv, NEW k \in Maker, NEW new \in MakerRecord,
           maker' = [maker EXCEPT ![k] = new],
           new.pc = "members" => \A j \in DOMAIN new.found : new.found[j] \in 1..Len(user),
           UNCHANGED <<user, session, handler, pardoned, msig, pager>>
    PROVE  PInv'
<1>1. AInv'
  BY AccountsStay DEF PInv
<1>2. maker \in [Maker -> MakerRecord]
  BY DEF PInv, ProvisionTyped
<1>3. ProvisionTyped'
  BY <1>2 DEF PInv, ProvisionTyped
<1>4. FoundExist'
  BY <1>2 DEF PInv, FoundExist, Making
<1>5. MembersExist' /\ MsigIntact'
  BY DEF PInv, MembersExist, MsigIntact, Reconstructed, Weights
<1>6. Walked'
  BY DEF PInv, Walked, SeenOnce, SeenUpTo, Seen
<1> QED
  BY <1>1, <1>3, <1>4, <1>5, <1>6 DEF PInv

LEMMA CheckMsigNamePInv ==
    ASSUME PInv, NEW k \in Maker, NEW i \in Sid, NEW setup \in MsigSetups,
           CheckMsigName(k, i, setup)
    PROVE  PInv'
<1> DEFINE new == [pc |-> "members", setup |-> setup, found |-> <<>>]
<1>1. <<>> \in Seq(1..MaxUsers)
  OBVIOUS
<1>2. new \in MakerRecord
  BY <1>1 DEF MakerRecord
<1>3. \A j \in DOMAIN new.found : new.found[j] \in 1..Len(user)
  OBVIOUS
<1>4. /\ maker' = [maker EXCEPT ![k] = new]
      /\ UNCHANGED <<user, session, handler, pardoned, msig, pager>>
  BY DEF CheckMsigName
<1> QED
  BY <1>2, <1>3, <1>4, MakerStep

LEMMA LookupMemberPInv ==
    ASSUME PInv, NEW k \in Maker, LookupMember(k)
    PROVE  PInv'
<1> DEFINE me == maker[k]
           u == FirstAt(me.setup.members[Len(me.found) + 1].address)
           new == [me EXCEPT !.found = Append(me.found, u)]
<1>1. /\ Making(k) /\ UNCHANGED <<user, session, handler, pardoned, msig, pager>>
      /\ maker' = [maker EXCEPT ![k] = IF u = 0 THEN NotMaking ELSE new]
  BY DEF LookupMember, Making
<1>2. me \in MakingRecord /\ u \in 0..Len(user) /\ Len(user) \in Nat /\ Len(user) <= MaxUsers
  BY <1>1, MakerKinds, FirstAtFound DEF PInv, AInv, TypeOK
<1>3. \A j \in DOMAIN me.found : me.found[j] \in 1..Len(user)
  BY <1>1 DEF PInv, FoundExist
<1> HIDE DEF u
<1>4. CASE u = 0
  <2>1. NotMaking \in MakerRecord /\ NotMaking.pc # "members"
    BY DEF MakerRecord, NotMaking
  <2> QED
    BY <1>1, <1>4, <2>1, MakerStep
<1>5. CASE u # 0
  <2>1. u \in 1..Len(user) /\ u \in 1..MaxUsers /\ me.found \in Seq(1..MaxUsers)
    BY <1>2, <1>5, AccountsAssumption DEF MakingRecord
  <2>2. /\ Append(me.found, u) \in Seq(1..MaxUsers)
        /\ \A j \in DOMAIN Append(me.found, u) : Append(me.found, u)[j] \in 1..Len(user)
    <3> DEFINE found == me.found
    <3>1. /\ found \in Seq(1..MaxUsers) /\ u \in 1..MaxUsers /\ u \in 1..Len(user)
          /\ \A j \in DOMAIN found : found[j] \in 1..Len(user)
      BY <1>3, <2>1
    <3> HIDE DEF found
    <3> DEFINE n == Len(found)
               longer == Append(found, u)
    <3>2. /\ longer \in Seq(1..MaxUsers) /\ Len(longer) = n + 1 /\ longer[n + 1] = u
          /\ \A j \in 1..n : longer[j] = found[j]
      BY <3>1, AppendProperties
    <3>3. n \in Nat /\ DOMAIN found = 1..n
      BY <3>1
    <3> HIDE DEF longer, n
    <3>4. DOMAIN longer = 1..n+1
      BY <3>2, <3>3
    <3>5. \A j \in DOMAIN longer : j = n + 1 \/ j \in 1..n
      BY <3>3, <3>4
    <3>6. \A j \in DOMAIN longer : longer[j] \in 1..Len(user)
      BY <3>1, <3>2, <3>3, <3>5
    <3> QED
      BY <3>2, <3>6 DEF longer, found
  <2>3. new \in MakingRecord /\ new.found = Append(me.found, u)
    BY <1>2, <2>2 DEF MakingRecord
  <2>4. new \in MakerRecord
    BY <2>3 DEF MakerRecord, MakingRecord
  <2> HIDE DEF new
  <2> QED
    BY <1>1, <1>5, <2>2, <2>3, <2>4, MakerStep
<1> QED
  BY <1>4, <1>5

\* What StoreMsig writes: rows of members that exist, and the address they make.
LEMMA StoredRow ==
    ASSUME PInv, NEW k \in Maker, Making(k),
           Len(maker[k].found) = Len(maker[k].setup.members)
    PROVE  LET setup == maker[k].setup
               row == [name      |-> setup.name,
                       threshold |-> setup.threshold,
                       confirmed |-> ~setup.attested,
                       members   |-> MemberRows(setup, maker[k].found),
                       address   |-> [keys |-> Keys(maker[k].found),
                                      weights |-> Weights(setup.members),
                                      threshold |-> setup.threshold]]
           IN  /\ row \in MsigRow
               /\ \A j \in DOMAIN row.members : row.members[j].user \in 1..Len(user)
               /\ row.address = Reconstructed(row)
<1> DEFINE setup == maker[k].setup
           found == maker[k].found
           members == MemberRows(setup, found)
           keys == Keys(found)
           weights == Weights(setup.members)
           address == [keys |-> keys, weights |-> weights, threshold |-> setup.threshold]
           row == [name |-> setup.name, threshold |-> setup.threshold,
                   confirmed |-> ~setup.attested, members |-> members, address |-> address]
<1>1. maker[k] \in MakingRecord /\ user \in Seq(UserRow) /\ Len(user) <= MaxUsers
  BY MakerKinds DEF PInv, AInv, TypeOK
<1>2. setup \in MsigSetup /\ found \in Seq(1..MaxUsers)
  BY <1>1, ProvisioningAssumption DEF MakingRecord
<1>3. setup.members \in Seq([address : Address, weight : Nat])
  BY <1>2 DEF MsigSetup
<1>4. /\ DOMAIN found = 1..Len(found) /\ DOMAIN setup.members = 1..Len(found)
      /\ Len(found) \in Nat /\ Len(setup.members) = Len(found)
      /\ \A j \in DOMAIN found : found[j] \in 1..Len(user)
  BY <1>2, <1>3 DEF PInv, FoundExist
<1> HIDE DEF setup, found
<1>5. ASSUME NEW j \in 1..Len(found)
      PROVE  /\ found[j] \in 1..Len(user) /\ found[j] \in 1..MaxUsers
             /\ user[found[j]].address \in Address
             /\ setup.members[j].weight \in Nat
  <2>1. found[j] \in 1..Len(user) /\ found[j] \in 1..MaxUsers
    BY <1>2, <1>4, ElementOfSeq
  <2>2. user[found[j]] \in UserRow
    BY <1>1, <2>1
  <2>3. setup.members[j] \in [address : Address, weight : Nat]
    BY <1>3, <1>4, ElementOfSeq
  <2> QED
    BY <2>1, <2>2, <2>3 DEF UserRow
<1>6. /\ members = [j \in 1..Len(found) |->
                        [user |-> found[j], weight |-> setup.members[j].weight]]
      /\ keys = [j \in 1..Len(found) |-> user[found[j]].address]
      /\ weights = [j \in 1..Len(found) |-> setup.members[j].weight]
  BY <1>4 DEF MemberRows, Keys, Weights
<1> HIDE DEF members, keys, weights
<1>7. members \in Seq(MemberRow)
  <2>1. \A j \in 1..Len(found) : members[j] \in MemberRow
    BY <1>5, <1>6 DEF MemberRow
  <2>2. members = [j \in 1..Len(found) |-> members[j]]
    BY <1>6
  <2>3. members \in [1..Len(found) -> MemberRow]
    BY <2>1, <2>2
  <2> QED
    BY <1>4, <2>3
<1>8. keys \in Seq(Address)
  <2>1. keys \in [1..Len(found) -> Address]
    BY <1>5, <1>6
  <2> QED
    BY <1>4, <2>1
<1>9. weights \in Seq(Nat)
  <2>1. weights \in [1..Len(found) -> Nat]
    BY <1>5, <1>6
  <2> QED
    BY <1>4, <2>1
<1>10. row \in MsigRow
  BY <1>2, <1>7, <1>8, <1>9 DEF MsigRow, MsigAddress, MsigSetup
<1>11. \A j \in DOMAIN members : members[j].user = found[j] /\ members[j].user \in 1..Len(user)
  BY <1>5, <1>6
<1>12. DOMAIN members = 1..Len(found)
  BY <1>6
<1>13. [j \in DOMAIN members |-> user[members[j].user].address] = keys
  BY <1>6, <1>11, <1>12
<1>14. Weights(members) = weights
  BY <1>6 DEF Weights
<1>15. row.address = Reconstructed(row)
  BY <1>13, <1>14 DEF Reconstructed
<1> QED
  BY <1>10, <1>11, <1>15 DEF setup, found, members, keys, weights

LEMMA StoreMsigPInv ==
    ASSUME PInv, NEW k \in Maker, StoreMsig(k)
    PROVE  PInv'
<1> DEFINE me == maker[k]
           setup == me.setup
           row == [name      |-> setup.name,
                   threshold |-> setup.threshold,
                   confirmed |-> ~setup.attested,
                   members   |-> MemberRows(setup, me.found),
                   address   |-> [keys |-> Keys(me.found), weights |-> Weights(setup.members),
                                  threshold |-> setup.threshold]]
<1>1. /\ Making(k) /\ Len(me.found) = Len(setup.members)
      /\ (Len(msig) < MaxMsigs /\ msig' = Append(msig, row)) \/ UNCHANGED msig
      /\ maker' = [maker EXCEPT ![k] = NotMaking]
      /\ UNCHANGED <<user, session, handler, pardoned, pager>>
  BY DEF StoreMsig, Making
<1>2. NotMaking \in MakerRecord /\ NotMaking.pc # "members"
  BY DEF MakerRecord, NotMaking
<1>3. CASE UNCHANGED msig
  BY <1>1, <1>2, <1>3, MakerStep
<1>4. CASE Len(msig) < MaxMsigs /\ msig' = Append(msig, row)
  <2>1. /\ row \in MsigRow /\ row.address = Reconstructed(row)
        /\ \A j \in DOMAIN row.members : row.members[j].user \in 1..Len(user)
    BY <1>1, StoredRow
  <2> HIDE DEF row
  <2>2. msig \in Seq(MsigRow) /\ maker \in [Maker -> MakerRecord]
    BY DEF PInv, ProvisionTyped
  <2>3. /\ msig' \in Seq(MsigRow) /\ Len(msig') = Len(msig) + 1
        /\ \A m \in DOMAIN msig' : msig'[m] = row \/ (m \in DOMAIN msig /\ msig'[m] = msig[m])
    BY <1>4, <2>1, <2>2
  <2>4. Len(msig') <= MaxMsigs
    BY <1>4, <2>2, <2>3, ProvisioningAssumption
  <2>5. maker' \in [Maker -> MakerRecord]
    BY <1>1, <1>2, <2>2
  <2>6. ProvisionTyped'
    BY <1>1, <2>3, <2>4, <2>5 DEF PInv, ProvisionTyped
  <2>7. FoundExist'
    BY <1>1, <1>2, <2>2 DEF PInv, FoundExist, Making
  <2>8. MembersExist'
    BY <1>1, <2>1, <2>3 DEF PInv, MembersExist
  <2>9. MsigIntact'
    BY <1>1, <2>1, <2>3 DEF PInv, MsigIntact, Reconstructed, Weights
  <2>10. Walked'
    BY <1>1 DEF PInv, Walked, SeenOnce, SeenUpTo, Seen
  <2> QED
    BY <1>1, <2>6, <2>7, <2>8, <2>9, <2>10, AccountsStay DEF PInv
<1> QED
  BY <1>1, <1>3, <1>4

-----------------------------------------------------------------------------
(* Paging *)

\* The ids behind which a page begins and up to which it goes.
LEMMA PageBounds ==
    ASSUME NEW p \in Nat \ {0}, NEW z \in Nat \ {0}
    PROVE  /\ (p - 1) * z \in Nat /\ p * z \in Nat
           /\ p * z = (p - 1) * z + z
           /\ p <= p * z
           /\ ((p + 1) - 1) * z = p * z
OBVIOUS

LEMMA PageRows ==
    ASSUME TypeOK, NEW p \in Nat \ {0}, NEW z \in Nat \ {0}
    PROVE  /\ Page(p, z) \in Seq(1..Len(user))
           /\ Len(Page(p, z)) \in 0..z
           /\ \A j \in DOMAIN Page(p, z) :
                    /\ Page(p, z)[j] = (p - 1) * z + j
                    /\ Page(p, z)[j] <= p * z
           /\ \A u \in 1..Len(user) : (p - 1) * z < u /\ u <= p * z =>
                    \E j \in DOMAIN Page(p, z) : Page(p, z)[j] = u
<1> DEFINE base == (p - 1) * z
           end == p * z
           last == IF end < Len(user) THEN end ELSE Len(user)
           rows == IF base + 1 > last THEN 0 ELSE last - (base + 1) + 1
           page == [j \in 1..rows |-> base + 1 + j - 1]
<1>1. base \in Nat /\ end \in Nat /\ end = base + z /\ Len(user) \in Nat
  BY PageBounds DEF TypeOK
<1>2. Page(p, z) = page
  BY DEF Page
<1> HIDE DEF base, end
<1>3. /\ rows \in Nat /\ rows <= z
      /\ \A j \in 1..rows : base + 1 + j - 1 = base + j /\ base + j \in 1..Len(user)
                            /\ base + j <= end
      /\ \A u \in 1..Len(user) : base < u /\ u <= end => u - base \in 1..rows
  BY <1>1
<1> HIDE DEF rows
<1>4. page \in [1..rows -> 1..Len(user)] /\ \A j \in 1..rows : page[j] = base + j
  BY <1>1, <1>3
<1>5. page \in Seq(1..Len(user)) /\ Len(page) = rows /\ DOMAIN page = 1..rows
  BY <1>3, <1>4
<1>6. ASSUME NEW u \in 1..Len(user), base < u, u <= end
      PROVE  \E j \in DOMAIN page : page[j] = u
  <2>1. u - base \in 1..rows /\ base + (u - base) = u
    BY <1>1, <1>3, <1>6
  <2> QED
    BY <1>4, <1>5, <2>1
<1> HIDE DEF page
<1>7. /\ page \in Seq(1..Len(user))
      /\ Len(page) \in 0..z
      /\ \A j \in DOMAIN page : page[j] = base + j /\ page[j] <= end
  BY <1>1, <1>3, <1>4, <1>5
<1> QED
  BY <1>2, <1>6, <1>7, Zenon DEF base, end

\* A step of the walk leaves the tables alone.
LEMMA PagerStep ==
    ASSUME PInv, pager' \in PagerRecord, Walked',
           UNCHANGED <<user, session, handler, pardoned, msig, maker>>
    PROVE  PInv'
<1>1. AInv'
  BY AccountsStay DEF PInv
<1>2. ProvisionTyped' /\ FoundExist'
  BY DEF PInv, ProvisionTyped, FoundExist, Making
<1>3. MembersExist' /\ MsigIntact'
  BY DEF PInv, MembersExist, MsigIntact, Reconstructed, Weights
<1> QED
  BY <1>1, <1>2, <1>3 DEF PInv

LEMMA BeginWalkPInv ==
    ASSUME PInv, NEW i \in Sid, NEW count \in Counts, BeginWalk(i, count)
    PROVE  PInv'
<1> DEFINE new == [NoWalk EXCEPT !.pc = "page", !.size = PageSize(count), !.began = Len(user)]
<1>1. pager' = new /\ UNCHANGED <<user, session, handler, pardoned, msig, maker>>
  BY DEF BeginWalk
<1>2. Len(user) \in Nat /\ Len(user) <= MaxUsers /\ MaxUsers \in Nat
      /\ PageMax \in Nat \ {0} /\ PageSize(count) \in 1..PageMax
  BY AccountsAssumption, ProvisioningAssumption DEF PInv, AInv, TypeOK, PageSize
<1>3. /\ new.pc = "page" /\ new.seen = <<>> /\ new.page = 1 /\ new.began = Len(user)
      /\ new.size = PageSize(count)
  BY DEF NoWalk
<1>4. new \in PagerRecord
  <2>1. NoWalk \in PagerRecord
    BY <1>2 DEF NoWalk, PagerRecord
  <2>2. Len(user) \in 0..MaxUsers
    BY <1>2
  <2> QED
    BY <1>2, <2>1, <2>2 DEF PagerRecord
<1> HIDE DEF new
<1>5. (new.page - 1) * new.size = 0
  BY <1>2, <1>3
<1>6. Walked'
  BY <1>1, <1>2, <1>3, <1>5 DEF Walked, SeenOnce, SeenUpTo, Seen
<1> QED
  BY <1>1, <1>4, <1>6, PagerStep

LEMMA ReadPagePInv ==
    ASSUME PInv, ReadPage
    PROVE  PInv'
<1> DEFINE p == pager.page
           z == pager.size
           rows == Page(p, z)
           seen == pager.seen \o rows
           base == (p - 1) * z
           end == p * z
           new == [pager EXCEPT !.pc = "count", !.seen = seen, !.items = Len(rows)]
<1>1. /\ pager.pc = "page" /\ pager' = new
      /\ UNCHANGED <<user, session, handler, pardoned, msig, maker>>
  BY DEF ReadPage
<1>2. /\ pager \in PagerRecord /\ p \in Nat \ {0} /\ z \in Nat \ {0} /\ z <= PageMax
      /\ pager.seen \in Seq(1..MaxUsers) /\ pager.began \in Nat
  BY AccountsAssumption, ProvisioningAssumption DEF PInv, ProvisionTyped, PagerRecord
<1>3. base \in Nat /\ end \in Nat /\ end = base + z
  BY <1>2, PageBounds
<1>4. /\ rows \in Seq(1..Len(user)) /\ Len(rows) \in 0..z
      /\ \A j \in DOMAIN rows : rows[j] = base + j /\ rows[j] <= end
      /\ \A u \in 1..Len(user) : base < u /\ u <= end => \E j \in DOMAIN rows : rows[j] = u
  BY <1>2, PageRows DEF PInv, AInv
<1>5. Len(user) \in Nat /\ Len(user) <= MaxUsers /\ MaxUsers \in Nat /\ pager.began <= Len(user)
  BY AccountsAssumption DEF PInv, AInv, TypeOK, Walked
<1>6. SeenUpTo(base) /\ SeenOnce
  BY <1>1 DEF PInv, Walked
<1> HIDE DEF rows, base, end
<1>7. rows \in Seq(1..MaxUsers)
  <2>1. 1..Len(user) \subseteq 1..MaxUsers
    BY <1>5
  <2> QED
    BY <1>4, <2>1, SeqMonotonic
<1>8. /\ seen \in Seq(1..MaxUsers)
      /\ Len(seen) = Len(pager.seen) + Len(rows)
      /\ \A j \in 1..Len(pager.seen) + Len(rows) :
            seen[j] = IF j <= Len(pager.seen) THEN pager.seen[j] ELSE rows[j - Len(pager.seen)]
  BY <1>2, <1>7, ConcatProperties
<1> HIDE DEF seen
<1>9. /\ Len(pager.seen) \in Nat /\ Len(rows) \in Nat
      /\ DOMAIN seen = 1..Len(pager.seen) + Len(rows)
      /\ DOMAIN pager.seen = 1..Len(pager.seen) /\ DOMAIN rows = 1..Len(rows)
  BY <1>2, <1>7, <1>8
<1>10. new \in PagerRecord
  <2>1. Len(rows) \in 0..PageMax
    BY <1>2, <1>4, ProvisioningAssumption
  <2> QED
    BY <1>2, <1>8, <2>1 DEF PagerRecord
<1>11. new.pc = "count" /\ new.seen = seen /\ new.page = p /\ new.size = z
       /\ new.began = pager.began
  BY <1>2 DEF PagerRecord
<1>12. \A j \in DOMAIN pager.seen : pager.seen[j] <= base /\ pager.seen[j] \in Nat
  <2>1. \A j \in DOMAIN pager.seen : pager.seen[j] \in 1..MaxUsers
    BY <1>2, <1>9, ElementOfSeq
  <2> QED
    BY <1>5, <1>6, <2>1 DEF SeenUpTo
<1>13. \A j \in DOMAIN seen :
            \/ j \in DOMAIN pager.seen /\ seen[j] = pager.seen[j] /\ seen[j] <= base
            \/ /\ j > Len(pager.seen) /\ j - Len(pager.seen) \in DOMAIN rows
               /\ seen[j] = base + (j - Len(pager.seen)) /\ seen[j] <= end
  <2> SUFFICES ASSUME NEW j \in DOMAIN seen
               PROVE  \/ j \in DOMAIN pager.seen /\ seen[j] = pager.seen[j] /\ seen[j] <= base
                      \/ /\ j > Len(pager.seen) /\ j - Len(pager.seen) \in DOMAIN rows
                         /\ seen[j] = base + (j - Len(pager.seen)) /\ seen[j] <= end
    OBVIOUS
  <2>1. j \in 1..Len(pager.seen) + Len(rows)
    BY <1>9
  <2>2. seen[j] = IF j <= Len(pager.seen) THEN pager.seen[j] ELSE rows[j - Len(pager.seen)]
    BY <1>8, <2>1
  <2>3. CASE j <= Len(pager.seen)
    <3>1. j \in DOMAIN pager.seen
      BY <1>9, <2>1, <2>3
    <3> QED
      BY <1>12, <2>2, <2>3, <3>1
  <2>4. CASE j > Len(pager.seen)
    <3>1. j - Len(pager.seen) \in DOMAIN rows
      BY <1>9, <2>1, <2>4
    <3>2. seen[j] = rows[j - Len(pager.seen)]
      BY <1>9, <2>1, <2>2, <2>4
    <3> QED
      BY <1>4, <2>4, <3>1, <3>2
  <2> QED
    BY <1>9, <2>1, <2>3, <2>4
<1>14. ASSUME NEW j \in DOMAIN seen, NEW l \in DOMAIN seen, seen[j] = seen[l]
       PROVE  j = l
  <2> DEFINE n == Len(pager.seen)
  <2>1. n \in Nat /\ j \in Nat /\ l \in Nat /\ base \in Nat
    BY <1>3, <1>9
  <2>2. /\ j \in DOMAIN pager.seen <=> j <= n
        /\ l \in DOMAIN pager.seen <=> l <= n
    BY <1>9
  <2>3. /\ \/ j <= n /\ seen[j] = pager.seen[j] /\ seen[j] <= base
           \/ j > n /\ seen[j] = base + (j - n)
        /\ \/ l <= n /\ seen[l] = pager.seen[l] /\ seen[l] <= base
           \/ l > n /\ seen[l] = base + (l - n)
    BY <1>13, <2>2
  <2>4. \A a, b \in DOMAIN pager.seen : pager.seen[a] = pager.seen[b] => a = b
    BY <1>6 DEF SeenOnce
  <2> HIDE DEF n
  <2>5. CASE j <= n /\ l <= n
    <3>1. pager.seen[j] = pager.seen[l]
      BY <1>14, <2>1, <2>3, <2>5
    <3> QED
      BY <2>2, <2>4, <2>5, <3>1
  <2>6. CASE j > n /\ l > n
    <3>1. base + (j - n) = base + (l - n)
      BY <1>14, <2>1, <2>3, <2>6
    <3> QED
      BY <2>1, <3>1
  <2>7. ASSUME j <= n, l > n PROVE FALSE
    <3>1. base + (l - n) <= base
      BY <1>14, <2>1, <2>3, <2>7
    <3> QED
      BY <2>1, <2>7, <3>1
  <2>8. ASSUME l <= n, j > n PROVE FALSE
    <3>1. base + (j - n) <= base
      BY <1>14, <2>1, <2>3, <2>8
    <3> QED
      BY <2>1, <2>8, <3>1
  <2> QED
    BY <2>1, <2>5, <2>6, <2>7, <2>8
<1>15. \A j \in DOMAIN seen : seen[j] <= end
  BY <1>2, <1>3, <1>12, <1>13
<1>16. ASSUME NEW u \in 1..pager.began, u <= end
       PROVE  \E j \in DOMAIN seen : seen[j] = u
  <2>1. CASE u <= base
    <3>1. PICK j \in DOMAIN pager.seen : pager.seen[j] = u
      BY <1>6, <2>1 DEF SeenUpTo, Seen
    <3>2. j \in DOMAIN seen /\ seen[j] = u
      BY <1>8, <1>9, <3>1
    <3> QED
      BY <3>2
  <2>2. CASE base < u
    <3>1. PICK j \in DOMAIN rows : rows[j] = u
      <4>1. u \in 1..Len(user)
        BY <1>2, <1>5
      <4> QED
        BY <1>4, <1>16, <2>2, <4>1
    <3>2. Len(pager.seen) + j \in DOMAIN seen /\ seen[Len(pager.seen) + j] = u
      <4> DEFINE l == Len(pager.seen) + j
      <4>1. /\ l \in 1..Len(pager.seen) + Len(rows) /\ ~(l <= Len(pager.seen))
            /\ l - Len(pager.seen) = j
        BY <1>9
      <4> HIDE DEF l
      <4>2. l \in DOMAIN seen /\ seen[l] = rows[j]
        BY <1>8, <1>9, <4>1
      <4> QED
        BY <3>1, <4>2 DEF l
    <3> QED
      BY <3>2
  <2> QED
    BY <1>2, <1>3, <2>1, <2>2
<1> HIDE DEF new
<1>17. Walked'
  <2>1. SeenOnce'
    BY <1>1, <1>11, <1>14 DEF SeenOnce
  <2>2. SeenUpTo(p * z)'
    BY <1>1, <1>11, <1>15, <1>16 DEF SeenUpTo, Seen, end
  <2> QED
    BY <1>1, <1>5, <1>11, <2>1, <2>2 DEF Walked
<1> QED
  BY <1>1, <1>10, <1>17, PagerStep

LEMMA CountRowsPInv ==
    ASSUME PInv, CountRows
    PROVE  PInv'
<1> DEFINE p == pager.page
           z == pager.size
<1>1. /\ pager.pc = "count" /\ UNCHANGED <<user, session, handler, pardoned, msig, maker>>
      /\ pager' = IF HasRemaining(p, z, pager.items, Len(user))
                    THEN [pager EXCEPT !.pc = "page", !.page = p + 1]
                    ELSE [pager EXCEPT !.pc = "done"]
  BY DEF CountRows
<1>2. /\ pager \in PagerRecord /\ p \in Nat \ {0} /\ z \in Nat \ {0}
      /\ pager.began \in Nat
  BY AccountsAssumption, ProvisioningAssumption DEF PInv, ProvisionTyped, PagerRecord
<1>3. p * z \in Nat /\ p <= p * z /\ ((p + 1) - 1) * z = p * z
  BY <1>2, PageBounds
<1>4. Len(user) \in Nat /\ Len(user) <= MaxUsers /\ MaxUsers \in Nat /\ pager.began <= Len(user)
      /\ SeenUpTo(p * z) /\ SeenOnce
  BY <1>1, AccountsAssumption DEF PInv, AInv, TypeOK, Walked
<1>5. CASE p * z < Len(user)
  <2>1. pager' = [pager EXCEPT !.pc = "page", !.page = p + 1]
    BY <1>1, <1>5 DEF HasRemaining
  <2>2. p + 1 \in 1..MaxUsers+1
    BY <1>2, <1>3, <1>4, <1>5
  <2>3. pager' \in PagerRecord
    BY <1>2, <2>1, <2>2 DEF PagerRecord
  <2>4. /\ pager'.pc = "page" /\ pager'.page = p + 1 /\ pager'.size = z
        /\ pager'.seen = pager.seen /\ pager'.began = pager.began
    BY <1>2, <2>1 DEF PagerRecord
  <2>5. (pager'.page - 1) * pager'.size = p * z
    BY <1>3, <2>4
  <2>6. SeenUpTo((pager.page - 1) * pager.size)' /\ SeenOnce'
    <3> DEFINE end == p * z
    <3>1. (pager'.page - 1) * pager'.size = end /\ SeenUpTo(end)
      BY <1>4, <2>5
    <3> HIDE DEF end
    <3> QED
      BY <1>4, <2>4, <3>1 DEF SeenUpTo, SeenOnce, Seen
  <2>7. Walked'
    BY <1>1, <1>4, <2>4, <2>6 DEF Walked
  <2> QED
    BY <1>1, <2>3, <2>7, PagerStep
<1>6. CASE ~(p * z < Len(user))
  <2>1. pager' = [pager EXCEPT !.pc = "done"]
    BY <1>1, <1>6 DEF HasRemaining
  <2>2. pager' \in PagerRecord
    BY <1>2, <2>1 DEF PagerRecord
  <2>3. /\ pager'.pc = "done" /\ pager'.seen = pager.seen /\ pager'.began = pager.began
    BY <1>2, <2>1 DEF PagerRecord
  <2>4. \A u \in 1..pager.began : u <= p * z
    BY <1>2, <1>3, <1>4, <1>6
  <2>5. \A u \in 1..pager.began : Seen(u)
    BY <1>4, <2>4 DEF SeenUpTo
  <2>6. Walked'
    BY <1>1, <1>4, <2>3, <2>5 DEF Walked, SeenOnce, Seen
  <2> QED
    BY <1>1, <2>2, <2>6, PagerStep
<1> QED
  BY <1>5, <1>6

LEMMA EndWalkPInv ==
    ASSUME PInv, EndWalk
    PROVE  PInv'
<1>1. pager' = NoWalk /\ UNCHANGED <<user, session, handler, pardoned, msig, maker>>
  BY DEF EndWalk
<1>2. Len(user) \in Nat
  BY DEF PInv, AInv, TypeOK
<1>3. NoWalk \in PagerRecord
  BY AccountsAssumption, ProvisioningAssumption DEF NoWalk, PagerRecord
<1>4. Walked'
  BY <1>1, <1>2 DEF Walked, SeenOnce, NoWalk
<1> QED
  BY <1>1, <1>3, <1>4, PagerStep

-----------------------------------------------------------------------------
LEMMA PInvInductive == PInv /\ [ProvisionNext]_provisionVars => PInv'
<1> SUFFICES ASSUME PInv, [ProvisionNext]_provisionVars PROVE PInv'
  OBVIOUS
<1>1. CASE Register
  BY <1>1, RegisterPInv
<1>2. ASSUME NEW i \in Sid, NEW k \in Maker, NEW setup \in MsigSetups, CheckMsigName(k, i, setup)
      PROVE  PInv'
  BY <1>2, CheckMsigNamePInv
<1>3. ASSUME NEW i \in Sid, NEW count \in Counts, BeginWalk(i, count) PROVE PInv'
  BY <1>3, BeginWalkPInv
<1>4. ASSUME NEW k \in Maker, LookupMember(k) \/ StoreMsig(k) PROVE PInv'
  BY <1>4, LookupMemberPInv, StoreMsigPInv
<1>5. CASE ReadPage \/ CountRows \/ EndWalk
  BY <1>5, ReadPagePInv, CountRowsPInv, EndWalkPInv
<1>6. CASE UNCHANGED provisionVars
  <2>1. pager' = pager /\ UNCHANGED <<user, session, handler, pardoned, msig, maker>>
    BY <1>6 DEF provisionVars
  <2>2. pager' \in PagerRecord /\ Walked'
    BY <2>1 DEF PInv, ProvisionTyped, Walked, SeenOnce, SeenUpTo, Seen
  <2> QED
    BY <2>1, <2>2, PagerStep
<1> QED
  BY <1>1, <1>2, <1>3, <1>4, <1>5, <1>6 DEF ProvisionNext

LEMMA PInvAlways == ProvisionSpec => []PInv
BY InitPInv, PInvInductive, PTL DEF ProvisionSpec

\* The tables, the threads and the walk keep their types.
THEOREM ProvisionTypeCorrect == ProvisionSpec => []ProvisionTypeOK
<1>1. PInv => ProvisionTypeOK
  BY DEF PInv, AInv, ProvisionTyped, ProvisionTypeOK
<1> QED
  BY <1>1, PInvAlways, PTL

\* The rows of a multisig always make its address (_new_msig_reg and
\* construct_multisig), with any number of threads that register.
THEOREM MsigIntactHolds == ProvisionSpec => []MsigIntact
<1>1. PInv => MsigIntact
  BY DEF PInv
<1> QED
  BY <1>1, PInvAlways, PTL

\* A client that pages with one size misses no account that was there when it
\* began and sees none twice (query_user_accounts), for any page size, any
\* number of accounts and any registrations meanwhile.
THEOREM WalkSeesAllHolds == ProvisionSpec => []WalkSeesAll
<1>1. PInv => WalkSeesAll
  BY DEF PInv, Walked, SeenOnce, Seen, WalkSeesAll
<1> QED
  BY <1>1, PInvAlways, PTL

-----------------------------------------------------------------------------
(* Named signers *)

\* The rows of the members of a multisig, and the table Signers reads.
LEMMA MembersOf ==
    ASSUME PInv, NEW n \in Numbered
    PROVE  /\ msig[n - MaxUsers].members \in Seq(MemberRow)
           /\ \A j \in DOMAIN msig[n - MaxUsers].members :
                    msig[n - MaxUsers].members[j].user \in DOMAIN user
<1>1. PICK m \in DOMAIN msig : n = MaxUsers + m
  BY DEF Numbered
<1>2. DOMAIN msig = 1..Len(msig) /\ Len(msig) \in Nat /\ msig[m] \in MsigRow
  BY DEF PInv, ProvisionTyped
<1>3. n - MaxUsers = m
  BY <1>1, <1>2, AccountsAssumption
<1>4. DOMAIN user = 1..Len(user)
  BY DEF PInv, AInv, TypeOK
<1> QED
  BY <1>2, <1>3, <1>4 DEF PInv, MembersExist, MsigRow

\* What an accepted entry means for a multisig of the tables, for a list of
\* signers of any length.
LEMMA NamedSuffice ==
    ASSUME PInv, NEW n \in Numbered, NEW signers \in Seq(DOMAIN user),
           Cardinality(Tables!MemberUsers(n)) = Len(msig[n - MaxUsers].members),
           Tables!Accepted(Tables!MsigEntry(n, signers))
    PROVE  LET asked == Tables!SignersOf(Tables!MsigEntry(n, signers), {})
               members == msig[n - MaxUsers].members
           IN  /\ asked = {signers[j] : j \in DOMAIN signers}
               /\ asked \subseteq Tables!MemberUsers(n)
               /\ Tables!WeightOf(n, {j \in DOMAIN members : members[j].user \in asked})
                        >= msig[n - MaxUsers].threshold
<1> DEFINE rows == msig[n - MaxUsers].members
           N == Tables!Named(n, signers)
           asked == Tables!SignersOf(Tables!MsigEntry(n, signers), {})
           member == [j \in DOMAIN rows |-> rows[j].user]
<1>1. /\ Cardinality(N) = Len(signers)
      /\ Tables!WeightOf(n, N) >= msig[n - MaxUsers].threshold
  <2>1. signers # <<>> /\ Tables!ValidMultisig(n, signers)
    BY DEF Tables!Accepted, Tables!MsigEntry
  <2>2. Tables!Cardinality(N) = Len(signers)
        /\ Tables!WeightOf(n, N) >= msig[n - MaxUsers].threshold
    BY <2>1 DEF Tables!ValidMultisig, Tables!NamedWeight
  <2>3. Tables!Cardinality(N) = Cardinality(N)
    BY DEF Tables!Cardinality, Cardinality
  <2> QED
    BY <2>2, <2>3
<1>2. /\ Tables!MemberUsers(n) = {rows[j].user : j \in DOMAIN rows}
      /\ N = {j \in DOMAIN rows : \E k \in DOMAIN signers : signers[k] = rows[j].user}
      /\ asked = {rows[j].user : j \in N}
  BY DEF Tables!MemberUsers, Tables!Named, Tables!SignersOf, Tables!MsigEntry
<1>3. /\ rows \in Seq(MemberRow) /\ Len(rows) \in Nat /\ DOMAIN rows = 1..Len(rows)
      /\ \A j \in DOMAIN rows : rows[j].user \in DOMAIN user
  BY MembersOf
<1>4. Cardinality({rows[j].user : j \in DOMAIN rows}) = Len(rows)
  BY <1>2
<1> HIDE DEF rows, N, asked
<1>5. /\ member \in Seq(DOMAIN user) /\ Len(member) = Len(rows)
      /\ DOMAIN member = DOMAIN rows /\ \A j \in DOMAIN rows : member[j] = rows[j].user
  BY <1>3
<1> HIDE DEF member
<1>6. {member[j] : j \in DOMAIN member} = {rows[j].user : j \in DOMAIN rows}
  BY <1>5
<1>7. \A i, j \in DOMAIN member : member[i] = member[j] => i = j
  BY <1>4, <1>5, <1>6, CountedOnce
<1>8. /\ member \in [DOMAIN rows -> DOMAIN user]
      /\ \A i, j \in DOMAIN rows : member[i] = member[j] => i = j
      /\ N \in SUBSET DOMAIN rows
      /\ \A i \in N : \E k \in DOMAIN signers : signers[k] = member[i]
  BY <1>2, <1>3, <1>5, <1>7
<1>9. \A k \in DOMAIN signers : \E i \in N : member[i] = signers[k]
  BY <1>1, <1>8, NamesMatch
<1>10. asked = {signers[k] : k \in DOMAIN signers}
  <2>1. \A i \in N : member[i] = rows[i].user
    BY <1>5, <1>8
  <2>2. \A i \in N : \E k \in DOMAIN signers : signers[k] = rows[i].user
    BY <1>8, <2>1
  <2>3. \A k \in DOMAIN signers : \E i \in N : rows[i].user = signers[k]
    BY <1>9, <2>1
  <2>4. asked = {rows[j].user : j \in N}
    BY <1>2
  <2> QED
    BY <2>2, <2>3, <2>4
<1>11. asked \subseteq Tables!MemberUsers(n)
  BY <1>2, <1>8
<1>12. N = {j \in DOMAIN rows : rows[j].user \in asked}
  BY <1>2, <1>10
<1> QED
  BY <1>1, <1>10, <1>11, <1>12 DEF rows, asked

\* The accounts that an accepted multisig entry asks are those it names, members
\* all, and their weights reach the threshold (_valid_multisig_account), for
\* multisigs of any size as they come out of the registration.
THEOREM NamedSignersSufficeHolds == ProvisionSpec => []NamedSignersSuffice
<1>1. PInv => NamedSignersSuffice
  <2> SUFFICES ASSUME PInv PROVE NamedSignersSuffice
    OBVIOUS
  <2>1. BoundedSeq(Addressed, 3) \subseteq Seq(DOMAIN user)
    <3> SUFFICES ASSUME NEW signers \in BoundedSeq(Addressed, 3)
                 PROVE  signers \in Seq(DOMAIN user)
      OBVIOUS
    <3>1. PICK k \in 0..3 : signers \in [1..k -> Addressed]
      BY DEF BoundedSeq, SeqOf
    <3>2. signers \in [1..k -> DOMAIN user] /\ k \in Nat
      BY <3>1 DEF Addressed
    <3> QED
      BY <3>2
  <2> QED
    BY <2>1, NamedSuffice DEF NamedSignersSuffice
<1> QED
  BY <1>1, PInvAlways, PTL
=============================================================================
