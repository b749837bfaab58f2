--------------------------- MODULE AccountsProofs ----------------------------
(***************************************************************************)
(* Accounts and sessions for any number of clients, threads and accounts.  *)
(*                                                                         *)
(* A change of password works on copies of the session and of the account, *)
(* and any request may run between its steps.  The proofs follow what a    *)
(* stale copy still guarantees.  The accounts that were unlocked only      *)
(* become more, and a locked account stays locked or becomes one of them.  *)
(* So a handler that found the attempts below the limit may go on counting *)
(* whatever happens meanwhile, and the lock it saw or set is still there   *)
(* when it answers, or an administrator took it away.                      *)
(***************************************************************************)
EXTENDS Accounts, WellFoundedInduction, SequenceTheorems, TLAPS

\* A thread that handles a change of password.
Changing(h) == handler[h].pc \in {"change", "refuse", "locked", "answer"}

\* A login is of an account that is registered.
LoginsExist ==
    /\ \A i \in Sid : session[i].login.user \in 0..Len(user)
    /\ \A i \in Sid : session[i].login # NoLogin => session[i].login.user # 0
    /\ \A h \in Handler : Changing(h) => handler[h].copy.login.user \in 1..Len(user)

AInv == TypeOK /\ LoginsExist

InsertRecord == [pc : {"insert"}, batch : Batches]

ChangeRecord == [pc : {"change"}, sid : Sid, copy : Session, row : UserRow, new : Password]

RefuseRecord == [pc : {"refuse"}, sid : Sid, copy : Session, row : UserRow]

AnswerRecord == [pc : {"locked", "answer"}, sid : Sid, copy : Session]

\* The records of the handlers, told apart by their pc.
LEMMA HandlerKinds ==
    ASSUME TypeOK, NEW h \in Handler
    PROVE  /\ handler[h].pc = "insert" => handler[h] \in InsertRecord
           /\ handler[h].pc = "change" => handler[h] \in ChangeRecord
           /\ handler[h].pc = "refuse" => handler[h] \in RefuseRecord
           /\ handler[h].pc \in {"locked", "answer"} => handler[h] \in AnswerRecord
           /\ Changing(h) => handler[h].sid \in Sid /\ handler[h].copy \in Session
<1>1. handler[h] \in {Idle} \cup InsertRecord \cup ChangeRecord \cup RefuseRecord \cup AnswerRecord
  BY DEF TypeOK, HandlerRecord, InsertRecord, ChangeRecord, RefuseRecord, AnswerRecord
<1> QED
  BY <1>1 DEF Changing, Idle, InsertRecord, ChangeRecord, RefuseRecord, AnswerRecord

\* A set of natural numbers that is not empty has a least one.
LEMMA LeastExists ==
    ASSUME NEW T, T \subseteq Nat, T # {}
    PROVE  Min(T) \in T /\ \A k \in T : Min(T) <= k
<1> DEFINE R == {ss \in Nat \X Nat : ss[1] < ss[2]}
<1>1. IsWellFoundedOn(R, Nat)
  BY NatLessThanWellFounded, Zenon DEF OpToRel
<1> HIDE DEF R
<1>2. PICK n \in T : \A k \in T : ~(<<k, n>> \in R)
  BY <1>1, WFMin
<1>3. ASSUME NEW k \in T PROVE n <= k
  <2>1. <<k, n>> \in Nat \X Nat
    OBVIOUS
  <2>2. k < n => <<k, n>> \in R
    BY <2>1 DEF R
  <2> QED
    BY <1>2, <2>2
<1> QED
  BY <1>2, <1>3 DEF Min

\* The first row of a name.
Earliest(rows, name) == SelectInSeq(rows, LAMBDA row : row.name = name)

LEMMA EarliestIsFirst ==
    ASSUME NEW rows \in Seq(UserRow), NEW name
    PROVE  /\ Earliest(rows, name) \in 0..Len(rows)
           /\ Earliest(rows, name) # 0 => rows[Earliest(rows, name)].name = name
           /\ \A u \in DOMAIN rows : rows[u].name = name =>
                    Earliest(rows, name) # 0 /\ Earliest(rows, name) <= u
<1> DEFINE found == {k \in 1..Len(rows) : rows[k].name = name}
<1>1. Len(rows) \in Nat
  OBVIOUS
<1>2. Earliest(rows, name) = IF found # {} THEN Min(found) ELSE 0
  BY DEF Earliest, SelectInSeq
<1>3. CASE found = {}
  <2>1. \A u \in DOMAIN rows : rows[u].name # name
    BY <1>3
  <2> QED
    BY <1>1, <1>2, <1>3, <2>1
<1>4. CASE found # {}
  <2>1. found \subseteq Nat
    BY <1>1
  <2>2. Min(found) \in found /\ \A k \in found : Min(found) <= k
    BY <1>4, <2>1, LeastExists
  <2>3. Earliest(rows, name) \in 1..Len(rows) /\ rows[Earliest(rows, name)].name = name
    BY <1>2, <1>4, <2>2
  <2>4. Earliest(rows, name) \in 0..Len(rows) /\ Earliest(rows, name) # 0
    BY <1>1, <2>3
  <2>5. \A u \in DOMAIN rows : rows[u].name = name => Earliest(rows, name) <= u
    BY <1>2, <1>4, <2>2
  <2> QED
    BY <2>3, <2>4, <2>5
<1> QED
  BY <1>3, <1>4

LEMMA FirstFound ==
    ASSUME TypeOK, NEW name
    PROVE  FirstNamed(name) \in 0..Len(user)
<1>1. FirstNamed(name) = Earliest(user, name)
  BY DEF FirstNamed, Earliest
<1> QED
  BY <1>1, EarliestIsFirst DEF TypeOK

LEMMA NoSessionTyped == NoLogin \in Login /\ NoSession \in Session
<1>1. NoLogin \in Login
  BY AccountsAssumption DEF NoLogin, Login, AccountStatus
<1> QED
  BY <1>1 DEF NoSession, Session

LEMMA InitAInv == Init => AInv
<1> SUFFICES ASSUME Init PROVE AInv
  OBVIOUS
<1>1. user = <<>> /\ Len(user) = 0 /\ user \in Seq(UserRow) /\ pardoned \subseteq DOMAIN user
  BY DEF Init
<1>2. session \in [Sid -> Session]
  BY NoSessionTyped DEF Init
<1>3. handler \in [Handler -> HandlerRecord] /\ \A h \in Handler : ~Changing(h)
  BY DEF Init, HandlerRecord, Idle, Changing
<1>4. \A i \in Sid : session[i].login = NoLogin
  BY DEF Init, NoSession
<1>5. TypeOK
  BY <1>1, <1>2, <1>3, AccountsAssumption DEF TypeOK
<1>6. LoginsExist
  BY <1>1, <1>3, <1>4 DEF LoginsExist, NoLogin
<1> QED
  BY <1>5, <1>6 DEF AInv

\* A step that writes one session, whose login is an account's.
LEMMA OneSessionAInv ==
    ASSUME AInv, NEW i \in Sid, NEW new \in Session,
           session' = [session EXCEPT ![i] = new], UNCHANGED <<user, pardoned>>,
           handler' \in [Handler -> HandlerRecord],
           \A h \in Handler : Changing(h)' => Changing(h) /\ handler'[h] = handler[h],
           new.login.user \in 0..Len(user), new.login # NoLogin => new.login.user # 0
    PROVE  AInv'
<1>1. session \in [Sid -> Session]
  BY DEF AInv, TypeOK
<1>2. TypeOK'
  BY <1>1 DEF AInv, TypeOK
<1>3. \A j \in Sid : session'[j] = IF j = i THEN new ELSE session[j]
  BY <1>1
<1>4. LoginsExist'
  BY <1>3 DEF AInv, LoginsExist
<1> QED
  BY <1>2, <1>4 DEF AInv

\* The four logins and logoffs.
LEMMA SessionStepAInv ==
    ASSUME AInv, NEW i \in Sid,
           \/ AdminLogin(i) \/ AdminLogoff(i) \/ AccountLogoff(i)
           \/ \E name \in Name, password \in Password : AccountLogin(i, name, password)
    PROVE  AInv'
<1>1. session \in [Sid -> Session] /\ session[i] \in Session /\ user \in Seq(UserRow)
      /\ Len(user) \in Nat /\ Len(user) <= MaxUsers /\ MaxUsers \in Nat /\ MaxAttempts \in Nat
  BY AccountsAssumption DEF AInv, TypeOK
<1>2. session[i].login.user \in 0..Len(user)
      /\ (session[i].login # NoLogin => session[i].login.user # 0)
  BY DEF AInv, LoginsExist
<1>3. NoLogin \in Login /\ NoLogin.user = 0
  BY NoSessionTyped DEF NoLogin
<1>4. /\ handler' \in [Handler -> HandlerRecord] /\ UNCHANGED <<user, pardoned>>
      /\ \A h \in Handler : Changing(h)' => Changing(h) /\ handler'[h] = handler[h]
  BY DEF AInv, TypeOK, Changing, AdminLogin, AdminLogoff, AccountLogin, AccountLogoff
<1>5. CASE AdminLogin(i)
  <2> DEFINE new == [session[i] EXCEPT !.admin = TRUE, !.named = TRUE]
  <2>1. new \in Session /\ new.login = session[i].login
    BY <1>1 DEF Session
  <2>2. session' = [session EXCEPT ![i] = new]
    BY <1>1, <1>5 DEF AdminLogin
  <2> QED
    BY <1>2, <1>4, <2>1, <2>2, OneSessionAInv
<1>6. CASE AdminLogoff(i)
  <2> DEFINE new == [session[i] EXCEPT !.admin = FALSE, !.named = FALSE]
  <2>1. new \in Session /\ new.login = session[i].login
    BY <1>1 DEF Session
  <2>2. session' = [session EXCEPT ![i] = new]
    BY <1>1, <1>6 DEF AdminLogoff
  <2> QED
    BY <1>2, <1>4, <2>1, <2>2, OneSessionAInv
<1>7. CASE AccountLogoff(i)
  <2> DEFINE new == [session[i] EXCEPT !.named = FALSE, !.login = NoLogin]
  <2>1. new \in Session /\ new.login = NoLogin
    BY <1>1, <1>3 DEF Session
  <2>2. session' = [session EXCEPT ![i] = new]
    BY <1>1, <1>7 DEF AccountLogoff
  <2>3. 0 \in 0..Len(user)
    BY <1>1
  <2> QED
    BY <1>3, <1>4, <2>1, <2>2, <2>3, OneSessionAInv
<1>8. ASSUME NEW name \in Name, NEW password \in Password, AccountLogin(i, name, password)
      PROVE  AInv'
  <2> DEFINE u == FirstNamed(name)
             new == [session[i] EXCEPT !.named = TRUE, !.login = LoggedIn(u)]
  <2>1. u # 0 /\ session' = [session EXCEPT ![i] = new]
    BY <1>1, <1>8 DEF AccountLogin
  <2>2. u \in 0..Len(user)
    BY FirstFound DEF AInv
  <2>3. LoggedIn(u) \in Login /\ LoggedIn(u).user = u
    BY <1>1, <2>2 DEF LoggedIn, Login, AccountStatus
  <2>4. new \in Session /\ new.login = LoggedIn(u)
    BY <1>1, <2>3 DEF Session
  <2> QED
    BY <1>4, <2>1, <2>2, <2>3, <2>4, OneSessionAInv
<1> QED
  BY <1>5, <1>6, <1>7, <1>8

\* A step that leaves the sessions alone and keeps the accounts there are.
LEMMA RowsKept ==
    ASSUME AInv, user' \in Seq(UserRow), Len(user) <= Len(user'), Len(user') <= MaxUsers,
           pardoned' \subseteq DOMAIN user', UNCHANGED session,
           handler' \in [Handler -> HandlerRecord],
           \A h \in Handler : Changing(h)' => handler'[h].copy.login.user \in 1..Len(user)
    PROVE  AInv'
<1>1. Len(user) \in Nat /\ Len(user') \in Nat
  BY DEF AInv, TypeOK
<1>2. TypeOK'
  BY DEF AInv, TypeOK
<1>3. LoginsExist'
  BY <1>1 DEF AInv, LoginsExist
<1> QED
  BY <1>2, <1>3 DEF AInv

\* A step of one thread that leaves the sessions alone.
LEMMA OneHandlerAInv ==
    ASSUME AInv, NEW h \in Handler, NEW new \in HandlerRecord,
           handler' = [handler EXCEPT ![h] = new], UNCHANGED <<session, pardoned>>,
           user' \in Seq(UserRow), Len(user) <= Len(user'), Len(user') <= MaxUsers,
           new.pc \in {"change", "refuse", "locked", "answer"}
                => new.copy.login.user \in 1..Len(user)
    PROVE  AInv'
<1>1. /\ handler \in [Handler -> HandlerRecord] /\ user \in Seq(UserRow)
      /\ pardoned \subseteq DOMAIN user
  BY DEF AInv, TypeOK
<1>2. /\ handler' \in [Handler -> HandlerRecord]
      /\ \A g \in Handler : handler'[g] = IF g = h THEN new ELSE handler[g]
  BY <1>1
<1>3. \A g \in Handler : Changing(g)' => handler'[g].copy.login.user \in 1..Len(user)
  BY <1>2 DEF Changing, AInv, LoginsExist
<1>4. pardoned' \subseteq DOMAIN user'
  BY <1>1
<1> QED
  BY <1>2, <1>3, <1>4, RowsKept

LEMMA SetStatusAInv ==
    ASSUME AInv, NEW i \in Sid, NEW address \in Address, NEW status \in AccountStatus,
           SetStatus(i, address, status)
    PROVE  AInv'
<1>1. PICK u \in DOMAIN user : /\ user' = [user EXCEPT ![u].status = status]
                               /\ pardoned' \in {pardoned, pardoned \cup {u}}
  BY DEF SetStatus
<1>2. user \in Seq(UserRow) /\ Len(user) <= MaxUsers /\ user[u] \in UserRow
  BY DEF AInv, TypeOK
<1>3. user' = [user EXCEPT ![u] = [user[u] EXCEPT !.status = status]]
  BY <1>1, <1>2
<1>4. [user[u] EXCEPT !.status = status] \in UserRow
  BY <1>2 DEF UserRow
<1>5. user' \in Seq(UserRow) /\ Len(user') = Len(user) /\ DOMAIN user' = DOMAIN user
  BY <1>2, <1>3, <1>4
<1>6. UNCHANGED <<session, handler>> /\ handler \in [Handler -> HandlerRecord]
  BY DEF SetStatus, AInv, TypeOK
<1>7. Len(user) <= Len(user') /\ pardoned' \subseteq DOMAIN user'
  BY <1>1, <1>2, <1>5 DEF AInv, TypeOK
<1>8. \A h \in Handler : Changing(h)' => handler'[h].copy.login.user \in 1..Len(user)
  BY <1>6 DEF Changing, AInv, LoginsExist
<1> QED
  BY <1>2, <1>5, <1>6, <1>7, <1>8, RowsKept

LEMMA CheckNamesAInv ==
    ASSUME AInv, NEW h \in Handler, NEW i \in Sid, NEW batch \in Batches,
           CheckNames(h, i, batch)
    PROVE  AInv'
<1> DEFINE new == [pc |-> "insert", batch |-> batch]
<1>1. new \in HandlerRecord /\ new.pc = "insert"
  BY DEF HandlerRecord
<1>2. handler' = [handler EXCEPT ![h] = new] /\ UNCHANGED <<user, session, pardoned>>
  BY DEF CheckNames
<1> HIDE DEF new
<1>3. user' \in Seq(UserRow) /\ Len(user) <= Len(user') /\ Len(user') <= MaxUsers
  BY <1>2 DEF AInv, TypeOK
<1> QED
  BY <1>1, <1>2, <1>3, OneHandlerAInv

\* The rows of a list that is registered.
NewRows(batch) ==
    [k \in DOMAIN batch |->
        [name |-> batch[k].name, address |-> batch[k].address,
         password |-> batch[k].password, status |-> "active"]]

LEMMA NewRowsTyped ==
    ASSUME NEW batch \in Seq(Setup)
    PROVE  NewRows(batch) \in Seq(UserRow) /\ Len(NewRows(batch)) = Len(batch)
<1>1. ASSUME NEW k \in DOMAIN batch PROVE NewRows(batch)[k] \in UserRow
  <2>1. batch[k] \in Setup
    OBVIOUS
  <2> QED
    BY <2>1 DEF NewRows, Setup, UserRow, AccountStatus
<1> DEFINE new == NewRows(batch)
<1>2. new = [k \in DOMAIN new |-> new[k]] /\ DOMAIN new = 1..Len(batch) /\ Len(batch) \in Nat
  BY DEF NewRows
<1>3. \A k \in 1..Len(batch) : new[k] \in UserRow
  BY <1>1
<1> HIDE DEF new
<1>4. new \in [1..Len(batch) -> UserRow]
  BY <1>2, <1>3
<1>5. new \in Seq(UserRow) /\ Len(new) = Len(batch)
  BY <1>2, <1>4
<1> QED
  BY <1>5 DEF new

LEMMA InsertUsersAInv ==
    ASSUME AInv, NEW h \in Handler, InsertUsers(h)
    PROVE  /\ AInv'
           /\ Len(user) <= Len(user')
           /\ \A u \in DOMAIN user : u \in DOMAIN user' /\ user'[u] = user[u]
<1> DEFINE batch == handler[h].batch
           new == NewRows(batch)
<1>1. /\ handler[h].pc = "insert" /\ handler' = [handler EXCEPT ![h] = Idle]
      /\ UNCHANGED <<session, pardoned>> /\ user' = user \o new
      /\ Len(user) + Len(batch) <= MaxUsers
  BY DEF InsertUsers, NewRows
<1>2. user \in Seq(UserRow) /\ handler \in [Handler -> HandlerRecord]
  BY DEF AInv, TypeOK
<1>3. batch \in Seq(Setup)
  BY <1>1, HandlerKinds, AccountsAssumption DEF AInv, InsertRecord
<1>4. new \in Seq(UserRow) /\ Len(new) = Len(batch)
  BY <1>3, NewRowsTyped
<1> HIDE DEF new, batch
<1>5. /\ user' \in Seq(UserRow) /\ Len(user') = Len(user) + Len(new)
      /\ \A u \in DOMAIN user : u \in DOMAIN user' /\ user'[u] = user[u]
  <2>1. /\ user \o new \in Seq(UserRow) /\ Len(user \o new) = Len(user) + Len(new)
        /\ \A u \in 1..Len(user) + Len(new) :
                (user \o new)[u] = IF u <= Len(user) THEN user[u] ELSE new[u - Len(user)]
    BY <1>2, <1>4, ConcatProperties
  <2> QED
    BY <1>1, <1>2, <1>4, <2>1
<1>6. Len(user) <= Len(user') /\ Len(user') <= MaxUsers
  BY <1>1, <1>2, <1>3, <1>4, <1>5, AccountsAssumption
<1>7. Idle \in HandlerRecord /\ Idle.pc = "idle"
  BY DEF HandlerRecord, Idle
<1>8. AInv'
  BY <1>1, <1>5, <1>6, <1>7, OneHandlerAInv
<1> QED
  BY <1>5, <1>6, <1>8

LEMMA ReadAccountAInv ==
    ASSUME AInv, NEW h \in Handler, NEW i \in Sid,
           NEW current \in Password, NEW new \in Password, ReadAccount(h, i, current, new)
    PROVE  AInv'
<1> DEFINE row == user[session[i].login.user]
           change == [pc |-> "change", sid |-> i, copy |-> session[i], row |-> row, new |-> new]
           refuse == [pc |-> "refuse", sid |-> i, copy |-> session[i], row |-> row]
<1>1. /\ handler' = [handler EXCEPT ![h] = IF current = row.password THEN change ELSE refuse]
      /\ UNCHANGED <<user, session, pardoned>> /\ session[i].login # NoLogin
  BY DEF ReadAccount
<1>2. user \in Seq(UserRow) /\ session[i] \in Session /\ Len(user) <= MaxUsers
  BY DEF AInv, TypeOK
<1>3. session[i].login.user \in 1..Len(user)
  BY <1>1, <1>2 DEF AInv, LoginsExist
<1>4. row \in UserRow
  BY <1>2, <1>3
<1>5. change \in HandlerRecord /\ change.copy.login.user = session[i].login.user
  BY <1>2, <1>4 DEF HandlerRecord
<1>6. refuse \in HandlerRecord /\ refuse.copy.login.user = session[i].login.user
  BY <1>2, <1>4 DEF HandlerRecord
<1> HIDE DEF change, refuse
<1>7. PICK me \in HandlerRecord : /\ handler' = [handler EXCEPT ![h] = me]
                                  /\ me.copy.login.user \in 1..Len(user)
  BY <1>1, <1>3, <1>5, <1>6
<1>8. user' \in Seq(UserRow) /\ Len(user) <= Len(user') /\ Len(user') <= MaxUsers
  BY <1>1, <1>2
<1> QED
  BY <1>1, <1>7, <1>8, OneHandlerAInv

\* A session whose login counts differently, or shows another status.
LEMMA LoginCounted ==
    ASSUME NEW copy \in Session, NEW attempts \in 0..MaxAttempts
    PROVE  LET new == [copy EXCEPT !.login.attempts = attempts]
           IN  /\ new \in Session /\ new.login.user = copy.login.user
               /\ new.login.attempts = attempts
<1> DEFINE login == [copy.login EXCEPT !.attempts = attempts]
<1>1. login \in Login /\ login.user = copy.login.user /\ login.attempts = attempts
  BY DEF Session, Login
<1>2. [copy EXCEPT !.login.attempts = attempts] = [copy EXCEPT !.login = login]
  BY DEF Session
<1> HIDE DEF login
<1>3. [copy EXCEPT !.login = login] \in Session /\ [copy EXCEPT !.login = login].login = login
  BY <1>1 DEF Session
<1> QED
  BY <1>1, <1>2, <1>3

LEMMA LoginShows ==
    ASSUME NEW copy \in Session, NEW status \in AccountStatus
    PROVE  LET new == [copy EXCEPT !.login.status = status]
           IN  /\ new \in Session /\ new.login.user = copy.login.user
               /\ new.login.attempts = copy.login.attempts /\ new.login.status = status
<1> DEFINE login == [copy.login EXCEPT !.status = status]
<1>1. /\ login \in Login /\ login.user = copy.login.user
      /\ login.attempts = copy.login.attempts /\ login.status = status
  BY DEF Session, Login
<1>2. [copy EXCEPT !.login.status = status] = [copy EXCEPT !.login = login]
  BY DEF Session
<1> HIDE DEF login
<1>3. [copy EXCEPT !.login = login] \in Session /\ [copy EXCEPT !.login = login].login = login
  BY <1>1 DEF Session
<1> QED
  BY <1>1, <1>2, <1>3

\* What the record of a thread is replaced with when it has counted.
LEMMA AnswerTyped ==
    ASSUME NEW pc \in {"locked", "answer"}, NEW i \in Sid, NEW copy \in Session
    PROVE  /\ [pc |-> pc, sid |-> i, copy |-> copy] \in HandlerRecord
           /\ [pc |-> pc, sid |-> i, copy |-> copy] \in AnswerRecord
BY DEF HandlerRecord, AnswerRecord

\* A column of one row is written.
LEMMA RowWritten ==
    ASSUME AInv, NEW u \in DOMAIN user, NEW row \in UserRow, user' = [user EXCEPT ![u] = row]
    PROVE  /\ user' \in Seq(UserRow) /\ Len(user) <= Len(user') /\ Len(user') <= MaxUsers
           /\ DOMAIN user' = DOMAIN user
           /\ \A v \in DOMAIN user : user'[v] = IF v = u THEN row ELSE user[v]
BY DEF AInv, TypeOK

\* The row of a thread's account.
LEMMA RowOfChange ==
    ASSUME AInv, NEW h \in Handler, Changing(h)
    PROVE  /\ handler[h].copy \in Session /\ handler[h].sid \in Sid
           /\ handler[h].copy.login.user \in DOMAIN user
           /\ user[handler[h].copy.login.user] \in UserRow
<1>1. user \in Seq(UserRow) /\ handler[h].copy.login.user \in 1..Len(user)
  BY DEF AInv, TypeOK, LoginsExist
<1> QED
  BY <1>1, HandlerKinds DEF AInv

\* What a successful change writes: the password of one row, and the count.
LEMMA ChangeWrites ==
    ASSUME AInv, NEW h \in Handler, ChangePassword(h)
    PROVE  \E row \in UserRow, new \in AnswerRecord :
                LET u == handler[h].copy.login.user
                IN  /\ user' = [user EXCEPT ![u] = row]
                    /\ row.name = user[u].name /\ row.status = user[u].status
                    /\ handler' = [handler EXCEPT ![h] = new]
                    /\ new \in HandlerRecord /\ new.pc = "answer"
                    /\ new.copy.login.user = u /\ new.copy.login.attempts = 0
<1> DEFINE me == handler[h]
           u == me.copy.login.user
           password == IF me.new = me.row.password THEN user[u].password ELSE me.new
           row == [user[u] EXCEPT !.password = password]
           copy == [me.copy EXCEPT !.login.attempts = 0]
           new == [pc |-> "answer", sid |-> me.sid, copy |-> copy]
<1>1. /\ me.pc = "change" /\ handler' = [handler EXCEPT ![h] = new]
      /\ user' = [user EXCEPT ![u] = row]
  BY DEF ChangePassword, PasswordStored
<1>2. /\ me \in ChangeRecord /\ me.copy \in Session /\ me.sid \in Sid /\ user[u] \in UserRow
  BY <1>1, HandlerKinds, RowOfChange DEF AInv, Changing
<1>3. row \in UserRow /\ row.name = user[u].name /\ row.status = user[u].status
  <2>1. password \in Password
    BY <1>2 DEF UserRow, ChangeRecord
  <2> HIDE DEF password, u
  <2> QED
    BY <1>2, <2>1 DEF UserRow
<1>4. copy \in Session /\ copy.login.user = u /\ copy.login.attempts = 0
  <2>1. 0 \in 0..MaxAttempts
    BY AccountsAssumption
  <2> QED
    BY <1>2, <2>1, LoginCounted
<1> HIDE DEF row, copy
<1>5. new \in HandlerRecord /\ new \in AnswerRecord /\ new.pc = "answer" /\ new.copy = copy
  BY <1>2, <1>4, AnswerTyped
<1> HIDE DEF new
<1> QED
  BY <1>1, <1>3, <1>4, <1>5

LEMMA ChangePasswordAInv ==
    ASSUME AInv, NEW h \in Handler, ChangePassword(h)
    PROVE  AInv'
<1>1. Changing(h) /\ UNCHANGED <<session, pardoned>>
  BY DEF ChangePassword, Changing
<1> DEFINE u == handler[h].copy.login.user
<1>2. u \in DOMAIN user /\ u \in 1..Len(user)
  BY <1>1, RowOfChange DEF AInv, LoginsExist
<1>3. PICK row \in UserRow, new \in AnswerRecord :
            /\ user' = [user EXCEPT ![u] = row] /\ handler' = [handler EXCEPT ![h] = new]
            /\ new \in HandlerRecord /\ new.copy.login.user = u
  BY ChangeWrites
<1> HIDE DEF u
<1>4. user' \in Seq(UserRow) /\ Len(user) <= Len(user') /\ Len(user') <= MaxUsers
  BY <1>2, <1>3, RowWritten
<1> QED
  BY <1>1, <1>2, <1>3, <1>4, OneHandlerAInv

\* What a refused change writes: the lock, if the limit is met and the thread
\* does not know of one, and the count.
LEMMA RefuseWrites ==
    ASSUME AInv, NEW h \in Handler, RefusePassword(h)
    PROVE  \E row \in UserRow, new \in AnswerRecord :
                LET me == handler[h]
                    login == me.copy.login
                    locks == login.attempts + 1 = Attempts
                IN  /\ user' = [user EXCEPT ![login.user] = row]
                    /\ row.name = user[login.user].name
                    /\ row.status = IF locks /\ me.row.status # "locked"
                                      THEN "locked" ELSE user[login.user].status
                    /\ handler' = [handler EXCEPT ![h] = new]
                    /\ new \in HandlerRecord
                    /\ new.pc = IF locks THEN "locked" ELSE "answer"
                    /\ new.copy.login.user = login.user
                    /\ new.copy.login.attempts = login.attempts + 1
<1> DEFINE me == handler[h]
           u == me.copy.login.user
           attempts == me.copy.login.attempts + 1
           locks == attempts = Attempts
           status == IF locks /\ me.row.status # "locked" THEN "locked" ELSE user[u].status
           row == [user[u] EXCEPT !.status = status]
           copy == [me.copy EXCEPT !.login.attempts = attempts]
           pc == IF locks THEN "locked" ELSE "answer"
           new == [pc |-> pc, sid |-> me.sid, copy |-> copy]
<1>1. /\ me.pc = "refuse" /\ attempts <= MaxAttempts
      /\ handler' = [handler EXCEPT ![h] = new] /\ user' = [user EXCEPT ![u] = row]
  BY DEF RefusePassword, LimitMet
<1>2. /\ me \in RefuseRecord /\ me.copy \in Session /\ me.sid \in Sid /\ user[u] \in UserRow
  BY <1>1, HandlerKinds, RowOfChange DEF AInv, Changing
<1>3. row \in UserRow /\ row.name = user[u].name /\ row.status = status
  <2>1. status \in AccountStatus
    BY <1>2 DEF UserRow, AccountStatus
  <2> HIDE DEF status, u
  <2> QED
    BY <1>2, <2>1 DEF UserRow
<1>4. copy \in Session /\ copy.login.user = u /\ copy.login.attempts = attempts
  <2>1. attempts \in 0..MaxAttempts
    BY <1>1, <1>2, AccountsAssumption DEF Session, Login
  <2> HIDE DEF attempts
  <2> QED
    BY <1>2, <2>1, LoginCounted
<1>5. pc \in {"locked", "answer"}
  OBVIOUS
<1> HIDE DEF row, copy, pc
<1>6. new \in HandlerRecord /\ new \in AnswerRecord /\ new.pc = pc /\ new.copy = copy
  BY <1>2, <1>4, <1>5, AnswerTyped
<1> HIDE DEF new
<1> QED
  BY <1>1, <1>3, <1>4, <1>6 DEF pc

LEMMA RefusePasswordAInv ==
    ASSUME AInv, NEW h \in Handler, RefusePassword(h)
    PROVE  AInv'
<1>1. Changing(h) /\ UNCHANGED <<session, pardoned>>
  BY DEF RefusePassword, Changing
<1> DEFINE u == handler[h].copy.login.user
<1>2. u \in DOMAIN user /\ u \in 1..Len(user)
  BY <1>1, RowOfChange DEF AInv, LoginsExist
<1>3. PICK row \in UserRow, new \in AnswerRecord :
            /\ user' = [user EXCEPT ![u] = row] /\ handler' = [handler EXCEPT ![h] = new]
            /\ new \in HandlerRecord /\ new.copy.login.user = u
  BY RefuseWrites
<1> HIDE DEF u
<1>4. user' \in Seq(UserRow) /\ Len(user) <= Len(user') /\ Len(user') <= MaxUsers
  BY <1>2, <1>3, RowWritten
<1> QED
  BY <1>1, <1>2, <1>3, <1>4, OneHandlerAInv

\* The status that is read becomes the copy's.
LEMMA StatusRead ==
    ASSUME AInv, NEW h \in Handler, ReadStatus(h)
    PROVE  \E new \in AnswerRecord :
                LET login == handler[h].copy.login
                IN  /\ handler' = [handler EXCEPT ![h] = new]
                    /\ new \in HandlerRecord /\ new.pc = "answer"
                    /\ new.copy.login.user = login.user
                    /\ new.copy.login.attempts = login.attempts
                    /\ new.copy.login.status = user[login.user].status
<1> DEFINE me == handler[h]
           status == user[me.copy.login.user].status
           copy == [me.copy EXCEPT !.login.status = status]
           new == [pc |-> "answer", sid |-> me.sid, copy |-> copy]
<1>1. me.pc = "locked" /\ handler' = [handler EXCEPT ![h] = new]
  BY DEF ReadStatus
<1>2. me \in AnswerRecord /\ me.copy \in Session /\ me.sid \in Sid /\ status \in AccountStatus
  BY <1>1, HandlerKinds, RowOfChange DEF AInv, Changing, UserRow
<1> HIDE DEF status
<1>3. /\ copy \in Session /\ copy.login.user = me.copy.login.user
      /\ copy.login.attempts = me.copy.login.attempts /\ copy.login.status = status
  BY <1>2, LoginShows
<1> HIDE DEF copy
<1>4. new \in HandlerRecord /\ new \in AnswerRecord /\ new.pc = "answer" /\ new.copy = copy
  BY <1>2, <1>3, AnswerTyped
<1> HIDE DEF new
<1> QED
  BY <1>1, <1>3, <1>4 DEF status

LEMMA ReadStatusAInv ==
    ASSUME AInv, NEW h \in Handler, ReadStatus(h)
    PROVE  AInv'
<1>1. Changing(h) /\ UNCHANGED <<user, session, pardoned>>
  BY DEF ReadStatus, Changing
<1>2. handler[h].copy.login.user \in 1..Len(user)
  BY <1>1 DEF AInv, LoginsExist
<1>3. PICK new \in AnswerRecord :
            /\ handler' = [handler EXCEPT ![h] = new] /\ new \in HandlerRecord
            /\ new.copy.login.user = handler[h].copy.login.user
  BY StatusRead
<1>4. user' \in Seq(UserRow) /\ Len(user) <= Len(user') /\ Len(user') <= MaxUsers
  BY <1>1 DEF AInv, TypeOK
<1> QED
  BY <1>1, <1>2, <1>3, <1>4, OneHandlerAInv

LEMMA SaveSessionAInv ==
    ASSUME AInv, NEW h \in Handler, SaveSession(h)
    PROVE  AInv'
<1> DEFINE me == handler[h]
<1>1. /\ Changing(h) /\ session' = [session EXCEPT ![me.sid] = me.copy]
      /\ handler' = [handler EXCEPT ![h] = Idle] /\ UNCHANGED <<user, pardoned>>
  BY DEF SaveSession, Changing
<1>2. me.copy \in Session /\ me.sid \in Sid /\ me.copy.login.user \in 1..Len(user)
  BY <1>1, RowOfChange DEF AInv, LoginsExist
<1>3. me.copy.login.user \in 0..Len(user) /\ me.copy.login.user # 0
  BY <1>2 DEF AInv, TypeOK
<1>4. handler \in [Handler -> HandlerRecord] /\ Idle \in HandlerRecord
  BY DEF AInv, TypeOK, HandlerRecord
<1>5. /\ handler' \in [Handler -> HandlerRecord]
      /\ \A g \in Handler : Changing(g)' => Changing(g) /\ handler'[g] = handler[g]
  BY <1>1, <1>4 DEF Changing, Idle
<1> QED
  BY <1>1, <1>2, <1>3, <1>5, OneSessionAInv

LEMMA AInvInductive == AInv /\ [Next]_vars => AInv'
<1> SUFFICES ASSUME AInv, [Next]_vars PROVE AInv'
  OBVIOUS
<1>1. ASSUME NEW i \in Sid,
             \/ AdminLogin(i) \/ AdminLogoff(i) \/ AccountLogoff(i)
             \/ \E name \in Name, password \in Password : AccountLogin(i, name, password)
      PROVE  AInv'
  BY <1>1, SessionStepAInv
<1>2. ASSUME NEW i \in Sid, NEW address \in Address, NEW status \in AccountStatus,
             SetStatus(i, address, status)
      PROVE  AInv'
  BY <1>2, SetStatusAInv
<1>3. ASSUME NEW h \in Handler, NEW i \in Sid, NEW batch \in Batches, CheckNames(h, i, batch)
      PROVE  AInv'
  BY <1>3, CheckNamesAInv
<1>4. ASSUME NEW h \in Handler, NEW i \in Sid, NEW current \in Password, NEW new \in Password,
             ReadAccount(h, i, current, new)
      PROVE  AInv'
  BY <1>4, ReadAccountAInv
<1>5. ASSUME NEW h \in Handler, InsertUsers(h) \/ ChangePassword(h) \/ RefusePassword(h)
      PROVE  AInv'
  BY <1>5, InsertUsersAInv, ChangePasswordAInv, RefusePasswordAInv
<1>6. ASSUME NEW h \in Handler, ReadStatus(h) \/ SaveSession(h)
      PROVE  AInv'
  BY <1>6, ReadStatusAInv, SaveSessionAInv
<1>7. CASE UNCHANGED vars
  BY <1>7 DEF vars, AInv, TypeOK, LoginsExist, Changing
<1> QED
  BY <1>1, <1>2, <1>3, <1>4, <1>5, <1>6, <1>7 DEF Next

LEMMA AInvAlways == Spec => []AInv
BY InitAInv, AInvInductive, PTL DEF Spec

\* The user table, the sessions and the threads of Accounts keep their types.
THEOREM AccountsTyped == Spec => []TypeOK
<1>1. AInv => TypeOK
  BY DEF AInv
<1> QED
  BY <1>1, AInvAlways, PTL

-----------------------------------------------------------------------------
(* Rows keep their names, and locks stand *)

\* An account that is locked, or was until an administrator unlocked it.
Held(u, rows, unlocked) == u \in unlocked \/ rows[u].status = "locked"

\* What every step leaves of the rows there are.
RowsStand ==
    /\ pardoned \subseteq pardoned'
    /\ Len(user) <= Len(user')
    /\ \A u \in DOMAIN user :
        /\ u \in DOMAIN user' /\ user'[u].name = user[u].name
        /\ Held(u, user, pardoned) => Held(u, user', pardoned')

\* One row is written, and a lock taken from it is remembered.
LEMMA RowStands ==
    ASSUME AInv, NEW u \in DOMAIN user, NEW row \in UserRow,
           user' = [user EXCEPT ![u] = row], row.name = user[u].name,
           pardoned \subseteq pardoned',
           user[u].status = "locked" => row.status = "locked" \/ u \in pardoned'
    PROVE  RowsStand
<1>1. /\ Len(user) <= Len(user') /\ DOMAIN user' = DOMAIN user
      /\ \A v \in DOMAIN user : user'[v] = IF v = u THEN row ELSE user[v]
  BY RowWritten
<1> QED
  BY <1>1 DEF RowsStand, Held

LEMMA SetStatusStands ==
    ASSUME AInv, NEW i \in Sid, NEW address \in Address, NEW status \in AccountStatus,
           SetStatus(i, address, status)
    PROVE  RowsStand
<1>1. PICK u \in DOMAIN user :
            /\ user' = [user EXCEPT ![u].status = status]
            /\ pardoned' = IF user[u].status = "locked" /\ status = "active"
                             THEN pardoned \cup {u} ELSE pardoned
  BY DEF SetStatus
<1> DEFINE row == [user[u] EXCEPT !.status = status]
<1>2. user[u] \in UserRow /\ user' = [user EXCEPT ![u] = row]
  BY <1>1 DEF AInv, TypeOK
<1>3. row \in UserRow /\ row.name = user[u].name /\ row.status = status
  BY <1>2 DEF UserRow
<1> HIDE DEF row
<1>4. pardoned \subseteq pardoned'
  BY <1>1
<1>5. user[u].status = "locked" => row.status = "locked" \/ u \in pardoned'
  BY <1>1, <1>3 DEF AccountStatus
<1> QED
  BY <1>2, <1>3, <1>4, <1>5, RowStands

LEMMA RowsStandStep == AInv /\ [Next]_vars => RowsStand
<1> SUFFICES ASSUME AInv, [Next]_vars PROVE RowsStand
  OBVIOUS
<1>0. user \in Seq(UserRow) /\ Len(user) \in Nat
  BY DEF AInv, TypeOK
<1>1. ASSUME UNCHANGED <<user, pardoned>> PROVE RowsStand
  BY <1>0, <1>1 DEF RowsStand
<1>2. ASSUME NEW i \in Sid,
             \/ AdminLogin(i) \/ AdminLogoff(i) \/ AccountLogoff(i)
             \/ \E name \in Name, password \in Password : AccountLogin(i, name, password)
      PROVE  UNCHANGED <<user, pardoned>>
  BY <1>2 DEF AdminLogin, AdminLogoff, AccountLogoff, AccountLogin
<1>3. ASSUME NEW i \in Sid, NEW address \in Address, NEW status \in AccountStatus,
             SetStatus(i, address, status)
      PROVE  RowsStand
  BY <1>3, SetStatusStands
<1>4. ASSUME NEW h \in Handler,
             \/ ReadStatus(h) \/ SaveSession(h)
             \/ \E i \in Sid : \/ \E batch \in Batches : CheckNames(h, i, batch)
                               \/ \E current, new \in Password : ReadAccount(h, i, current, new)
      PROVE  UNCHANGED <<user, pardoned>>
  BY <1>4 DEF ReadStatus, SaveSession, CheckNames, ReadAccount
<1>5. ASSUME NEW h \in Handler, InsertUsers(h) PROVE RowsStand
  <2>1. pardoned' = pardoned
    BY <1>5 DEF InsertUsers
  <2> QED
    BY <1>5, <2>1, InsertUsersAInv DEF RowsStand, Held
<1>6. ASSUME NEW h \in Handler, ChangePassword(h) PROVE RowsStand
  <2>1. pardoned' = pardoned /\ handler[h].copy.login.user \in DOMAIN user
    BY <1>6, RowOfChange DEF ChangePassword, Changing
  <2>2. PICK row \in UserRow :
            LET u == handler[h].copy.login.user
            IN  /\ user' = [user EXCEPT ![u] = row]
                /\ row.name = user[u].name /\ row.status = user[u].status
    BY <1>6, ChangeWrites
  <2> QED
    BY <2>1, <2>2, RowStands
<1>7. ASSUME NEW h \in Handler, RefusePassword(h) PROVE RowsStand
  <2>1. pardoned' = pardoned /\ handler[h].copy.login.user \in DOMAIN user
    BY <1>7, RowOfChange DEF RefusePassword, Changing
  <2>2. PICK row \in UserRow :
            LET u == handler[h].copy.login.user
            IN  /\ user' = [user EXCEPT ![u] = row]
                /\ row.name = user[u].name /\ row.status \in {"locked", user[u].status}
    BY <1>7, RefuseWrites
  <2> QED
    BY <2>1, <2>2, RowStands
<1>8. UNCHANGED vars => UNCHANGED <<user, pardoned>>
  BY DEF vars
<1> QED
  BY <1>1, <1>2, <1>3, <1>4, <1>5, <1>6, <1>7, <1>8 DEF Next

\* An account that is locked stays locked until an administrator unlocks it,
\* with any number of threads that read it before: the commit of a new password
\* writes the one column that changed (account_set_password).
THEOREM LockStandsHolds == Spec => LockStands
<1>1. AInv /\ [Next]_vars => [\A u \in DOMAIN user :
            user[u].status = "locked" => user'[u].status = "locked" \/ u \in pardoned']_vars
  BY RowsStandStep DEF RowsStand, Held
<1> QED
  BY <1>1, AInvAlways, PTL DEF Spec, LockStands

\* The name goes on logging in the account that had it first, whatever is
\* registered later and however registrations overlap or repeat a name: rows are
\* appended, none changes its name, and the first one found counts
\* (_new_user_reg, verify_credentials).
THEOREM NameKeepsAccountHolds == Spec => NameKeepsAccount
<1>1. ASSUME AInv, [Next]_vars, NEW name \in Name, FirstNamed(name) # 0
      PROVE  FirstNamed(name)' = FirstNamed(name)
  <2>1. FirstNamed(name) = Earliest(user, name) /\ FirstNamed(name)' = Earliest(user', name)
    BY DEF FirstNamed, Earliest, SelectInSeq
  <2>2. user \in Seq(UserRow) /\ user' \in Seq(UserRow)
    BY <1>1, AInvInductive DEF AInv, TypeOK
  <2> DEFINE first == Earliest(user, name)
             then == Earliest(user', name)
  <2>3. /\ first \in 0..Len(user) /\ first # 0 /\ user[first].name = name
        /\ \A u \in DOMAIN user : user[u].name = name => first <= u
    BY <1>1, <2>1, <2>2, EarliestIsFirst
  <2>4. /\ then \in 0..Len(user') /\ (then # 0 => user'[then].name = name)
        /\ \A u \in DOMAIN user' : user'[u].name = name => then # 0 /\ then <= u
    BY <2>2, EarliestIsFirst
  <2>5. \A u \in DOMAIN user : u \in DOMAIN user' /\ user'[u].name = user[u].name
    BY <1>1, RowsStandStep DEF RowsStand
  <2> HIDE DEF first, then
  <2>6. first \in DOMAIN user /\ first \in Nat /\ then \in Nat
    BY <2>2, <2>3, <2>4
  <2>7. then # 0 /\ then <= first /\ user'[then].name = name
    BY <2>3, <2>4, <2>5, <2>6
  <2>8. then \in DOMAIN user
    BY <2>2, <2>3, <2>6, <2>7
  <2>9. first <= then
    BY <2>3, <2>5, <2>7, <2>8
  <2> QED
    BY <2>1, <2>6, <2>7, <2>9 DEF first, then
<1>2. AInv /\ [Next]_vars => [\A name \in Name :
            FirstNamed(name) # 0 => FirstNamed(name)' = FirstNamed(name)]_vars
  BY <1>1
<1> QED
  BY <1>2, AInvAlways, PTL DEF Spec, NameKeepsAccount

-----------------------------------------------------------------------------
(* The limit *)

\* A login may fail once more without passing the limit.
Below(login, unlocked) == login.user \notin unlocked => login.attempts < Attempts

\* What LimitLocksOut says of a login.
Within(login, rows, unlocked) ==
    login.user \notin unlocked =>
        /\ login.attempts <= Attempts
        /\ login.attempts = Attempts =>
                login.status = "locked" /\ rows[login.user].status = "locked"

\* What a thread that handles a change of password knows, however old its
\* copies are.
ChangeInv(h) ==
    LET me == handler[h]
        login == me.copy.login
    IN  /\ me.pc \in {"change", "refuse"} => Below(login, pardoned)
        /\ me.pc = "refuse" /\ me.row.status = "locked" => Held(login.user, user, pardoned)
        /\ me.pc = "locked" => login.attempts = Attempts /\ Held(login.user, user, pardoned)
        /\ me.pc = "answer" => Within(login, user, pardoned)

LInv ==
    /\ AInv
    /\ \A i \in Sid : Within(session[i].login, user, pardoned)
    /\ \A h \in Handler : ChangeInv(h)

\* A login that is within the limit stays so while the tables change.
LEMMA WithinKept ==
    ASSUME RowsStand, NEW login, Within(login, user, pardoned),
           login.attempts = Attempts => login.user \in DOMAIN user
    PROVE  Within(login, user', pardoned')
BY DEF RowsStand, Held, Within

\* No attempts are within any limit.
LEMMA NoneWithin ==
    ASSUME NEW login, NEW rows, NEW unlocked, login.attempts = 0
    PROVE  Within(login, rows, unlocked)
BY AccountsAssumption DEF Within

\* The login of a session is an account's, or has no attempts.
LEMMA SessionWithinKept ==
    ASSUME LInv, RowsStand, NEW i \in Sid,
           session'[i].login = session[i].login \/ session'[i].login.attempts = 0
    PROVE  Within(session'[i].login, user', pardoned')
<1>1. CASE session'[i].login.attempts = 0
  BY <1>1, NoneWithin
<1>2. CASE session'[i].login = session[i].login
  <2>1. /\ Attempts # 0 /\ user \in Seq(UserRow)
        /\ session[i].login # NoLogin => session[i].login.user \in 1..Len(user)
    BY AccountsAssumption DEF LInv, AInv, TypeOK, LoginsExist
  <2>2. session[i].login.attempts = Attempts => session[i].login.user \in DOMAIN user
    BY <2>1 DEF NoLogin
  <2> QED
    BY <1>2, <2>2, WithinKept DEF LInv
<1> QED
  BY <1>1, <1>2

\* A thread that does not take the step.
LEMMA ChangeKept ==
    ASSUME LInv, RowsStand, NEW h \in Handler, handler'[h] = handler[h]
    PROVE  ChangeInv(h)'
<1>1. Changing(h) => handler[h].copy.login.user \in DOMAIN user
  BY RowOfChange DEF LInv
<1>2. ASSUME handler[h].pc \in {"change", "refuse"}
      PROVE  Below(handler[h].copy.login, pardoned')
  BY <1>2 DEF LInv, ChangeInv, Below, RowsStand
<1>3. ASSUME Changing(h), Held(handler[h].copy.login.user, user, pardoned)
      PROVE  Held(handler[h].copy.login.user, user', pardoned')
  BY <1>1, <1>3 DEF RowsStand
<1>4. ASSUME handler[h].pc = "answer"
      PROVE  Within(handler[h].copy.login, user', pardoned')
  BY <1>1, <1>4, WithinKept DEF LInv, ChangeInv, Changing
<1> QED
  BY <1>2, <1>3, <1>4 DEF LInv, ChangeInv, Changing

LEMMA ReadAccountLimit ==
    ASSUME LInv, RowsStand, NEW h \in Handler, NEW i \in Sid,
           NEW current \in Password, NEW new \in Password, ReadAccount(h, i, current, new)
    PROVE  ChangeInv(h)'
<1> DEFINE login == session[i].login
           row == user[login.user]
<1>1. /\ UNCHANGED <<user, pardoned>> /\ login # NoLogin /\ login.status # "locked"
      /\ handler'[h] \in
            {[pc |-> "change", sid |-> i, copy |-> session[i], row |-> row, new |-> new],
             [pc |-> "refuse", sid |-> i, copy |-> session[i], row |-> row]}
  BY DEF ReadAccount, LInv, AInv, TypeOK
<1>2. /\ handler'[h].pc \in {"change", "refuse"} /\ handler'[h].copy = session[i]
      /\ handler'[h].row = row
  BY <1>1
<1>3. Below(login, pardoned)
  <2>1. login.attempts \in Nat /\ Attempts \in Nat
    BY AccountsAssumption DEF LInv, AInv, TypeOK, Session, Login
  <2>2. Within(login, user, pardoned)
    BY DEF LInv
  <2> QED
    BY <1>1, <2>1, <2>2 DEF Within, Below
<1>4. row.status = "locked" => Held(login.user, user, pardoned)
  BY DEF Held
<1> HIDE DEF row
<1> QED
  BY <1>1, <1>2, <1>3, <1>4 DEF ChangeInv

LEMMA ChangePasswordLimit ==
    ASSUME LInv, RowsStand, NEW h \in Handler, ChangePassword(h)
    PROVE  ChangeInv(h)'
<1>1. PICK new \in AnswerRecord : /\ handler' = [handler EXCEPT ![h] = new] /\ new.pc = "answer"
                                  /\ new.copy.login.attempts = 0
  BY ChangeWrites DEF LInv
<1>2. handler'[h] = new
  BY <1>1 DEF LInv, AInv, TypeOK
<1>3. Within(new.copy.login, user', pardoned')
  BY <1>1, NoneWithin
<1> QED
  BY <1>1, <1>2, <1>3 DEF ChangeInv

\* The attempt that meets the limit finds the account locked or locks it.
LEMMA RefusePasswordLimit ==
    ASSUME LInv, RowsStand, NEW h \in Handler, RefusePassword(h)
    PROVE  ChangeInv(h)'
<1> DEFINE me == handler[h]
           u == me.copy.login.user
           attempts == me.copy.login.attempts + 1
           locks == attempts = Attempts
<1>1. me.pc = "refuse" /\ pardoned' = pardoned /\ u \in DOMAIN user
  BY RowOfChange DEF RefusePassword, Changing, LInv
<1>2. /\ me.copy.login.attempts \in Nat /\ Attempts \in Nat
      /\ Below(me.copy.login, pardoned)
      /\ me.row.status = "locked" => Held(u, user, pardoned)
  BY <1>1, RowOfChange, AccountsAssumption
     DEF LInv, ChangeInv, Changing, Session, Login
<1>3. PICK row \in UserRow, new \in AnswerRecord :
            /\ user' = [user EXCEPT ![u] = row]
            /\ row.status = IF locks /\ me.row.status # "locked" THEN "locked" ELSE user[u].status
            /\ handler' = [handler EXCEPT ![h] = new]
            /\ new.pc = IF locks THEN "locked" ELSE "answer"
            /\ new.copy.login.user = u
            /\ new.copy.login.attempts = attempts
  BY RefuseWrites DEF LInv
<1>4. handler'[h] = new
  BY <1>3 DEF LInv, AInv, TypeOK
<1>5. user'[u] = row
  BY <1>1, <1>3, RowWritten DEF LInv
<1>6. CASE locks
  <2>1. Held(u, user', pardoned')
    <3>1. CASE me.row.status = "locked"
      BY <1>1, <1>2, <3>1 DEF RowsStand
    <3>2. CASE me.row.status # "locked"
      BY <1>3, <1>5, <1>6, <3>2 DEF Held
    <3> QED
      BY <3>1, <3>2
  <2> QED
    BY <1>3, <1>4, <1>6, <2>1 DEF ChangeInv
<1>7. CASE ~locks
  <2>1. u \notin pardoned => attempts < Attempts
    BY <1>2, <1>7 DEF Below
  <2>2. Within(new.copy.login, user', pardoned')
    BY <1>1, <1>2, <1>3, <2>1 DEF Within
  <2> QED
    BY <1>3, <1>4, <1>7, <2>2 DEF ChangeInv
<1> QED
  BY <1>6, <1>7

\* The status that is read is the lock, unless it was taken back.
LEMMA ReadStatusLimit ==
    ASSUME LInv, RowsStand, NEW h \in Handler, ReadStatus(h)
    PROVE  ChangeInv(h)'
<1> DEFINE login == handler[h].copy.login
<1>1. handler[h].pc = "locked" /\ UNCHANGED <<user, pardoned>> /\ Attempts \in Nat
  BY AccountsAssumption DEF ReadStatus
<1>2. login.attempts = Attempts /\ Held(login.user, user, pardoned)
  BY <1>1 DEF LInv, ChangeInv
<1>3. PICK new \in AnswerRecord :
            /\ handler' = [handler EXCEPT ![h] = new] /\ new.pc = "answer"
            /\ new.copy.login.user = login.user
            /\ new.copy.login.attempts = login.attempts
            /\ new.copy.login.status = user[login.user].status
  BY StatusRead DEF LInv
<1>4. handler'[h] = new
  BY <1>3 DEF LInv, AInv, TypeOK
<1>5. Within(new.copy.login, user, pardoned)
  BY <1>1, <1>2, <1>3 DEF Within, Held
<1> QED
  BY <1>1, <1>3, <1>4, <1>5 DEF ChangeInv

LEMMA LInvInit == Init => LInv
<1> SUFFICES ASSUME Init PROVE LInv
  OBVIOUS
<1>1. \A i \in Sid : session[i].login.attempts = 0
  BY DEF Init, NoSession, NoLogin
<1>2. \A h \in Handler : ChangeInv(h)
  BY DEF Init, Idle, ChangeInv
<1> QED
  BY <1>1, <1>2, InitAInv, NoneWithin DEF LInv

LEMMA LInvStep == LInv /\ [Next]_vars => LInv'
<1> SUFFICES ASSUME LInv, [Next]_vars PROVE LInv'
  OBVIOUS
<1>0. /\ AInv' /\ RowsStand
      /\ session \in [Sid -> Session] /\ handler \in [Handler -> HandlerRecord]
  BY AInvInductive, RowsStandStep DEF LInv, AInv, TypeOK
<1> SUFFICES /\ \A i \in Sid : Within(session'[i].login, user', pardoned')
             /\ \A h \in Handler : ChangeInv(h)'
  BY <1>0 DEF LInv
<1>1. ASSUME UNCHANGED handler,
             \A i \in Sid : session'[i].login = session[i].login \/ session'[i].login.attempts = 0
      PROVE  /\ \A i \in Sid : Within(session'[i].login, user', pardoned')
             /\ \A h \in Handler : ChangeInv(h)'
  BY <1>0, <1>1, SessionWithinKept, ChangeKept
<1>2. ASSUME NEW h \in Handler, UNCHANGED session, ChangeInv(h)',
             \A g \in Handler : g # h => handler'[g] = handler[g]
      PROVE  /\ \A i \in Sid : Within(session'[i].login, user', pardoned')
             /\ \A g \in Handler : ChangeInv(g)'
  BY <1>0, <1>2, SessionWithinKept, ChangeKept
<1>3. ASSUME NEW i \in Sid, AdminLogin(i) \/ AdminLogoff(i) \/ AccountLogoff(i)
      PROVE  /\ UNCHANGED handler
             /\ \A j \in Sid : \/ session'[j].login = session[j].login
                               \/ session'[j].login.attempts = 0
  BY <1>0, <1>3 DEF AdminLogin, AdminLogoff, AccountLogoff, Session, NoLogin
<1>4. ASSUME NEW i \in Sid, NEW name \in Name, NEW password \in Password,
             AccountLogin(i, name, password)
      PROVE  /\ UNCHANGED handler
             /\ \A j \in Sid : \/ session'[j].login = session[j].login
                               \/ session'[j].login.attempts = 0
  BY <1>0, <1>4 DEF AccountLogin, LoggedIn, Session
<1>5. ASSUME NEW i \in Sid, NEW address \in Address, NEW status \in AccountStatus,
             SetStatus(i, address, status)
      PROVE  UNCHANGED <<session, handler>>
  BY <1>5 DEF SetStatus
<1>6. ASSUME NEW h \in Handler,
             InsertUsers(h) \/ \E i \in Sid, batch \in Batches : CheckNames(h, i, batch)
      PROVE  /\ UNCHANGED session /\ ChangeInv(h)'
             /\ \A g \in Handler : g # h => handler'[g] = handler[g]
  BY <1>0, <1>6 DEF InsertUsers, CheckNames, ChangeInv, Idle
<1>7. ASSUME NEW h \in Handler, NEW i \in Sid, NEW current \in Password, NEW new \in Password,
             ReadAccount(h, i, current, new)
      PROVE  /\ UNCHANGED session /\ ChangeInv(h)'
             /\ \A g \in Handler : g # h => handler'[g] = handler[g]
  BY <1>0, <1>7, ReadAccountLimit DEF ReadAccount
<1>8. ASSUME NEW h \in Handler, ChangePassword(h) \/ RefusePassword(h) \/ ReadStatus(h)
      PROVE  /\ UNCHANGED session /\ ChangeInv(h)'
             /\ \A g \in Handler : g # h => handler'[g] = handler[g]
  <2>1. ChangeInv(h)'
    BY <1>0, <1>8, ChangePasswordLimit, RefusePasswordLimit, ReadStatusLimit
  <2> QED
    BY <1>0, <1>8, <2>1 DEF ChangePassword, RefusePassword, ReadStatus
<1>9. ASSUME NEW h \in Handler, SaveSession(h)
      PROVE  /\ \A i \in Sid : Within(session'[i].login, user', pardoned')
             /\ \A g \in Handler : ChangeInv(g)'
  <2> DEFINE me == handler[h]
  <2>1. /\ me.pc = "answer" /\ session' = [session EXCEPT ![me.sid] = me.copy]
        /\ handler' = [handler EXCEPT ![h] = Idle] /\ UNCHANGED <<user, pardoned>>
    BY <1>9 DEF SaveSession
  <2>2. me.sid \in Sid /\ Within(me.copy.login, user, pardoned)
    BY <2>1, HandlerKinds DEF LInv, AInv, ChangeInv, Changing
  <2>3. \A i \in Sid : Within(session'[i].login, user', pardoned')
    BY <1>0, <2>1, <2>2 DEF LInv
  <2>4. ChangeInv(h)' /\ \A g \in Handler : g # h => handler'[g] = handler[g]
    BY <1>0, <2>1 DEF ChangeInv, Idle
  <2> QED
    BY <1>0, <2>3, <2>4, ChangeKept
<1>10. UNCHANGED vars => UNCHANGED <<session, handler>>
  BY DEF vars
<1> QED
  BY <1>1, <1>2, <1>3, <1>4, <1>5, <1>6, <1>7, <1>8, <1>9, <1>10 DEF Next

\* For any limit and any number of clients and threads, whose requests overlap
\* as they like: while no administrator unlocks it, an account is locked by the
\* failure that meets the limit, no session of it counts further, and the session
\* that met the limit shows the lock (account_set_password).
THEOREM LimitLocksOutHolds == Spec => []LimitLocksOut
<1>1. LInv => LimitLocksOut
  BY DEF LInv, LimitLocksOut, Within
<1>2. Spec => []LInv
  BY LInvInit, LInvStep, PTL DEF Spec
<1> QED
  BY <1>1, <1>2, PTL
=============================================================================
