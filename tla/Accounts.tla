------------------------------ MODULE Accounts ------------------------------
(***************************************************************************)
(* User accounts and the sessions that act for them.                       *)
(*                                                                         *)
(* The administrator registers accounts, one or a list at a time, and      *)
(* locks and unlocks them (admin.py).  An account logs in and off and      *)
(* changes its password (account.py); too many wrong attempts lock it.     *)
(* Both keep their login in the same kind of session: a client that logs   *)
(* in both ways has one session with the keys of both.                     *)
(*                                                                         *)
(* A registration looks the names up before it inserts.  A change of       *)
(* password reads the session and the account, commits the account, reads  *)
(* it again if that locked it, and writes its copy of the session back     *)
(* when it answers.  Between these steps the requests of other threads     *)
(* run, those of the same session too.  The other handlers decide and      *)
(* write at once.                                                          *)
(***************************************************************************)
EXTENDS Naturals, Sequences, SequencesExt

CONSTANTS
    Name,       \* user names
    Like,       \* Like[n]: the names SQL's LIKE finds for n, in any case
    Address,    \* addresses, derived from the public keys
    Password,   \* passwords, of which the server keeps hashes
    Batches,    \* the lists of accounts that are registered at a time
    Sid,        \* session ids
    Handler,    \* the threads that run a request of several steps
    Attempts,   \* ALLOW_PWD_CHANGE_ATTEMPTS
    MaxAttempts,\* bound: attempts that are counted in a session
    MaxUsers    \* bound: rows of the user table

Setup == [name : Name, address : Address, password : Password]

ASSUME AccountsAssumption ==
    /\ Like \in [Name -> SUBSET Name]
    /\ \A n \in Name : n \in Like[n]
    /\ Batches \subseteq Seq(Setup)
    /\ Attempts \in Nat \ {0}
    /\ MaxAttempts \in Nat
    /\ MaxUsers \in Nat

VARIABLES
    user,       \* the user table, in the order of the ids
    session,    \* session[i]: what the session of id i holds
    handler,    \* handler[h]: the request of several steps a thread runs
    pardoned    \* history: the accounts that were locked and then unlocked

vars == <<user, session, handler, pardoned>>

-----------------------------------------------------------------------------
AccountStatus == {"active", "locked"}

UserRow == [name : Name, address : Address, password : Password, status : AccountStatus]

\* user_key, status and chg_pwd_attempts are set and dropped together; user 0
\* stands for a session without them.
Login == [user : 0..MaxUsers, status : AccountStatus, attempts : 0..MaxAttempts]

NoLogin == [user |-> 0, status |-> "active", attempts |-> 0]

\* named: the session has the key "name", which both logins set.
Session == [named : BOOLEAN, admin : BOOLEAN, login : Login]

NoSession == [named |-> FALSE, admin |-> FALSE, login |-> NoLogin]

Idle == [pc |-> "idle"]

HandlerRecord ==
    {Idle} \cup [pc : {"insert"}, batch : Batches]
        \cup [pc : {"change"}, sid : Sid, copy : Session, row : UserRow, new : Password]
        \cup [pc : {"refuse"}, sid : Sid, copy : Session, row : UserRow]
        \cup [pc : {"locked", "answer"}, sid : Sid, copy : Session]

Init ==
    /\ user = <<>>
    /\ session = [i \in Sid |-> NoSession]
    /\ handler = [h \in Handler |-> Idle]
    /\ pardoned = {}

-----------------------------------------------------------------------------
(* Administration *)

AdminLogin(i) ==
    /\ ~session[i].admin
    /\ session' = [session EXCEPT ![i].admin = TRUE, ![i].named = TRUE]
    /\ UNCHANGED <<user, handler, pardoned>>

\* Without the key "name" the handler raises before it drops the login.
AdminLogoff(i) ==
    /\ session[i].admin
    /\ session[i].named
    /\ session' = [session EXCEPT ![i].admin = FALSE, ![i].named = FALSE]
    /\ UNCHANGED <<user, handler, pardoned>>

NamesAreNew(batch) ==
    \A k \in DOMAIN batch : \A i \in DOMAIN user : user[i].name \notin Like[batch[k].name]

\* new_user_account and new_user_accounts, up to the insert.
CheckNames(h, i, batch) ==
    /\ handler[h] = Idle
    /\ session[i].admin
    /\ NamesAreNew(batch)
    /\ handler' = [handler EXCEPT ![h] = [pc |-> "insert", batch |-> batch]]
    /\ UNCHANGED <<user, session, pardoned>>

\* _new_user_reg: one commit for the whole list.
InsertUsers(h) ==
    /\ handler[h].pc = "insert"
    /\ Len(user) + Len(handler[h].batch) <= MaxUsers
    /\ user' = user \o [k \in DOMAIN handler[h].batch |->
                            [name     |-> handler[h].batch[k].name,
                             address  |-> handler[h].batch[k].address,
                             password |-> handler[h].batch[k].password,
                             status   |-> "active"]]
    /\ handler' = [handler EXCEPT ![h] = Idle]
    /\ UNCHANGED <<session, pardoned>>

\* lock_acount and unlock_acount.  An address that two accounts share raises.
SetStatus(i, address, status) ==
    /\ session[i].admin
    /\ \E u \in DOMAIN user :
        /\ \A v \in DOMAIN user : user[v].address = address <=> v = u
        /\ user' = [user EXCEPT ![u].status = status]
        /\ pardoned' = IF user[u].status = "locked" /\ status = "active"
                         THEN pardoned \cup {u} ELSE pardoned
    /\ UNCHANGED <<session, handler>>

-----------------------------------------------------------------------------
(* Accounts *)

\* Mutant: the account registered last is found.
LastNamed(name) == SelectLastInSeq(user, LAMBDA row : row.name = name)

\* The row verify_credentials finds for a name, 0 if there is none.
FirstNamed(name) == SelectInSeq(user, LAMBDA row : row.name = name)

\* Mutant: the attempts are not set up.
LoggedInUncounted(u) == [user |-> u, status |-> "active"]

LoggedIn(u) == [user |-> u, status |-> "active", attempts |-> 0]

\* account_login.  A session that is logged in stays as it is.
AccountLogin(i, name, password) ==
    LET u == FirstNamed(name)
    IN  /\ session[i].login = NoLogin
        /\ u # 0
        /\ user[u].password = password
        /\ user[u].status = "active"
        /\ session' = [session EXCEPT
                ![i].named = TRUE,
                ![i].login = LoggedIn(u)]
        /\ UNCHANGED <<user, handler, pardoned>>

\* account_logoff, which drops "name" first and raises without it.
AccountLogoff(i) ==
    /\ session[i].login # NoLogin
    /\ session[i].named
    /\ session' = [session EXCEPT ![i].named = FALSE, ![i].login = NoLogin]
    /\ UNCHANGED <<user, handler, pardoned>>

\* account_set_password, up to the comparison of the passwords.  The status it
\* looks at is the session's.
ReadAccount(h, i, current, new) ==
    LET row == user[session[i].login.user]
    IN  /\ handler[h] = Idle
        /\ session[i].login # NoLogin
        /\ session[i].login.status # "locked"
        /\ handler' = [handler EXCEPT ![h] =
                IF current = row.password
                  THEN [pc |-> "change", sid |-> i, copy |-> session[i], row |-> row, new |-> new]
                  ELSE [pc |-> "refuse", sid |-> i, copy |-> session[i], row |-> row]]
        /\ UNCHANGED <<user, session, pardoned>>

\* Mutant: the row is written as it was loaded, with all its columns.
WholeRowStored(stored, loaded, new) == [loaded EXCEPT !.password = new]

\* The UPDATE sets the password, if it differs from the loaded one.
PasswordStored(stored, loaded, new) ==
    [stored EXCEPT !.password = IF new = loaded.password THEN @ ELSE new]

\* The right password: the new one is committed and the attempts begin anew.
ChangePassword(h) ==
    LET me == handler[h]
    IN  /\ me.pc = "change"
        /\ user' = [user EXCEPT ![me.copy.login.user] = PasswordStored(@, me.row, me.new)]
        /\ handler' = [handler EXCEPT ![h] =
                [pc |-> "answer", sid |-> me.sid, copy |-> [me.copy EXCEPT !.login.attempts = 0]]]
        /\ UNCHANGED <<session, pardoned>>

\* Mutant: one attempt more than allowed.
LimitPassed(attempts) == attempts > Attempts

LimitMet(attempts) == attempts = Attempts

\* A wrong password: the attempt is counted in the handler's copy of the session,
\* and the one that meets the limit commits the lock.
RefusePassword(h) ==
    LET me == handler[h]
        attempts == me.copy.login.attempts + 1
        locks == LimitMet(attempts)
    IN  /\ me.pc = "refuse"
        /\ attempts <= MaxAttempts
        /\ user' = [user EXCEPT ![me.copy.login.user].status =
                        IF locks /\ me.row.status # "locked" THEN "locked" ELSE @]
        /\ handler' = [handler EXCEPT ![h] =
                [pc |-> IF locks THEN "locked" ELSE "answer", sid |-> me.sid,
                 copy |-> [me.copy EXCEPT !.login.attempts = attempts]]]
        /\ UNCHANGED <<session, pardoned>>

\* The commit expired the row: the session takes the status that the account has
\* by now.
ReadStatus(h) ==
    LET me == handler[h]
    IN  /\ me.pc = "locked"
        /\ handler' = [handler EXCEPT ![h] =
                [pc |-> "answer", sid |-> me.sid,
                 copy |-> [me.copy EXCEPT !.login.status = user[me.copy.login.user].status]]]
        /\ UNCHANGED <<user, session, pardoned>>

\* With the answer, or the error, the copy replaces the session as it is by now.
SaveSession(h) ==
    LET me == handler[h]
    IN  /\ me.pc = "answer"
        /\ session' = [session EXCEPT ![me.sid] = me.copy]
        /\ handler' = [handler EXCEPT ![h] = Idle]
        /\ UNCHANGED <<user, pardoned>>

-----------------------------------------------------------------------------
Next ==
    \/ \E i \in Sid :
        \/ AdminLogin(i) \/ AdminLogoff(i) \/ AccountLogoff(i)
        \/ \E address \in Address, status \in AccountStatus : SetStatus(i, address, status)
        \/ \E name \in Name, password \in Password : AccountLogin(i, name, password)
        \/ \E h \in Handler :
            \/ \E batch \in Batches : CheckNames(h, i, batch)
            \/ \E current, new \in Password : ReadAccount(h, i, current, new)
    \/ \E h \in Handler :
        \/ InsertUsers(h) \/ ChangePassword(h) \/ RefusePassword(h)
        \/ ReadStatus(h) \/ SaveSession(h)

Spec == Init /\ [][Next]_vars
-----------------------------------------------------------------------------
(* Properties *)

TypeOK ==
    /\ user \in Seq(UserRow)
    /\ Len(user) <= MaxUsers
    /\ session \in [Sid -> Session]
    /\ handler \in [Handler -> HandlerRecord]
    /\ pardoned \subseteq DOMAIN user

\* Nothing keeps names unique: two registrations overlap, or one list repeats a
\* name, and there are two accounts of a name.  But the name goes on logging in
\* the account that had it first: no registration takes it over
\* (verify_credentials).
NameKeepsAccount ==
    [][\A name \in Name : FirstNamed(name) # 0 => FirstNamed(name)' = FirstNamed(name)]_vars

\* "Number of failures allowd for password change attempts (locks access out)":
\* no session fails more often and still goes on.
FailuresStayAllowed == \A i \in Sid : session[i].login.attempts <= Attempts

\* What holds of it: only an administrator who unlocks the account lets one fail
\* more often.  Until then the failure that meets the limit leaves the account
\* locked, and a session that shows it knows of the lock, although requests of
\* one session overlap, each with a copy of the session and of the account that
\* may be stale, and write their copies back in any order.
LimitLocksOut ==
    \A i \in Sid :
        LET login == session[i].login
        IN  login.user \notin pardoned =>
                /\ login.attempts <= Attempts
                /\ login.attempts = Attempts =>
                        login.status = "locked" /\ user[login.user].status = "locked"

\* An account that is locked stays locked until an administrator unlocks it: a
\* change of password that read the account before it was locked does not undo
\* the lock.
LockStands ==
    [][\A u \in DOMAIN user :
        user[u].status = "locked" => user'[u].status = "locked" \/ u \in pardoned']_vars

\* "/account/logoff - Post. Ends session.": a session that is logged in can be
\* ended, which takes the key that both logoffs drop.
LogoffEnds == \A i \in Sid : session[i].login # NoLogin => session[i].named
=============================================================================
