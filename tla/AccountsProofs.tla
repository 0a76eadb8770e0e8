--------------------------- MODULE AccountsProofs ---------------------------
(***************************************************************************)
(* Proofs about accounts and sessions for every set of names, passwords,   *)
(* tokens and limits, and any number of login UPDATEs that fail.           *)
(***************************************************************************)
EXTENDS Accounts, TLAPS

(***************************************************************************)
(* Why guessing is bounded although the limit changes and updates fail:    *)
(* the stored count misses no more wrong passwords than there were failed  *)
(* UPDATEs, and an account that is still open has a count below every      *)
(* limit that might have locked it, hence below the largest one.           *)
(***************************************************************************)
LimitInv == maxFailedAttempts <= highest

CountInv ==
    \A n \in names \ {Admin} :
        /\ wrong[n] <= users[n].failedLoginCount + unstored
        /\ users[n].status = "active" => users[n].failedLoginCount < highest

Inv ==
    /\ TypeOK
    /\ SuperuserSurvives
    /\ LimitInv
    /\ CountInv

(* A limit is a positive number. *)
LEMMA LimitType == \A max \in Limit : max \in Nat /\ max >= 1
  BY AccountsAssumption

(* The rows the database's statements write. *)
LEMMA InsertedRow ==
    ASSUME NEW u \in SavedUser
    PROVE  /\ InsertedUser(u) \in UserInfo
           /\ InsertedUser(u).id = 1
           /\ InsertedUser(u).failedLoginCount = 0
           /\ InsertedUser(u).status = u.status
  BY DEF SavedUser, InsertedUser, UserInfo

LEMMA FailedRow ==
    ASSUME NEW r \in UserInfo, maxFailedAttempts \in Nat
    PROVE  /\ Failed(r) \in UserInfo
           /\ Failed(r).id = r.id /\ Failed(r).role = r.role
           /\ r.id = 0 => Failed(r) = r
           /\ r.id # 0 => /\ Failed(r).failedLoginCount = r.failedLoginCount + 1
                          /\ Failed(r).status \in {"locked", r.status}
                          /\ r.failedLoginCount + 1 >= maxFailedAttempts
                                => Failed(r).status = "locked"
<1>1. CASE r.id = 0
      BY <1>1 DEF Failed
<1>2. CASE r.id # 0
  <2> DEFINE c == r.failedLoginCount + 1
             st == IF c >= maxFailedAttempts THEN "locked" ELSE r.status
             p == [r EXCEPT !.failedLoginCount = c]
  <2>1. c \in Nat /\ st \in UserStatus /\ st \in {"locked", r.status}
        BY DEF UserInfo, UserStatus
  <2>2. /\ p \in UserInfo /\ p.id = r.id /\ p.role = r.role
        /\ p.failedLoginCount = c
        BY <2>1 DEF UserInfo
  <2>3. Failed(r) = [p EXCEPT !.status = st]
        BY <1>2 DEF Failed
  <2> HIDE DEF p
  <2>4. /\ [p EXCEPT !.status = st] \in UserInfo
        /\ [p EXCEPT !.status = st].id = p.id
        /\ [p EXCEPT !.status = st].role = p.role
        /\ [p EXCEPT !.status = st].failedLoginCount = p.failedLoginCount
        /\ [p EXCEPT !.status = st].status = st
        BY <2>1, <2>2 DEF UserInfo
  <2> QED
      BY <1>2, <2>1, <2>2, <2>3, <2>4
<1> QED
    BY <1>1, <1>2

(* What the invariant says of a table in which one row was written. *)
LEMMA RowWritten ==
    ASSUME Inv, NEW n \in names, NEW row \in UserInfo,
           users' = [users EXCEPT ![n] = row],
           UNCHANGED <<maxFailedAttempts, backup, highest>>,
           sessions' \in [Token -> Name \cup {Admin, Nobody}],
           wrong' \in [Name \cup {Admin} -> Nat],
           \A m \in names \ {n} : wrong'[m] = wrong[m],
           unstored' \in 0 .. MaxUnstored, unstored' >= unstored,
           row.id = users[n].id,
           n = Admin => row.role = "admin" /\ row.status = "active",
           n # Admin => /\ wrong'[n] <= row.failedLoginCount + unstored'
                        /\ row.status = "active" => row.failedLoginCount < highest
    PROVE  Inv'
<1> USE DEF Inv
<1>1. /\ names' = names /\ users' \in [names -> UserInfo]
      /\ users'[n] = row
      /\ \A m \in names \ {n} : users'[m] = users[m]
      BY DEF TypeOK, names
<1>2. TypeOK'
      BY <1>1 DEF TypeOK
<1>3. SuperuserSurvives'
      BY <1>1 DEF SuperuserSurvives
<1>4. LimitInv'
      BY DEF LimitInv
<1>5. CountInv'
  <2> SUFFICES ASSUME NEW m \in names \ {Admin}
               PROVE  /\ wrong'[m] <= users'[m].failedLoginCount + unstored'
                      /\ users'[m].status = "active" => users'[m].failedLoginCount < highest
      BY <1>1 DEF CountInv
  <2>1. CASE m = n
        BY <1>1, <2>1
  <2>2. CASE m # n
    <3>1. wrong'[m] = wrong[m] /\ users'[m] = users[m]
          BY <1>1, <2>2
    <3>2. users[m].failedLoginCount \in Nat /\ wrong[m] \in Nat /\ unstored \in Nat /\ unstored' \in Nat
          BY DEF TypeOK, UserInfo
    <3> QED
        BY <3>1, <3>2 DEF CountInv
  <2> QED
      BY <2>1, <2>2
<1> QED
    BY <1>2, <1>3, <1>4, <1>5
-----------------------------------------------------------------------------
LEMMA InitInv == Init => Inv
<1> SUFFICES ASSUME Init PROVE Inv
    OBVIOUS
<1>1. /\ names = {Admin} /\ users[Admin] = DefaultAdmin
      /\ users = [n \in {Admin} |-> DefaultAdmin]
  <2>1. users = Plus([n \in {} |-> DefaultAdmin], [n \in {Admin} |-> DefaultAdmin])
        BY DEF Init, EnsureAdmin
  <2> QED
      BY <2>1 DEF Plus, names
<1>2. DefaultAdmin \in UserInfo
      BY AccountsAssumption DEF DefaultAdmin, UserInfo, UserRole, UserStatus
<1>3. TypeOK
      BY <1>1, <1>2, AccountsAssumption DEF Init, TypeOK
<1>4. SuperuserSurvives /\ LimitInv /\ CountInv
  <2>1. maxFailedAttempts \in Nat
        BY LimitType DEF Init
  <2> QED
      BY <1>1, <2>1 DEF Init, SuperuserSurvives, LimitInv, CountInv, DefaultAdmin
<1> QED
    BY <1>3, <1>4 DEF Inv

(* A login that is let in. *)
LEMMA LoginSucceedsInv ==
    ASSUME Inv, NEW n \in Name \cup {Admin}, NEW p \in Password, NEW t \in Token,
           NEW stored \in BOOLEAN, LoginSucceeds(n, p, t, stored)
    PROVE  Inv'
<1> DEFINE row == IF stored THEN [users[n] EXCEPT !.failedLoginCount = 0] ELSE users[n]
<1>1. n \in names /\ users[n] \in UserInfo /\ users \in [names -> UserInfo]
      BY DEF LoginSucceeds, CanBeChecked, Inv, TypeOK
<1>2. /\ row \in UserInfo /\ row.id = users[n].id /\ row.role = users[n].role
      /\ row.status = users[n].status /\ row.failedLoginCount \in Nat
      /\ row.failedLoginCount <= users[n].failedLoginCount
      BY <1>1 DEF UserInfo
<1>3. users' = [users EXCEPT ![n] = row]
      BY <1>1 DEF LoginSucceeds
<1> HIDE DEF row
<1>4. unstored' \in 0 .. MaxUnstored /\ unstored' >= unstored
      BY AccountsAssumption DEF LoginSucceeds, Stored, Inv, TypeOK
<1>5. sessions' \in [Token -> Name \cup {Admin, Nobody}]
      BY DEF LoginSucceeds, createSession, Inv, TypeOK
<1>6. /\ wrong' \in [Name \cup {Admin} -> Nat] /\ wrong'[n] = 0
      /\ \A m \in names \ {n} : wrong'[m] = wrong[m]
      BY DEF LoginSucceeds, Inv, TypeOK
<1>7. n = Admin => row.role = "admin" /\ row.status = "active"
      BY <1>2 DEF Inv, SuperuserSurvives
<1>8. n # Admin => /\ wrong'[n] <= row.failedLoginCount + unstored'
                   /\ row.status = "active" => row.failedLoginCount < highest
  <2>1. highest \in Nat /\ users[n].failedLoginCount \in Nat /\ unstored' \in Nat
        BY <1>1, <1>4, LimitType DEF Inv, TypeOK, UserInfo
  <2>2. row.failedLoginCount \in Nat /\ 0 <= row.failedLoginCount + unstored'
        BY <1>2, <2>1
  <2> QED
      BY <1>1, <1>2, <1>6, <2>1, <2>2 DEF Inv, CountInv
<1>9. UNCHANGED <<maxFailedAttempts, backup, highest>>
      BY DEF LoginSucceeds
<1> QED
    BY <1>1, <1>2, <1>3, <1>4, <1>5, <1>6, <1>7, <1>8, <1>9, RowWritten

(* A wrong password; the UPDATE that counts it may fail. *)
LEMMA LoginFailsInv ==
    ASSUME Inv, NEW n \in Name \cup {Admin}, NEW p \in Password,
           NEW stored \in BOOLEAN, LoginFails(n, p, stored)
    PROVE  Inv'
<1> DEFINE row == IF stored THEN Failed(users[n]) ELSE users[n]
<1>1. n \in names /\ users[n] \in UserInfo /\ users[n].failedLoginCount \in Nat
      BY DEF LoginFails, CanBeChecked, Inv, TypeOK, UserInfo
<1>2. maxFailedAttempts \in Nat /\ highest \in Nat /\ unstored \in Nat
      BY LimitType DEF Inv, TypeOK
<1>3. /\ row \in UserInfo /\ row.id = users[n].id /\ row.role = users[n].role
      /\ users[n].id = 0 => row = users[n]
      BY <1>1, <1>2, FailedRow
<1>4. users' = [users EXCEPT ![n] = row]
      BY <1>1 DEF LoginFails, Inv, TypeOK
<1>5. unstored' \in 0 .. MaxUnstored /\ unstored' >= unstored /\ unstored' \in Nat
      BY AccountsAssumption DEF LoginFails, Stored, Inv, TypeOK
<1>6. /\ wrong' \in [Name \cup {Admin} -> Nat]
      /\ wrong'[n] = IF users[n].id = 0 THEN 0 ELSE wrong[n] + 1
      /\ \A m \in names \ {n} : wrong'[m] = wrong[m]
      BY DEF LoginFails, Inv, TypeOK
<1>7. n = Admin => row.role = "admin" /\ row.status = "active"
      BY <1>1, <1>3 DEF Inv, SuperuserSurvives
<1>8. n # Admin => /\ wrong'[n] <= row.failedLoginCount + unstored'
                   /\ row.status = "active" => row.failedLoginCount < highest
  <2> SUFFICES ASSUME n # Admin
               PROVE  /\ wrong'[n] <= row.failedLoginCount + unstored'
                      /\ row.status = "active" => row.failedLoginCount < highest
      OBVIOUS
  <2>1. /\ users[n].id # 0 /\ users[n].status = "active" /\ wrong[n] \in Nat
        /\ wrong'[n] = wrong[n] + 1
        /\ wrong[n] <= users[n].failedLoginCount + unstored
        /\ users[n].failedLoginCount < highest
        BY <1>1, <1>6 DEF LoginFails, CanBeChecked, Inv, TypeOK, SuperuserSurvives, CountInv
  <2>2. CASE stored
    <3>1. unstored' = unstored /\ row = Failed(users[n])
          BY <2>1, <2>2 DEF LoginFails, Stored
    <3>2. /\ Failed(users[n]).failedLoginCount = users[n].failedLoginCount + 1
          /\ users[n].failedLoginCount + 1 >= maxFailedAttempts
                => Failed(users[n]).status = "locked"
          BY <1>1, <1>2, <2>1, FailedRow
    <3>3. maxFailedAttempts <= highest
          BY DEF Inv, LimitInv
    <3> HIDE DEF row
    <3> QED
        BY <1>1, <1>2, <2>1, <3>1, <3>2, <3>3
  <2>3. CASE ~stored
    <3>1. unstored' = unstored + 1 /\ row = users[n]
          BY <2>1, <2>3 DEF LoginFails, Stored
    <3> HIDE DEF row
    <3> QED
        BY <1>1, <1>2, <2>1, <3>1
  <2> QED
      BY <2>2, <2>3
<1>9. UNCHANGED <<maxFailedAttempts, backup, highest, sessions>>
      BY DEF LoginFails
<1>10. sessions' \in [Token -> Name \cup {Admin, Nobody}]
      BY <1>9 DEF Inv, TypeOK
<1> HIDE DEF row
<1> QED
    BY <1>1, <1>3, <1>4, <1>5, <1>6, <1>7, <1>8, <1>9, <1>10, RowWritten

(* Rows that come: accounts that were not there, as INSERT makes them. *)
LEMMA RowsInserted ==
    ASSUME Inv, NEW S \in SUBSET ((Name \cup {Admin}) \ names),
           NEW new \in [S -> SavedUser],
           users' = Plus(users, [n \in S |-> InsertedUser(new[n])]),
           wrong' \in [Name \cup {Admin} -> Nat],
           \A n \in S : wrong'[n] = 0,
           \A n \in names : wrong'[n] = wrong[n],
           UNCHANGED <<sessions, maxFailedAttempts, backup, highest, unstored>>
    PROVE  Inv'
<1> USE DEF Inv
<1>1. /\ names' = names \cup S
      /\ \A n \in S : users'[n] = InsertedUser(new[n])
      /\ \A n \in names : users'[n] = users[n]
      /\ users' = [n \in names \cup S |-> users'[n]]
      BY DEF Plus, names
<1>2. \A n \in S : /\ users'[n] \in UserInfo
                   /\ users'[n].id = 1 /\ users'[n].failedLoginCount = 0
      BY <1>1, InsertedRow
<1>3. users' \in [names' -> UserInfo]
      BY <1>1, <1>2 DEF TypeOK
<1>4. TypeOK'
      BY <1>1, <1>3 DEF TypeOK
<1>5. SuperuserSurvives'
      BY <1>1, <1>2 DEF SuperuserSurvives
<1>6. LimitInv'
      BY DEF LimitInv
<1>7. CountInv'
  <2>1. highest \in Nat /\ highest >= 1 /\ unstored \in Nat
        BY LimitType DEF TypeOK
  <2>2. \A n \in S : 0 <= 0 + unstored /\ 0 < highest
        BY <2>1
  <2> QED
      BY <1>1, <1>2, <2>1, <2>2 DEF CountInv
<1> QED
    BY <1>4, <1>5, <1>6, <1>7

LEMMA PostUserInv ==
    ASSUME Inv, NEW t \in Token, NEW n \in Name \cup {Admin}, NEW role \in UserRole,
           NEW p \in Password, PostUser(t, n, role, p)
    PROVE  Inv'
<1> DEFINE u == [role |-> role, status |-> "active", passwordHash |-> p]
           new == [m \in {n} |-> u]
<1>1. new \in [{n} -> SavedUser]
      BY DEF SavedUser, UserStatus
<1>2. {n} \in SUBSET ((Name \cup {Admin}) \ names)
      BY DEF PostUser
<1>3. users' = Plus(users, [m \in {n} |-> InsertedUser(new[m])])
      BY DEF PostUser, insertUser
<1>4. /\ wrong' \in [Name \cup {Admin} -> Nat] /\ wrong'[n] = 0
      /\ \A m \in names : wrong'[m] = wrong[m]
      BY <1>2 DEF PostUser, Inv, TypeOK
<1>5. UNCHANGED <<sessions, maxFailedAttempts, backup, highest, unstored>>
      BY DEF PostUser, UsersOnly
<1> HIDE DEF new
<1> QED
    BY <1>1, <1>2, <1>3, <1>4, <1>5, RowsInserted

LEMMA RestoreUsersInv ==
    ASSUME Inv, NEW t \in Token, RestoreUsers(t)
    PROVE  Inv'
<1> DEFINE new == [n \in Restorable |-> backup[n]]
<1>1. Restorable \in SUBSET ((Name \cup {Admin}) \ names)
      BY DEF Restorable, Inv, TypeOK
<1>2. new \in [Restorable -> SavedUser]
      BY DEF Restorable, Inv, TypeOK
<1>3. users' = Plus(users, [n \in Restorable |-> InsertedUser(new[n])])
      BY DEF RestoreUsers
<1>4. /\ wrong' \in [Name \cup {Admin} -> Nat]
      /\ \A n \in Restorable : wrong'[n] = 0
      /\ \A n \in names : wrong'[n] = wrong[n]
      BY <1>1 DEF RestoreUsers, Inv, TypeOK
<1>5. UNCHANGED <<sessions, maxFailedAttempts, backup, highest, unstored>>
      BY DEF RestoreUsers
<1> HIDE DEF new
<1> QED
    BY <1>1, <1>2, <1>3, <1>4, <1>5, RowsInserted

(* Rows that go: all but those of S. *)
LEMMA RowsDeleted ==
    ASSUME Inv, NEW S \in SUBSET names, Admin \in S,
           DOMAIN users' = S,
           users' = [n \in S |-> users'[n]],
           \A n \in S \ {Admin} : users'[n] = users[n] /\ wrong'[n] = wrong[n],
           users'[Admin] \in UserInfo,
           users'[Admin].id = users[Admin].id,
           users'[Admin].role = users[Admin].role,
           users'[Admin].status = users[Admin].status,
           wrong' \in [Name \cup {Admin} -> Nat],
           UNCHANGED <<sessions, maxFailedAttempts, backup, highest, unstored>>
    PROVE  Inv'
<1> USE DEF Inv
<1>1. names' = S
      BY DEF names
<1>2. users' \in [S -> UserInfo]
      BY DEF TypeOK
<1>3. TypeOK'
      BY <1>1, <1>2 DEF TypeOK
<1>4. SuperuserSurvives' /\ LimitInv' /\ CountInv'
      BY <1>1 DEF SuperuserSurvives, LimitInv, CountInv
<1> QED
    BY <1>3, <1>4

LEMMA DeleteUserInv ==
    ASSUME Inv, NEW t \in Token, NEW n \in Name \cup {Admin}, DeleteUser(t, n)
    PROVE  Inv'
<1>1. /\ n \in names /\ n # Admin /\ Admin \in names
      /\ users' = [m \in names \ {n} |-> users[m]]
      BY DEF DeleteUser, deleteUser, Only, Inv, SuperuserSurvives
<1>2. users[Admin] \in UserInfo
      BY <1>1 DEF Inv, TypeOK
<1>3. /\ wrong' \in [Name \cup {Admin} -> Nat]
      /\ \A m \in names \ {n} : wrong'[m] = wrong[m]
      BY DEF DeleteUser, Inv, TypeOK
<1>4. UNCHANGED <<sessions, maxFailedAttempts, backup, highest, unstored>>
      BY DEF DeleteUser, UsersOnly
<1>5. names \ {n} \in SUBSET names /\ Admin \in names \ {n}
      BY <1>1
<1>6. /\ DOMAIN users' = names \ {n} /\ users' = [m \in names \ {n} |-> users'[m]]
      /\ \A m \in names \ {n} : users'[m] = users[m]
      BY <1>1
<1> QED
    BY <1>2, <1>3, <1>4, <1>5, <1>6, RowsDeleted

LEMMA FactoryResetInv ==
    ASSUME Inv, NEW t \in Token, FactoryReset(t)
    PROVE  Inv'
<1> DEFINE row == [users[Admin] EXCEPT !.passwordHash = DefaultPassword]
<1>1. Admin \in names /\ {m \in names : users[m].id = 0} = {Admin}
      BY DEF Inv, SuperuserSurvives
<1>2. users[Admin] \in UserInfo
      BY <1>1 DEF Inv, TypeOK
<1>3. /\ row \in UserInfo /\ row.id = users[Admin].id /\ row.role = users[Admin].role
      /\ row.status = users[Admin].status
      BY <1>2, AccountsAssumption DEF UserInfo
<1>4. users' = [n \in {Admin} |-> row]
      BY <1>1 DEF FactoryReset
<1> HIDE DEF row
<1>5. wrong' \in [Name \cup {Admin} -> Nat]
      BY DEF FactoryReset
<1>6. UNCHANGED <<sessions, maxFailedAttempts, backup, highest, unstored>>
      BY DEF FactoryReset
<1>7. {Admin} \in SUBSET names
      BY <1>1
<1>8. /\ DOMAIN users' = {Admin} /\ users' = [n \in {Admin} |-> users'[n]]
      /\ users'[Admin] = row
      BY <1>4
<1>9. \A n \in {Admin} \ {Admin} : users'[n] = users[n] /\ wrong'[n] = wrong[n]
      OBVIOUS
<1> QED
    BY <1>3, <1>5, <1>6, <1>7, <1>8, <1>9, RowsDeleted

(* PUT of a role, a password or a status writes one row. *)
LEMMA PutUserInv ==
    ASSUME Inv, NEW t \in Token, NEW n \in Name \cup {Admin}, NEW role \in UserRole,
           PutUser(t, n, role)
    PROVE  Inv'
<1> DEFINE row == [users[n] EXCEPT !.role = role]
<1>1. n \in names /\ n # Admin /\ users[n] \in UserInfo
      BY DEF PutUser, Inv, SuperuserSurvives, TypeOK
<1>2. /\ row \in UserInfo /\ row.id = users[n].id /\ row.status = users[n].status
      /\ row.failedLoginCount = users[n].failedLoginCount
      BY <1>1 DEF UserInfo
<1>3. users' = [users EXCEPT ![n] = row]
      BY DEF PutUser, updateUser
<1> HIDE DEF row
<1>4. UNCHANGED <<wrong, sessions, maxFailedAttempts, backup, highest, unstored>>
      BY DEF PutUser, UsersOnly
<1>5. /\ wrong[n] <= row.failedLoginCount + unstored
      /\ row.status = "active" => row.failedLoginCount < highest
      BY <1>1, <1>2 DEF Inv, CountInv
<1>6. /\ sessions' \in [Token -> Name \cup {Admin, Nobody}]
      /\ wrong' \in [Name \cup {Admin} -> Nat]
      /\ unstored' \in 0 .. MaxUnstored /\ unstored' >= unstored
      BY <1>4 DEF Inv, TypeOK
<1> QED
    BY <1>1, <1>2, <1>3, <1>4, <1>5, <1>6, RowWritten

LEMMA PutUserPasswordInv ==
    ASSUME Inv, NEW t \in Token, NEW n \in Name \cup {Admin}, NEW current \in Password,
           NEW p \in Password, PutUserPassword(t, n, current, p)
    PROVE  Inv'
<1> DEFINE row == [users[n] EXCEPT !.passwordHash = p]
<1>1. n \in names /\ users[n] \in UserInfo
      BY DEF PutUserPassword, Inv, TypeOK
<1>2. /\ row \in UserInfo /\ row.id = users[n].id /\ row.status = users[n].status
      /\ row.failedLoginCount = users[n].failedLoginCount /\ row.role = users[n].role
      BY <1>1 DEF UserInfo
<1>3. users' = [users EXCEPT ![n] = row]
      BY DEF PutUserPassword, updateUser
<1> HIDE DEF row
<1>4. UNCHANGED <<wrong, sessions, maxFailedAttempts, backup, highest, unstored>>
      BY DEF PutUserPassword, UsersOnly
<1>5. n # Admin => /\ wrong[n] <= row.failedLoginCount + unstored
                   /\ row.status = "active" => row.failedLoginCount < highest
      BY <1>1, <1>2 DEF Inv, CountInv
<1>6. n = Admin => row.role = "admin" /\ row.status = "active"
      BY <1>2 DEF Inv, SuperuserSurvives
<1>7. /\ sessions' \in [Token -> Name \cup {Admin, Nobody}]
      /\ wrong' \in [Name \cup {Admin} -> Nat]
      /\ unstored' \in 0 .. MaxUnstored /\ unstored' >= unstored
      BY <1>4 DEF Inv, TypeOK
<1> QED
    BY <1>1, <1>2, <1>3, <1>4, <1>5, <1>6, <1>7, RowWritten

(* Opening an account sets both its stored count and its guesses to zero. *)
LEMMA StatusRow ==
    ASSUME NEW r \in UserInfo, NEW status \in UserStatus
    PROVE  LET q == [r EXCEPT !.status = status,
                              !.failedLoginCount = IF status = "active" THEN 0 ELSE @]
           IN  /\ q \in UserInfo /\ q.id = r.id /\ q.status = status
               /\ q.failedLoginCount = IF status = "active" THEN 0 ELSE r.failedLoginCount
<1> DEFINE c == IF status = "active" THEN 0 ELSE r.failedLoginCount
           s == [r EXCEPT !.status = status]
<1>1. c \in Nat
      BY DEF UserInfo
<1>2. s \in UserInfo /\ s.id = r.id /\ s.status = status
      BY DEF UserInfo
<1>3. [r EXCEPT !.status = status,
                !.failedLoginCount = IF status = "active" THEN 0 ELSE @]
        = [s EXCEPT !.failedLoginCount = c]
      BY DEF UserInfo
<1> HIDE DEF c, s
<1>4. LET q == [s EXCEPT !.failedLoginCount = c]
      IN  q \in UserInfo /\ q.id = s.id /\ q.status = s.status /\ q.failedLoginCount = c
      BY <1>1, <1>2 DEF UserInfo
<1> QED
    BY <1>2, <1>3, <1>4 DEF c

LEMMA PutUserStatusInv ==
    ASSUME Inv, NEW t \in Token, NEW n \in Name \cup {Admin}, NEW status \in UserStatus,
           PutUserStatus(t, n, status)
    PROVE  Inv'
<1> DEFINE row == [users[n] EXCEPT !.status = status,
                                   !.failedLoginCount = IF status = "active" THEN 0 ELSE @]
<1>1. n \in names /\ n # Admin /\ users[n] \in UserInfo /\ users[n].failedLoginCount \in Nat
      BY DEF PutUserStatus, Inv, SuperuserSurvives, TypeOK, UserInfo
<1>2. /\ row \in UserInfo /\ row.id = users[n].id /\ row.status = status
      /\ row.failedLoginCount = IF status = "active" THEN 0 ELSE users[n].failedLoginCount
      BY <1>1, StatusRow
<1>3. users' = [users EXCEPT ![n] = row]
      BY DEF PutUserStatus, updateUser
<1> HIDE DEF row
<1>4. UNCHANGED <<sessions, maxFailedAttempts, backup, highest, unstored>>
      BY DEF PutUserStatus, UsersOnly
<1>5. /\ wrong' \in [Name \cup {Admin} -> Nat]
      /\ wrong'[n] = IF status = "active" THEN 0 ELSE wrong[n]
      /\ \A m \in names \ {n} : wrong'[m] = wrong[m]
      BY DEF PutUserStatus, Inv, TypeOK
<1>6. /\ wrong'[n] <= row.failedLoginCount + unstored
      /\ row.status = "active" => row.failedLoginCount < highest
  <2>1. highest \in Nat /\ highest >= 1 /\ unstored \in Nat
        BY LimitType DEF Inv, TypeOK
  <2>2. wrong[n] <= users[n].failedLoginCount + unstored
        BY <1>1 DEF Inv, CountInv
  <2> QED
      BY <1>2, <1>5, <2>1, <2>2
<1>7. /\ sessions' \in [Token -> Name \cup {Admin, Nobody}]
      /\ unstored' \in 0 .. MaxUnstored /\ unstored' >= unstored /\ unstored' = unstored
      BY <1>4 DEF Inv, TypeOK
<1> QED
    BY <1>1, <1>2, <1>3, <1>4, <1>5, <1>6, <1>7, RowWritten

(* What leaves table users alone. *)
LEMMA OtherInv ==
    ASSUME Inv, NEW t \in Token,
           Logout(t) \/ GetBackup(t) \/ \E max \in Limit : PutSecurityPolicy(t, max)
    PROVE  Inv'
<1> USE DEF Inv
<1>1. UNCHANGED <<users, wrong, unstored>> /\ names' = names
      BY DEF Logout, GetBackup, PutSecurityPolicy, names
<1>2. CASE Logout(t)
  <2>1. sessions' \in [Token -> Name \cup {Admin, Nobody}]
        BY <1>2 DEF Logout, removeSession, TypeOK
  <2> QED
      BY <1>1, <1>2, <2>1 DEF Logout, TypeOK, SuperuserSurvives, LimitInv, CountInv
<1>3. CASE GetBackup(t)
  <2> DEFINE S == {m \in names : users[m].id # 0}
  <2>1. S \subseteq Name /\ Admin \notin S
        BY DEF SuperuserSurvives, TypeOK
  <2>2. \A n \in S : [role |-> users[n].role, status |-> users[n].status,
                      passwordHash |-> users[n].passwordHash] \in SavedUser
        BY DEF TypeOK, UserInfo, SavedUser
  <2>3. DOMAIN backup' = S /\ backup' \in [S -> SavedUser]
        BY <1>3, <2>2 DEF GetBackup, buildUsers
  <2>4. TypeOK'
        BY <1>1, <1>3, <2>1, <2>3 DEF GetBackup, TypeOK
  <2>5. SuperuserSurvives'
        BY <1>1, <2>1, <2>3 DEF SuperuserSurvives
  <2> QED
      BY <1>1, <1>3, <2>4, <2>5 DEF GetBackup, LimitInv, CountInv
<1>4. ASSUME NEW max \in Limit, PutSecurityPolicy(t, max) PROVE Inv'
  <2>1. /\ maxFailedAttempts' = max /\ highest' \in Limit
        /\ highest' >= highest /\ max <= highest'
        /\ UNCHANGED <<sessions, backup>>
        BY <1>4, LimitType DEF PutSecurityPolicy, TypeOK
  <2>2. TypeOK' /\ SuperuserSurvives' /\ LimitInv'
        BY <1>1, <2>1 DEF TypeOK, SuperuserSurvives, LimitInv
  <2>3. CountInv'
    <3>1. highest \in Nat /\ highest' \in Nat
          BY <2>1, LimitType DEF TypeOK
    <3>2. \A n \in names : users[n].failedLoginCount \in Nat
          BY DEF TypeOK, UserInfo
    <3> QED
        BY <1>1, <2>1, <3>1, <3>2 DEF CountInv
  <2> QED
      BY <2>2, <2>3
<1> QED
    BY <1>2, <1>3, <1>4

LEMMA RestartInv ==
    ASSUME Inv, ProcessRestart
    PROVE  Inv'
<1> USE DEF Inv
<1>1. users' = users /\ names' = names
      BY DEF ProcessRestart, EnsureAdmin, SuperuserSurvives, names
<1>2. sessions' \in [Token -> Name \cup {Admin, Nobody}]
      BY DEF ProcessRestart
<1> QED
    BY <1>1, <1>2 DEF ProcessRestart, TypeOK, SuperuserSurvives, LimitInv, CountInv

(* Every step of the specification preserves the invariant. *)
LEMMA StepInv == Inv /\ [Next]_vars => Inv'
<1> SUFFICES ASSUME Inv, [Next]_vars PROVE Inv'
    OBVIOUS
<1>1. CASE UNCHANGED vars
      BY <1>1 DEF vars, Inv, TypeOK, SuperuserSurvives, LimitInv, CountInv, names
<1>2. ASSUME NEW n \in Name \cup {Admin}, NEW p \in Password, NEW stored \in BOOLEAN,
             \/ LoginFails(n, p, stored)
             \/ \E t \in Token : LoginSucceeds(n, p, t, stored)
      PROVE  Inv'
      BY <1>2, LoginFailsInv, LoginSucceedsInv
<1>3. ASSUME NEW t \in Token,
             \/ Logout(t)
             \/ \E max \in Limit : PutSecurityPolicy(t, max)
             \/ GetBackup(t)
             \/ RestoreUsers(t)
             \/ FactoryReset(t)
      PROVE  Inv'
      BY <1>3, OtherInv, RestoreUsersInv, FactoryResetInv
<1>4. ASSUME NEW t \in Token, NEW n \in Name \cup {Admin},
             \/ \E role \in UserRole, p \in Password : PostUser(t, n, role, p)
             \/ DeleteUser(t, n)
             \/ \E role \in UserRole : PutUser(t, n, role)
             \/ \E current, p \in Password : PutUserPassword(t, n, current, p)
             \/ \E status \in UserStatus : PutUserStatus(t, n, status)
      PROVE  Inv'
      BY <1>4, PostUserInv, DeleteUserInv, PutUserInv, PutUserPasswordInv, PutUserStatusInv
<1>5. CASE ProcessRestart
      BY <1>5, RestartInv
<1> QED
    BY <1>1, <1>2, <1>3, <1>4, <1>5 DEF Next

(***************************************************************************)
(* The inductive invariant holds in every reachable state: it is what the  *)
(* login, account, backup and restore handlers maintain together.          *)
(***************************************************************************)
THEOREM Invariant == Spec => []Inv
  BY InitInv, StepInv, PTL DEF Spec

(***************************************************************************)
(* Whatever is tried, deleted, changed, restored or reset, the default     *)
(* admin is there, is active and has the admin role.                       *)
(***************************************************************************)
THEOREM AdminCanAlwaysLogIn == Spec => []SuperuserSurvives
<1>1. Inv => SuperuserSurvives
      BY DEF Inv
<1> QED
    BY <1>1, Invariant, PTL

(***************************************************************************)
(* validateUser() bounds the wrong passwords tried on an open account by   *)
(* the largest limit, plus one for every UPDATE that failed unseen.        *)
(***************************************************************************)
THEOREM GuessingIsBounded == Spec => []GuessesBounded
<1>1. Inv => GuessesBounded
  <2> SUFFICES ASSUME Inv, NEW n \in names \ {Admin}, users[n].status = "active"
               PROVE  wrong[n] < highest + unstored
      BY DEF GuessesBounded
  <2>1. /\ wrong[n] \in Nat /\ highest \in Nat /\ unstored \in Nat
        /\ users[n].failedLoginCount \in Nat
        BY LimitType DEF Inv, TypeOK, UserInfo
  <2> QED
      BY <2>1 DEF Inv, CountInv
<1> QED
    BY <1>1, Invariant, PTL

(***************************************************************************)
(* An account that is not open is opened by PUT .../status alone.          *)
(***************************************************************************)
THEOREM ReopenedByManagersOnly == Spec => OnlyManagersReopen
<1> DEFINE Managed == (\E n \in names : Reopened(n))
                         => \E t \in Token, n \in names : PutUserStatus(t, n, "active")
<1>1. ASSUME Inv, Next PROVE Managed
  <2> SUFFICES ASSUME NEW m \in names, Reopened(m)
               PROVE  \E t \in Token, n \in names : PutUserStatus(t, n, "active")
      OBVIOUS
  <2>1. users[m] \in UserInfo /\ users \in [names -> UserInfo] /\ users[m].status # "active"
        BY <1>1 DEF Inv, TypeOK, Reopened
  <2>2. users'[m].status # users[m].status /\ users'[m].status = "active" /\ m \in DOMAIN users'
        BY DEF Reopened
  <2>3. ASSUME NEW n \in Name \cup {Admin}, NEW p \in Password, NEW stored \in BOOLEAN,
               LoginFails(n, p, stored)
        PROVE  FALSE
    <3>1. m # n
          BY <2>1, <2>3 DEF LoginFails, CanBeChecked
    <3>2. users'[m] = users[m]
          BY <2>1, <2>3, <3>1 DEF LoginFails
    <3> QED
        BY <2>2, <3>2
  <2>4. ASSUME NEW n \in Name \cup {Admin}, NEW p \in Password, NEW stored \in BOOLEAN,
               NEW t \in Token, LoginSucceeds(n, p, t, stored)
        PROVE  FALSE
    <3>1. m # n
          BY <2>1, <2>4 DEF LoginSucceeds, CanBeChecked
    <3>2. users'[m] = users[m]
          BY <2>1, <2>4, <3>1 DEF LoginSucceeds
    <3> QED
        BY <2>2, <3>2
  <2>5. ASSUME NEW t \in Token, Logout(t) \/ GetBackup(t)
                                  \/ \E max \in Limit : PutSecurityPolicy(t, max)
        PROVE  FALSE
        BY <2>2, <2>5 DEF Logout, GetBackup, PutSecurityPolicy
  <2>6. ASSUME NEW t \in Token, RestoreUsers(t) PROVE FALSE
    <3>1. m \notin Restorable
          BY DEF Restorable
    <3>2. users'[m] = users[m]
          BY <2>6, <3>1 DEF RestoreUsers, Plus, names
    <3> QED
        BY <2>2, <3>2
  <2>7. ASSUME NEW t \in Token, FactoryReset(t) PROVE FALSE
    <3>1. users'[m] = [users[m] EXCEPT !.passwordHash = DefaultPassword]
          BY <2>2, <2>7 DEF FactoryReset
    <3> QED
        BY <2>1, <2>2, <3>1 DEF UserInfo
  <2>8. ASSUME NEW t \in Token, NEW n \in Name \cup {Admin}, NEW role \in UserRole,
               NEW p \in Password, PostUser(t, n, role, p)
        PROVE  FALSE
    <3>1. users'[m] = users[m]
          BY <2>8 DEF PostUser, insertUser, Plus, names
    <3> QED
        BY <2>2, <3>1
  <2>9. ASSUME NEW t \in Token, NEW n \in Name \cup {Admin}, DeleteUser(t, n) PROVE FALSE
    <3>1. users'[m] = users[m]
          BY <2>2, <2>9 DEF DeleteUser, deleteUser, Only
    <3> QED
        BY <2>2, <3>1
  <2>10. ASSUME NEW t \in Token, NEW n \in Name \cup {Admin}, NEW role \in UserRole,
                PutUser(t, n, role)
         PROVE  FALSE
    <3>1. users'[m].status = users[m].status
          BY <2>1, <2>10 DEF PutUser, updateUser, UserInfo
    <3> QED
        BY <2>2, <3>1
  <2>11. ASSUME NEW t \in Token, NEW n \in Name \cup {Admin}, NEW current \in Password,
                NEW p \in Password, PutUserPassword(t, n, current, p)
         PROVE  FALSE
    <3>1. users'[m].status = users[m].status
          BY <2>1, <2>11 DEF PutUserPassword, updateUser, UserInfo
    <3> QED
        BY <2>2, <3>1
  <2>12. ASSUME NEW t \in Token, NEW n \in Name \cup {Admin}, NEW status \in UserStatus,
                PutUserStatus(t, n, status)
         PROVE  \E tt \in Token, nn \in names : PutUserStatus(tt, nn, "active")
    <3>1. n \in names
          BY <2>12 DEF PutUserStatus
    <3>2. n # m => users'[m] = users[m]
          BY <2>1, <2>12 DEF PutUserStatus, updateUser
    <3>3. users'[n].status = status
      <4> DEFINE row == [users[n] EXCEPT !.status = status,
                           !.failedLoginCount = IF status = "active" THEN 0 ELSE @]
      <4>1. users[n] \in UserInfo
            BY <2>1, <3>1
      <4>2. row.status = status
            BY <4>1, StatusRow
      <4>3. users' = [users EXCEPT ![n] = row]
            BY <2>12 DEF PutUserStatus, updateUser
      <4> HIDE DEF row
      <4> QED
          BY <2>1, <3>1, <4>2, <4>3
    <3>4. status = "active"
          BY <2>2, <3>2, <3>3
    <3> QED
        BY <2>12, <3>1, <3>4
  <2>13. CASE ProcessRestart
         BY <1>1, <2>2, <2>13 DEF ProcessRestart, EnsureAdmin, Inv, SuperuserSurvives, names
  <2> QED
      BY <1>1, <2>3, <2>4, <2>5, <2>6, <2>7, <2>8, <2>9, <2>10, <2>11, <2>12, <2>13 DEF Next
<1>2. Inv /\ [Next]_vars => [Managed]_vars
      BY <1>1
<1>3. [][Managed]_vars => OnlyManagersReopen
      BY PTL DEF OnlyManagersReopen
<1> QED
    BY <1>2, <1>3, Invariant, PTL DEF Spec
=============================================================================
