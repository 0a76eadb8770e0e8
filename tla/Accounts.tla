------------------------------ MODULE Accounts ------------------------------
(***************************************************************************)
(* User accounts and sessions: logging in and out, lock-out after wrong    *)
(* passwords, the management of accounts under live sessions, and what     *)
(* backup, restore, factory reset and a restart of the process do to them. *)
(*                                                                         *)
(* HTTP handlers run one after the other on the main thread, so each is    *)
(* one step.  A request that is refused changes nothing and is left out,   *)
(* as are display names, descriptions, the login history (an append-only   *)
(* table nothing reads back) and the length of passwords: the passwords    *)
(* considered are long enough.  Restore and factory reset are refused      *)
(* while polling runs; when that is, is not this module's business.        *)
(***************************************************************************)
EXTENDS Integers, FiniteSets

CONSTANTS
    Name,            \* the user names that may be given to accounts
    Password,        \* passwords; the database keeps their hashes
    DefaultPassword, \* "1234"
    Token,           \* session tokens (bound on sessions at a time)
    Nobody,          \* the user of a token that is not in use
    Limit,           \* values of maxFailedAttempts that are tried
    MaxUnstored      \* bound: UPDATE statements of a login that fail

Admin == "admin"

ASSUME AccountsAssumption ==
    /\ DefaultPassword \in Password
    /\ Nobody \notin Name \cup {Admin}
    /\ Limit \subseteq 1 .. 20 /\ Limit # {}
    /\ MaxUnstored \in Nat

UserRole   == {"user", "manager", "admin"}
UserStatus == {"active", "locked", "disabled"}

(* A row of table users.  Id 0 is the default admin's; AUTOINCREMENT gives *)
(* any other account a positive id, and 1 stands for all of them.          *)
UserInfo  == [id: {0, 1}, role: UserRole, status: UserStatus,
              passwordHash: Password, failedLoginCount: Nat]
SavedUser == [role: UserRole, status: UserStatus, passwordHash: Password]

VARIABLES
    users,             \* table users: name -> row
    sessions,          \* m_sessions, m_sessionUsers: token -> name
    maxFailedAttempts, \* login_security.maxFailedAttempts in config.json
    backup,            \* users.json of the newest backup: name -> account
    wrong,             \* history: wrong passwords tried on an account since
                       \* it was created, activated or last logged in to
    highest,           \* history: the largest maxFailedAttempts so far
    unstored           \* history: UPDATEs of logins that failed

vars == <<users, sessions, maxFailedAttempts, backup, wrong, highest, unstored>>

names == DOMAIN users

(* f with the entries of g added; g wins where both have one. *)
Plus(f, g) == [n \in DOMAIN f \cup DOMAIN g |-> IF n \in DOMAIN g THEN g[n] ELSE f[n]]
Only(S, f) == [n \in S |-> f[n]]
-----------------------------------------------------------------------------
DefaultAdmin == [id |-> 0, role |-> "admin", status |-> "active",
                 passwordHash |-> DefaultPassword, failedLoginCount |-> 0]

(* initSchema(): the default admin exists whenever the database is opened. *)
EnsureAdmin(rows) ==
    IF Admin \in DOMAIN rows THEN rows ELSE Plus(rows, [n \in {Admin} |-> DefaultAdmin])

TypeOK ==
    /\ names \subseteq Name \cup {Admin}
    /\ users \in [names -> UserInfo]
    /\ sessions \in [Token -> Name \cup {Admin, Nobody}]
    /\ maxFailedAttempts \in Limit
    /\ DOMAIN backup \subseteq Name
    /\ backup \in [DOMAIN backup -> SavedUser]
    /\ wrong \in [Name \cup {Admin} -> Nat]
    /\ highest \in Limit
    /\ unstored \in 0 .. MaxUnstored

(* A new installation: one account, no backup. *)
Init ==
    /\ users = EnsureAdmin([n \in {} |-> DefaultAdmin])
    /\ sessions = [t \in Token |-> Nobody]
    /\ maxFailedAttempts \in Limit
    /\ backup = [n \in {} |-> DefaultAdmin]
    /\ wrong = [n \in Name \cup {Admin} |-> 0]
    /\ highest = maxFailedAttempts
    /\ unstored = 0
-----------------------------------------------------------------------------
(***************************************************************************)
(* requireAuth(): the token must be known; the role is read from the       *)
(* database at every request, not kept in the session.                     *)
(***************************************************************************)
KnownToken(t) == sessions[t] # Nobody

requireAuth(t, roles) ==
    /\ KnownToken(t)
    /\ sessions[t] \in names
    /\ users[sessions[t]].role \in roles

ManagerOrAbove == {"manager", "admin"}
AdminOnly      == {"admin"}

(***************************************************************************)
(* POST /api/login with validateUser().  A name that is not there, a       *)
(* disabled and a locked account are refused before the password is        *)
(* looked at.  The results of its UPDATE statements are not looked at:     *)
(* stored says whether the one of this login succeeds.                     *)
(***************************************************************************)
CanBeChecked(n) == n \in names /\ users[n].status = "active"

Stored(stored) ==
    /\ stored \/ unstored < MaxUnstored
    /\ unstored' = IF stored THEN unstored ELSE unstored + 1

createSession(t, n) ==
    /\ sessions[t] = Nobody
    /\ sessions' = [sessions EXCEPT ![t] = n]

LoginSucceeds(n, p, t, stored) ==
    /\ CanBeChecked(n)
    /\ p = users[n].passwordHash
    /\ Stored(stored)
    /\ users' = IF stored THEN [users EXCEPT ![n].failedLoginCount = 0] ELSE users
    /\ wrong' = [wrong EXCEPT ![n] = 0]
    /\ createSession(t, n)
    /\ UNCHANGED <<maxFailedAttempts, backup, highest>>

(* Variant: the default admin is locked out like everybody else. *)
FailedForAll(r) ==
    [r EXCEPT !.failedLoginCount = @ + 1,
              !.status = IF r.failedLoginCount + 1 >= maxFailedAttempts
                         THEN "locked" ELSE @]

(* The row after one more wrong password. *)
Failed(r) ==
    IF r.id = 0 THEN r
    ELSE [r EXCEPT !.failedLoginCount = @ + 1,
                   !.status = IF r.failedLoginCount + 1 >= maxFailedAttempts
                              THEN "locked" ELSE @]

LoginFails(n, p, stored) ==
    /\ CanBeChecked(n)
    /\ p # users[n].passwordHash
    /\ users[n].id # 0 => Stored(stored)
    /\ users[n].id = 0 => stored /\ UNCHANGED unstored
    /\ users' = IF stored THEN [users EXCEPT ![n] = Failed(@)] ELSE users
    /\ wrong' = [wrong EXCEPT ![n] = IF users[n].id = 0 THEN 0 ELSE @ + 1]
    /\ UNCHANGED <<sessions, maxFailedAttempts, backup, highest>>

removeSession(t) == sessions' = [sessions EXCEPT ![t] = Nobody]

(* POST /api/logout *)
Logout(t) ==
    /\ KnownToken(t)
    /\ removeSession(t)
    /\ UNCHANGED <<users, maxFailedAttempts, backup, wrong, highest, unstored>>
-----------------------------------------------------------------------------
(* The account handlers change table users only. *)
UsersOnly == UNCHANGED <<sessions, maxFailedAttempts, backup, highest, unstored>>

(* A row as INSERT makes it: the count of failures has its default. *)
InsertedUser(u) ==
    [id |-> 1, role |-> u.role, status |-> u.status,
     passwordHash |-> u.passwordHash, failedLoginCount |-> 0]

(* The database's operations on a row; an update writes all of it back. *)
insertUser(n, u) == users' = Plus(users, [m \in {n} |-> InsertedUser(u)])

updateUser(n, row) == users' = [users EXCEPT ![n] = row]

deleteUser(n) == users' = Only(names \ {n}, users)

PostUser(t, n, role, p) ==
    /\ requireAuth(t, ManagerOrAbove)
    /\ n \notin names
    /\ insertUser(n, [role |-> role, status |-> "active", passwordHash |-> p])
    /\ wrong' = [wrong EXCEPT ![n] = 0]
    /\ UsersOnly

DeleteUser(t, n) ==
    /\ requireAuth(t, ManagerOrAbove)
    /\ n \in names
    /\ users[n].id # 0
    /\ deleteUser(n)
    /\ wrong' = [wrong EXCEPT ![n] = 0]
    /\ UsersOnly

PutUser(t, n, role) ==
    /\ requireAuth(t, ManagerOrAbove)
    /\ n \in names
    /\ users[n].id # 0
    /\ updateUser(n, [users[n] EXCEPT !.role = role])
    /\ UNCHANGED wrong
    /\ UsersOnly

(* Variant: the row is written back without the count that was read. *)
PutPasswordResets(t, n, current, p) ==
    /\ KnownToken(t)
    /\ {n, sessions[t]} \subseteq names
    /\ \/ users[sessions[t]].role = "admin"
       \/ n = sessions[t] /\ current = users[n].passwordHash
    /\ updateUser(n, [users[n] EXCEPT !.passwordHash = p, !.failedLoginCount = 0])
    /\ UNCHANGED wrong
    /\ UsersOnly

(* By an admin, or by the user who also sends the current password. *)
PutUserPassword(t, n, current, p) ==
    /\ KnownToken(t)
    /\ {n, sessions[t]} \subseteq names
    /\ \/ users[sessions[t]].role = "admin"
       \/ n = sessions[t] /\ current = users[n].passwordHash
    /\ updateUser(n, [users[n] EXCEPT !.passwordHash = p])
    /\ UNCHANGED wrong
    /\ UsersOnly

PutUserStatus(t, n, status) ==
    /\ requireAuth(t, ManagerOrAbove)
    /\ n \in names
    /\ users[n].id # 0
    /\ updateUser(n, [users[n] EXCEPT !.status = status,
                                      !.failedLoginCount = IF status = "active" THEN 0 ELSE @])
    /\ wrong' = [wrong EXCEPT ![n] = IF status = "active" THEN 0 ELSE @]
    /\ UsersOnly

(* PUT /api/security-policy writes the limit a login reads from the file. *)
PutSecurityPolicy(t, max) ==
    /\ requireAuth(t, ManagerOrAbove)
    /\ max \in Limit
    /\ maxFailedAttempts' = max
    /\ highest' = IF max > highest THEN max ELSE highest
    /\ UNCHANGED <<users, sessions, backup, wrong, unstored>>
-----------------------------------------------------------------------------
(* Every account but the default admin's, without its count. *)
buildUsers ==
    [n \in {m \in names : users[m].id # 0} |->
        [role |-> users[n].role, status |-> users[n].status,
         passwordHash |-> users[n].passwordHash]]

GetBackup(t) ==
    /\ requireAuth(t, AdminOnly)
    /\ backup' = buildUsers
    /\ UNCHANGED <<users, sessions, maxFailedAttempts, wrong, highest, unstored>>

(* Variant: accounts of the backup replace those that exist. *)
RestorableOver == DOMAIN backup \ {Admin}

(* The accounts restoreData() inserts: not "admin", not one that exists. *)
Restorable == DOMAIN backup \ (names \cup {Admin})

(* POST /api/maintenance/restore/apply with option users. *)
RestoreUsers(t) ==
    /\ requireAuth(t, AdminOnly)
    /\ LET back == Restorable IN
       /\ users' = Plus(users, [n \in back |-> InsertedUser(backup[n])])
       /\ wrong' = [n \in Name \cup {Admin} |-> IF n \in back THEN 0 ELSE wrong[n]]
    /\ UNCHANGED <<sessions, maxFailedAttempts, backup, highest, unstored>>

(* factoryReset() of the database; m_sessions is not touched. *)
FactoryReset(t) ==
    /\ requireAuth(t, AdminOnly)
    /\ users' = [n \in {m \in names : users[m].id = 0} |->
                   [users[n] EXCEPT !.passwordHash = DefaultPassword]]
    /\ wrong' = [n \in Name \cup {Admin} |-> 0]
    /\ UNCHANGED <<sessions, maxFailedAttempts, backup, highest, unstored>>

(* The process ends and is started again: sessions are in memory only. *)
ProcessRestart ==
    /\ users' = EnsureAdmin(users)
    /\ sessions' = [t \in Token |-> Nobody]
    /\ UNCHANGED <<maxFailedAttempts, backup, wrong, highest, unstored>>

Next ==
    \/ \E n \in Name \cup {Admin}, p \in Password, stored \in BOOLEAN :
          \/ LoginFails(n, p, stored)
          \/ \E t \in Token : LoginSucceeds(n, p, t, stored)
    \/ \E t \in Token :
          \/ Logout(t)
          \/ \E max \in Limit : PutSecurityPolicy(t, max)
          \/ GetBackup(t)
          \/ RestoreUsers(t)
          \/ FactoryReset(t)
          \/ \E n \in Name \cup {Admin} :
                \/ \E role \in UserRole, p \in Password : PostUser(t, n, role, p)
                \/ DeleteUser(t, n)
                \/ \E role \in UserRole : PutUser(t, n, role)
                \/ \E current, p \in Password : PutUserPassword(t, n, current, p)
                \/ \E status \in UserStatus : PutUserStatus(t, n, status)
    \/ ProcessRestart

Spec == Init /\ [][Next]_vars
-----------------------------------------------------------------------------
(***************************************************************************)
(* Nobody can be locked out for good: through wrong passwords, deletions,  *)
(* changes of role and status, restore and factory reset there is exactly  *)
(* one default admin, who is active and has the admin role, and whose name *)
(* no backup can bring back as another account.                            *)
(***************************************************************************)
SuperuserSurvives ==
    /\ Admin \in names
    /\ \A n \in names : users[n].id = 0 <=> n = Admin
    /\ users[Admin].role = "admin" /\ users[Admin].status = "active"
    /\ Admin \notin DOMAIN backup

(***************************************************************************)
(* validateUser() bounds guessing: on an account that is still open, fewer *)
(* wrong passwords than the largest limit ever set have been tried since   *)
(* it was last opened, whatever was done to it in between (a new password, *)
(* role or status, changes of the limit); every UPDATE that failed unseen  *)
(* allows one more.                                                        *)
(***************************************************************************)
GuessesBounded ==
    \A n \in names \ {Admin} :
        users[n].status = "active" => wrong[n] < highest + unstored

(***************************************************************************)
(* A locked or disabled account is opened again by a manager's change of   *)
(* its status only: not by a login, a new password, a restore or a restart.*)
(***************************************************************************)
Reopened(n) ==
    /\ n \in names /\ users[n].status # "active"
    /\ n \in DOMAIN users' /\ users'[n].status = "active"

OnlyManagersReopen ==
    [][(\E n \in names : Reopened(n))
          => \E t \in Token, n \in names : PutUserStatus(t, n, "active")]_vars
=============================================================================
