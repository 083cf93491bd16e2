---------------------------- MODULE UserAccounts ----------------------------
(***************************************************************************)
(* Registration and login (AuthService in src/src/infrastructure/auth.rs,  *)
(* over UserRepository): what they do to the rows of the users table.  A   *)
(* login is several statements, each a transaction of its own, and logins  *)
(* of one user interleave.  Whether the password is the right one is an    *)
(* input; hashes, roles and tokens are left out.  Time passes in ticks.    *)
(***************************************************************************)
EXTENDS Integers, FiniteSets

CONSTANTS
    Users,
    Logins,                 \* concurrent calls of login
    max_failed_attempts,
    lockout_duration,       \* in ticks
    MaxCount,               \* bound: failures counted when another login may fail
    MaxCuts                 \* bound: calls that end between two statements

ASSUME UserAccountsAssumption ==
    /\ max_failed_attempts \in Nat \ {0}
    /\ lockout_duration \in Nat
    /\ MaxCount \in Nat /\ MaxCuts \in Nat

VARIABLES
    registered,             \* the users that have a row
    attempts,               \* failed_login_attempts
    locked,                 \* ticks until locked_until; 0 when it has passed
    login, user, right,     \* where a login is, and its arguments
    counted,                \* what its increment returned
    cuts

rowVars == <<registered, attempts, locked>>
usersVars == <<rowVars, login, user, right, counted, cuts>>

NotLocked == -1

UsersInit ==
    /\ registered = {}
    /\ attempts = [u \in Users |-> 0]
    /\ locked = [u \in Users |-> NotLocked]
    /\ login = [l \in Logins |-> "idle"]
    /\ user \in [Logins -> Users]
    /\ right = [l \in Logins |-> TRUE]
    /\ counted = [l \in Logins |-> 0]
    /\ cuts = 0

(* create: the row has the defaults of the table.  A name that is taken is *)
(* refused by the table's constraint.                                      *)
RegisterUser(u) ==
    /\ u \notin registered
    /\ registered' = registered \cup {u}
    /\ UNCHANGED <<attempts, locked, login, user, right, counted, cuts>>

Login(l, u, r) ==
    /\ login[l] = "idle"
    /\ r \/ \A n \in {attempts[u]} \cup {counted[m] : m \in Logins} : n < MaxCount
    /\ login' = [login EXCEPT ![l] = "find"]
    /\ user' = [user EXCEPT ![l] = u]
    /\ right' = [right EXCEPT ![l] = r]
    /\ UNCHANGED <<rowVars, counted, cuts>>

(* The password is verified against the row that was read.                 *)
Verified(l) == IF right[l] THEN "reset" ELSE "count"

(* Mutant: a lock that is over refuses as well.                            *)
FindRefusesLocked(l) ==
    /\ login[l] = "find"
    /\ login' = [login EXCEPT ![l] =
                    IF user[l] \notin registered \/ locked[user[l]] >= 0 THEN "idle" ELSE Verified(l)]
    /\ UNCHANGED <<rowVars, user, right, counted, cuts>>

(* find_by_username, and the test of the lock.                             *)
FindByUsername(l) ==
    /\ login[l] = "find"
    /\ login' = [login EXCEPT ![l] =
                    IF user[l] \notin registered \/ locked[user[l]] > 0 THEN "idle"
                    ELSE IF locked[user[l]] = 0 THEN "unlock" ELSE Verified(l)]
    /\ UNCHANGED <<rowVars, user, right, counted, cuts>>

(* update_lockout(None, 0): the lock that was found is over.               *)
Unlock(l) ==
    /\ login[l] = "unlock"
    /\ locked' = [locked EXCEPT ![user[l]] = NotLocked]
    /\ attempts' = [attempts EXCEPT ![user[l]] = 0]
    /\ login' = [login EXCEPT ![l] = Verified(l)]
    /\ UNCHANGED <<registered, user, right, counted, cuts>>

(* Mutant: one failure too many is let pass.                               *)
CountOffByOne(l) ==
    /\ login[l] = "count"
    /\ attempts' = [attempts EXCEPT ![user[l]] = @ + 1]
    /\ IF attempts[user[l]] + 1 > max_failed_attempts
         THEN /\ counted' = [counted EXCEPT ![l] = attempts[user[l]] + 1]
              /\ login' = [login EXCEPT ![l] = "lock"]
         ELSE login' = [login EXCEPT ![l] = "idle"] /\ UNCHANGED counted
    /\ UNCHANGED <<registered, locked, user, right, cuts>>

(* increment_failed_attempts, one statement that returns the new value.    *)
CountFailedLogin(l) ==
    /\ login[l] = "count"
    /\ attempts' = [attempts EXCEPT ![user[l]] = @ + 1]
    /\ IF attempts[user[l]] + 1 >= max_failed_attempts
         THEN /\ counted' = [counted EXCEPT ![l] = attempts[user[l]] + 1]
              /\ login' = [login EXCEPT ![l] = "lock"]
         ELSE login' = [login EXCEPT ![l] = "idle"] /\ UNCHANGED counted
    /\ UNCHANGED <<registered, locked, user, right, cuts>>

(* update_lockout(Some(_), n) writes the count back, too.                  *)
Lock(l) ==
    /\ login[l] = "lock"
    /\ locked' = [locked EXCEPT ![user[l]] = lockout_duration]
    /\ attempts' = [attempts EXCEPT ![user[l]] = counted[l]]
    /\ login' = [login EXCEPT ![l] = "idle"]
    /\ counted' = [counted EXCEPT ![l] = 0]
    /\ UNCHANGED <<registered, user, right, cuts>>

(* update_login_info(_, 0, None); then the tokens are made.                *)
ResetAndReturn(l) ==
    /\ login[l] = "reset"
    /\ attempts' = [attempts EXCEPT ![user[l]] = 0]
    /\ locked' = [locked EXCEPT ![user[l]] = NotLocked]
    /\ login' = [login EXCEPT ![l] = "idle"]
    /\ UNCHANGED <<registered, user, right, counted, cuts>>

(* A statement fails, or the client is gone: the rest is not executed.     *)
Cut(l) ==
    /\ login[l] # "idle"
    /\ cuts < MaxCuts
    /\ cuts' = cuts + 1
    /\ login' = [login EXCEPT ![l] = "idle"]
    /\ counted' = [counted EXCEPT ![l] = 0]
    /\ UNCHANGED <<rowVars, user, right>>

UsersTick ==
    /\ locked' = [u \in Users |-> IF locked[u] > 0 THEN locked[u] - 1 ELSE locked[u]]
    /\ UNCHANGED <<registered, attempts, login, user, right, counted, cuts>>

Step(l) ==
    FindByUsername(l) \/ Unlock(l) \/ CountFailedLogin(l) \/ Lock(l) \/ ResetAndReturn(l)

UsersNext ==
    \/ \E u \in Users : RegisterUser(u)
    \/ \E l \in Logins : Step(l) \/ Cut(l) \/ \E u \in Users, r \in BOOLEAN : Login(l, u, r)
    \/ UsersTick

UsersSpec == UsersInit /\ [][UsersNext]_usersVars

(* The database answers, and time passes.                                  *)
UsersFairSpec ==
    /\ UsersSpec
    /\ WF_usersVars(UsersTick)
    /\ \A l \in Logins : WF_usersVars(Step(l))

-----------------------------------------------------------------------------
(* The lock and the count of a row agree, whatever order the statements of *)
(* concurrent logins come in: a row that is locked has counted enough      *)
(* failures, and when enough are counted the row is locked, or a login is  *)
(* about to lock it, unless a call was cut short.                          *)
LockAndCountAgree ==
    \A u \in Users :
        /\ locked[u] # NotLocked => attempts[u] >= max_failed_attempts
        /\ attempts[u] >= max_failed_attempts /\ cuts = 0 =>
              locked[u] # NotLocked \/ \E l \in Logins : login[l] = "lock" /\ user[l] = u

(* No lock is for ever: a user who is registered, and whose logins from    *)
(* some time on all have the right password, is let in again and again,    *)
(* also when statements of earlier logins come late.                       *)
LocksLift ==
    \A u \in Users :
        /\ <>[](\A l \in Logins : login[l] # "idle" /\ user[l] = u => right[l])
        /\ []<>(u \in registered /\ \E l \in Logins : login[l] = "find" /\ user[l] = u)
        => []<>(\E l \in Logins : login[l] = "reset" /\ user[l] = u)
=============================================================================
