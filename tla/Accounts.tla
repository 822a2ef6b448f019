------------------------------ MODULE Accounts ------------------------------
(***************************************************************************)
(* One user of the NAS: the row, its mirrors in Linux and Samba, sessions,  *)
(* the second factor with its backup codes, and the limit of failed logins. *)
(* No handler holds a lock over more than one statement.                    *)
(***************************************************************************)
EXTENDS Naturals, FiniteSets
CONSTANTS
  Counters,           \* requests that may be under way at once
  MaxLoginAttempts,   \* auth.go:17
  MaxAccountAsked, MaxAccountMishaps

ASSUME AccountAssumption ==
  /\ Counters \subseteq Nat /\ IsFiniteSet(Counters) /\ MaxLoginAttempts \in Nat \ {0}
  /\ MaxAccountAsked \in Nat /\ MaxAccountMishaps \in Nat

VARIABLES
  user,               \* the row of users
  linux,              \* the Linux user: "none", "ours" (nologin) or "person", who was there before
  smbPw,              \* the password Samba has, 0 for none
  sessions,           \* rows of sessions: the password that opened each, and when
  limit,              \* rateLimits of the user: failures, and the lock
  counter,            \* each request: where it is and what it read
  accountAsked, accountMishaps,
  spent,              \* history: backup codes that opened a session
  proven,             \* history: the secret the user showed a code of
  tries,              \* history: passwords refused since the limit was last cleared
  apart,              \* history: a fault left the mirrors, or the sessions, as they were
  crowd               \* history: pairs of requests that overlapped, by what they write
accountVars == <<user, linux, smbPw, sessions, limit, counter, accountAsked, accountMishaps,
                 spent, proven, tries, apart, crowd>>
accountHistory == <<spent, proven, tries, apart, crowd>>

NoUser == [pw |-> 0, secret |-> 0, on |-> FALSE, codes |-> {}]
NoLimit == [count |-> 0, until |-> "none", recent |-> FALSE]
Vacant == [pc |-> "free", kind |-> "none", was |-> 0, left |-> {}, pw |-> 0, made |-> FALSE]
CAt(c, pc) == counter[c].pc = pc
CGoes(c, pc) == counter' = [counter EXCEPT ![c].pc = pc]
CLeaves(c) == counter' = [counter EXCEPT ![c] = Vacant]
AccountMishap == accountMishaps < MaxAccountMishaps /\ accountMishaps' = accountMishaps + 1
UnderWay(kinds) == {c \in Counters : counter[c].kind \in kinds}
Identity == {"create", "first", "delete", "password"}        \* requests that write the user and its mirrors
Factor == {"setup", "verify", "disable", "create", "first", "delete"}
Login == {"login"}
\* Passwords, secrets and codes carry the number of what they came with: 1, or the least
\* number that nobody knows.
Known == {user.pw, user.secret, smbPw, proven} \cup {s.pw : s \in sessions}
  \cup (UNION {{counter[c].pw, counter[c].was} : c \in Counters})
  \cup {k[1] : k \in user.codes \cup spent \cup UNION {counter[c].left : c \in Counters}}
NewNumber == CHOOSE n \in 1..Cardinality(Known) + 1 : n \notin Known /\ \A i \in 1..n - 1 : i \in Known
CodesOf(n) == {<<n, 1>>, <<n, 2>>}
Member == [pw |-> 1, secret |-> 1, on |-> TRUE, codes |-> CodesOf(1)]

AccountInit ==
  /\ \/ user = NoUser /\ linux \in {"none", "person"} /\ smbPw = 0 /\ proven = 0
     \/ user = Member /\ linux = "ours" /\ smbPw = 1 /\ proven = 1
  /\ sessions = {} /\ limit = NoLimit
  /\ counter = [c \in Counters |-> Vacant] /\ accountAsked = 0 /\ accountMishaps = 0
  /\ spent = {} /\ tries = 0 /\ apart = FALSE /\ crowd = {}

\* What overlaps is noted for the properties that are about one request at a time.
Asks(c, r) ==
  /\ CAt(c, "free") /\ (\A d \in Counters : CAt(d, "free") => c <= d)
  /\ accountAsked < MaxAccountAsked /\ accountAsked' = accountAsked + 1
  /\ counter' = [counter EXCEPT ![c] = r]
  /\ crowd' = crowd \cup {g \in {Identity, Factor, Login} : r.kind \in g /\ UnderWay(g) # {}}
  /\ UNCHANGED <<user, linux, smbPw, sessions, limit, accountMishaps, spent, proven, tries, apart>>
AsksFor(c, kind, pc) == Asks(c, [Vacant EXCEPT !.pc = pc, !.kind = kind])
BringsFor(c, kind, pc, was) == Asks(c, [Vacant EXCEPT !.pc = pc, !.kind = kind, !.was = was, !.pw = NewNumber])

-----------------------------------------------------------------------------
(* Creation, deletion, password.                                           *)

\* authSetup creates the first user, with a session.
SetupFirst(c) == user = NoUser /\ BringsFor(c, "first", "insert", 0)
CreateAccount(c) == user = NoUser /\ BringsFor(c, "create", "insert", 0)
InsertUser(c) ==
  /\ CAt(c, "insert")
  /\ IF user = NoUser
     THEN user' = [NoUser EXCEPT !.pw = counter[c].pw] /\ CGoes(c, "mirror")
     ELSE UNCHANGED user /\ CLeaves(c)
  /\ UNCHANGED <<linux, smbPw, sessions, limit, accountAsked, accountMishaps, accountHistory>>
\* The row goes, and its sessions with it (db.go:105).
Dropped == user' = NoUser /\ sessions' = {}
\* user.create: a Linux user of that name is taken as it is.
MirrorUser(c) ==
  /\ CAt(c, "mirror") /\ UNCHANGED <<smbPw, limit, accountAsked, spent, proven, tries, crowd>>
  /\ \/ /\ linux' = (IF linux = "none" THEN "ours" ELSE linux)
        /\ counter' = [counter EXCEPT ![c].pc = "samba", ![c].made = linux = "none"]
        /\ UNCHANGED <<user, sessions, accountMishaps, apart>>
     \/ /\ linux = "none" /\ AccountMishap /\ UNCHANGED <<linux, apart>> /\ Dropped /\ CLeaves(c)
\* user.delete spares a user with a shell, and what Samba knows of it.
Unmirrored == IF linux = "person" THEN UNCHANGED <<linux, smbPw>> ELSE linux' = "none" /\ smbPw' = 0
\* A session of a user that is gone is refused by its foreign key.
Opened(c) == IF user = NoUser THEN sessions
  ELSE sessions \cup {[pw |-> counter[c].pw, late |-> user.pw # counter[c].pw \/ UnderWay({"password"}) # {}]}
\* user.set_smb_password makes the Linux user when it is gone.
SambaUser(c) ==
  /\ CAt(c, "samba") /\ CLeaves(c) /\ UNCHANGED <<limit, accountAsked, spent, proven, tries, crowd>>
  /\ \/ /\ smbPw' = counter[c].pw /\ linux' = (IF linux = "none" THEN "ours" ELSE linux)
        /\ sessions' = (IF counter[c].kind = "first" THEN Opened(c) ELSE sessions)
        /\ UNCHANGED <<user, accountMishaps, apart>>
     \/ /\ AccountMishap /\ Dropped /\ UNCHANGED apart
        /\ IF counter[c].made THEN Unmirrored ELSE UNCHANGED <<linux, smbPw>>
DeleteAccount(c) == user # NoUser /\ AsksFor(c, "delete", "drop")
DropUser(c) ==
  /\ CAt(c, "drop") /\ Dropped /\ CGoes(c, "unmirror")
  /\ UNCHANGED <<linux, smbPw, limit, accountAsked, accountMishaps, accountHistory>>
\* What the commands answer is not looked at.
UnmirrorUser(c) ==
  /\ CAt(c, "unmirror") /\ CLeaves(c)
  /\ \/ Unmirrored /\ UNCHANGED <<accountMishaps, apart>>
     \/ AccountMishap /\ apart' = TRUE /\ UNCHANGED <<linux, smbPw>>
  /\ UNCHANGED <<user, sessions, limit, accountAsked, spent, proven, tries, crowd>>

\* authChangePassword, or usersUpdate by an administrator: setUserPasswordAndSMB.
ChangePassword(c) == user # NoUser /\ BringsFor(c, "password", "hash", user.pw)
WriteHash(c) ==
  /\ CAt(c, "hash") /\ CGoes(c, "smb")
  /\ user' = IF user = NoUser THEN user ELSE [user EXCEPT !.pw = counter[c].pw]
  /\ UNCHANGED <<linux, smbPw, sessions, limit, accountAsked, accountMishaps, accountHistory>>
SetSmb(c) ==
  /\ CAt(c, "smb")
  /\ \/ /\ smbPw' = counter[c].pw /\ linux' = (IF linux = "none" THEN "ours" ELSE linux)
        /\ CGoes(c, "expel") /\ UNCHANGED accountMishaps
     \/ AccountMishap /\ CGoes(c, "rollback") /\ UNCHANGED <<smbPw, linux>>
  /\ UNCHANGED <<user, sessions, limit, accountAsked, accountHistory>>
\* Mutant: the error is answered, and the new hash stays.
KeepHash(c) ==
  /\ CAt(c, "rollback") /\ CLeaves(c)
  /\ UNCHANGED <<user, linux, smbPw, sessions, limit, accountAsked, accountMishaps, accountHistory>>
RestoreHash(c) ==
  /\ CAt(c, "rollback") /\ CLeaves(c)
  /\ \/ /\ user' = IF user = NoUser THEN user ELSE [user EXCEPT !.pw = counter[c].was]
        /\ UNCHANGED <<accountMishaps, apart>>
     \/ AccountMishap /\ apart' = TRUE /\ UNCHANGED user
  /\ UNCHANGED <<linux, smbPw, sessions, limit, accountAsked, spent, proven, tries, crowd>>
Expel(c) ==
  /\ CAt(c, "expel") /\ CLeaves(c) /\ sessions' = {}
  /\ UNCHANGED <<user, linux, smbPw, limit, accountAsked, accountMishaps, accountHistory>>

-----------------------------------------------------------------------------
(* Logins, their limit and their sessions.                                 *)

\* checkRateLimit: a lock that ran out goes with its count.
Attempt(c, pw) ==
  /\ limit.until # "ahead" /\ CAt(c, "free") /\ (\A d \in Counters : CAt(d, "free") => c <= d)
  /\ accountAsked < MaxAccountAsked /\ accountAsked' = accountAsked + 1
  /\ counter' = [counter EXCEPT ![c] = [Vacant EXCEPT !.pc = "check", !.kind = "login", !.pw = pw]]
  /\ limit' = (IF limit.until = "past" THEN NoLimit ELSE limit)
  /\ tries' = (IF limit.until = "past" THEN 0 ELSE tries)
  /\ crowd' = crowd \cup (IF UnderWay(Login) # {} THEN {Login} ELSE {})
  /\ UNCHANGED <<user, linux, smbPw, sessions, accountMishaps, spent, proven, apart>>
\* recordFailedAttempt
Refused ==
  LET n == IF limit.recent THEN limit.count + 1 ELSE 1 IN
  /\ limit' = [count |-> n, recent |-> TRUE, until |-> IF n >= MaxLoginAttempts THEN "ahead" ELSE limit.until]
  /\ tries' = (IF limit.recent THEN tries + 1 ELSE 1)
\* The password is looked up and compared, and then the row is read.
CheckPassword(c) ==
  /\ CAt(c, "check")
  /\ IF user # NoUser /\ user.pw = counter[c].pw THEN CGoes(c, "fetch") /\ UNCHANGED <<limit, tries>>
                                                  ELSE CLeaves(c) /\ Refused
  /\ UNCHANGED <<user, linux, smbPw, sessions, accountAsked, accountMishaps, spent, proven, apart, crowd>>
FetchUser(c) ==
  /\ CAt(c, "fetch")
  /\ counter' = [counter EXCEPT ![c] =
       IF user = NoUser THEN Vacant
       ELSE IF user.secret # 0 /\ user.on THEN [counter[c] EXCEPT !.pc = "second", !.left = user.codes]
       ELSE [counter[c] EXCEPT !.pc = "session"]]
  /\ UNCHANGED <<user, linux, smbPw, sessions, limit, accountAsked, accountMishaps, accountHistory>>
\* A code of the app is right or wrong; a backup code is taken off the list that was read.
SecondFactor(c) ==
  /\ CAt(c, "second")
  /\ \/ counter' = [counter EXCEPT ![c].pc = "session", ![c].left = {}] /\ UNCHANGED <<user, limit, spent, tries>>
     \/ CLeaves(c) /\ Refused /\ UNCHANGED <<user, spent>>
     \/ CLeaves(c) /\ UNCHANGED <<user, limit, spent, tries>>
     \/ \E k \in counter[c].left :
          /\ user' = IF user = NoUser THEN user ELSE [user EXCEPT !.codes = counter[c].left \ {k}]
          /\ spent' = spent \cup {k} /\ counter' = [counter EXCEPT ![c].pc = "session", ![c].left = {}] /\ UNCHANGED <<limit, tries>>
  /\ UNCHANGED <<linux, smbPw, sessions, accountAsked, accountMishaps, proven, apart, crowd>>
OpenSession(c) ==
  /\ CAt(c, "session") /\ CLeaves(c) /\ limit' = NoLimit /\ tries' = 0 /\ sessions' = Opened(c)
  /\ UNCHANGED <<user, linux, smbPw, accountAsked, accountMishaps, spent, proven, apart, crowd>>
\* authLogout, or the session expires.
CloseSession ==
  /\ \E s \in sessions : sessions' = sessions \ {s}
  /\ UNCHANGED <<user, linux, smbPw, limit, counter, accountAsked, accountMishaps, accountHistory>>
\* A quarter of an hour without a failure, or an hour, after which the entry is cleaned up.
LimitAges ==
  /\ limit # NoLimit
  /\ \/ /\ limit.recent /\ UNCHANGED tries
        /\ limit' = [limit EXCEPT !.recent = FALSE, !.until = IF @ = "ahead" THEN "past" ELSE @]
     \/ ~limit.recent /\ limit' = NoLimit /\ tries' = 0
  /\ UNCHANGED <<user, linux, smbPw, sessions, counter, accountAsked, accountMishaps, spent, proven, apart, crowd>>

-----------------------------------------------------------------------------
(* The second factor.                                                      *)

\* auth2faSetup: a new secret, and the factor is off until it is verified.
SetupFactor(c) == sessions # {} /\ BringsFor(c, "setup", "secret", 0)
WriteSecret(c) ==
  /\ CAt(c, "secret") /\ CLeaves(c)
  /\ user' = IF user = NoUser THEN user ELSE [user EXCEPT !.secret = counter[c].pw, !.on = FALSE]
  /\ UNCHANGED <<linux, smbPw, sessions, limit, accountAsked, accountMishaps, accountHistory>>
\* auth2faVerify: a code of the secret that was read, and new backup codes.
VerifyFactor(c) == sessions # {} /\ user.secret # 0 /\ BringsFor(c, "verify", "enable", user.secret)
EnableFactor(c) ==
  /\ CAt(c, "enable") /\ CLeaves(c) /\ proven' = counter[c].was
  /\ user' = IF user = NoUser THEN user ELSE [user EXCEPT !.on = TRUE, !.codes = CodesOf(counter[c].pw)]
  /\ UNCHANGED <<linux, smbPw, sessions, limit, accountAsked, accountMishaps, spent, tries, apart, crowd>>
\* auth2faDisable, with the password; backup codes stay where they are.
DisableFactor(c) == sessions # {} /\ AsksFor(c, "disable", "disable")
ClearFactor(c) ==
  /\ CAt(c, "disable") /\ CLeaves(c)
  /\ user' = IF user = NoUser THEN user ELSE [user EXCEPT !.secret = 0, !.on = FALSE]
  /\ UNCHANGED <<linux, smbPw, sessions, limit, accountAsked, accountMishaps, accountHistory>>

\* Limits are in memory; a request that is cut off leaves what it did.
CrashAccounts ==
  /\ AccountMishap /\ counter' = [c \in Counters |-> Vacant]
  /\ limit' = NoLimit /\ tries' = 0
  /\ apart' = (apart \/ UnderWay(Identity) # {})
  /\ UNCHANGED <<user, linux, smbPw, sessions, accountAsked, spent, proven, crowd>>

AccountNext ==
  \/ \E c \in Counters :
       \/ SetupFirst(c) \/ CreateAccount(c) \/ InsertUser(c) \/ MirrorUser(c) \/ SambaUser(c)
       \/ DeleteAccount(c) \/ DropUser(c) \/ UnmirrorUser(c)
       \/ ChangePassword(c) \/ WriteHash(c) \/ SetSmb(c) \/ RestoreHash(c) \/ Expel(c)
       \/ \E pw \in {0, user.pw} : Attempt(c, pw)
       \/ CheckPassword(c) \/ FetchUser(c) \/ SecondFactor(c) \/ OpenSession(c)
       \/ SetupFactor(c) \/ WriteSecret(c) \/ VerifyFactor(c) \/ EnableFactor(c)
       \/ DisableFactor(c) \/ ClearFactor(c)
  \/ CloseSession \/ LimitAges \/ CrashAccounts
AccountSpec == AccountInit /\ [][AccountNext]_accountVars

-----------------------------------------------------------------------------
AccountTypeOK ==
  /\ {user.pw, user.secret} \subseteq Nat /\ user.on \in BOOLEAN
  /\ linux \in {"none", "ours", "person"} /\ smbPw \in Nat
  /\ limit \in [count : Nat, until : {"none", "ahead", "past"}, recent : BOOLEAN]
  /\ \A s \in sessions : s.pw \in Nat \ {0} /\ s.late \in BOOLEAN
  /\ user = NoUser => sessions = {}
  /\ DOMAIN counter = Counters /\ crowd \subseteq {Identity, Factor, Login}

\* At rest the user has one password, in NimOS and in Samba, and one that was deleted has none,
\* however creations, changes and deletions failed; unless the rollback failed as well, or two
\* of them overlapped (auth_users.go:60).
OneCredential ==
  \/ apart \/ Identity \in crowd \/ UnderWay(Identity) # {}
  \/ IF user = NoUser THEN smbPw = 0 \/ linux = "person" ELSE smbPw = user.pw /\ linux # "none"
\* A session was opened with the password of today, or by a login that a change overtook
\* (auth_users.go:86).
SessionsAreOfToday ==
  apart \/ Identity \in crowd \/ UnderWay(Identity) # {} \/ \A s \in sessions : s.pw = user.pw \/ s.late
\* No more passwords are tried than the limit and the requests that were past it.
TriesAreLimited == tries < MaxLoginAttempts + Cardinality(Counters)
\* The factor is on for a secret that the user has, and each backup code opens one session.
FactorIsProven == Factor \in crowd \/ (user.on => user.secret # 0 /\ proven = user.secret)
CodesAreSpent == Login \in crowd \/ (user.codes \cap spent = {})
\* What failures, overlapping requests and restarts leave of an account.
AccountsConsistent == OneCredential /\ SessionsAreOfToday /\ TriesAreLimited /\ FactorIsProven /\ CodesAreSpent
=============================================================================
