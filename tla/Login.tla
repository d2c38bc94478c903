--------------------------------- MODULE Login ---------------------------------
(***************************************************************************)
(* Logging in to the administration: the sessions kept in memory, the      *)
(* count of failed attempts per address, and the forced change of the      *)
(* default password.  A login reads the settings, and some time later - a  *)
(* call to Turnstile and bcrypt lie between - makes a session of what it   *)
(* read; a password may be changed in the meantime, which revokes the      *)
(* sessions of the old one.                                                *)
(*                                                                         *)
(* A password is known by the number of changes before it.  Durations are  *)
(* countdowns; an entry whose time is over (Past) is as good as deleted.   *)
(***************************************************************************)
EXTENDS Integers, FiniteSets

CONSTANTS
  Logins,        \* bound: login requests under way at the same time
  Savers,        \* bound: password changes under way at the same time
  MaxTokens,     \* bound: sessions ever issued
  Addresses, None,
  loginMaxFails, loginWindow, sessionTTL,
  MaxChanges, MaxErrors, MaxRestarts  \* bounds

ASSUME LoginAssumption ==
  /\ loginMaxFails \in Nat \ {0} /\ loginWindow \in Nat /\ sessionTTL \in Nat
  /\ IsFiniteSet(Logins) /\ None \notin Savers \cup Addresses
  /\ MaxTokens \in Nat /\ MaxChanges \in Nat /\ MaxErrors \in Nat /\ MaxRestarts \in Nat

VARIABLES
  password,       \* AdminPassHash: which password the table has
  default,        \* AdminPassDefault
  passIsDefault,  \* the cache of it in the server
  sessions,       \* what is left of each session's time
  limiter,        \* per address: [fails, left]
  login,          \* requests in handleLoginPost: [pc, ip, read]
  saver,          \* requests in handleSettingsSave: [pc, keep]
  settingsMu,
  issued,         \* history: how many tokens were drawn; RandomHex repeats none
  by,             \* history: the password a session was issued against
  late,           \* history: sessions of a login that a password change overtook
  keeper,         \* history: the session of the last password change
  unread,         \* history: the cache of the flag could not be refreshed
  tried,          \* history: per address the wrong passwords checked, as <<age, number>>
  changes, errors, restarts

history == <<issued, by, late, keeper, unread, tried>>
table   == <<password, default>>
bounds  == <<changes, errors, restarts>>
vars == <<table, passIsDefault, sessions, limiter, login, saver, settingsMu, history, bounds>>

Past == -1
NoToken == 0
Tokens == 1 .. MaxTokens
Ages == 0 .. loginWindow
Fresh    == [fails |-> 0, left |-> Past]
NoLogin  == [pc |-> "idle", ip |-> None, read |-> 0]
NoSaver  == [pc |-> "idle", keep |-> NoToken]
NoTries  == [a \in Addresses |-> {}]

TypeOK ==
  /\ password \in Nat /\ {default, passIsDefault, unread} \subseteq BOOLEAN
  /\ sessions \in [Tokens -> Past .. sessionTTL]
  /\ limiter \in [Addresses -> [fails : Nat, left : Past .. loginWindow]]
  /\ login \in [Logins -> [pc : {"idle", "settings", "check", "reset"},
                           ip : Addresses \cup {None}, read : Nat]]
  /\ saver \in [Savers -> [pc : {"idle", "lock", "save", "refresh", "destroy"},
                           keep : Tokens \cup {NoToken}]]
  /\ settingsMu \in Savers \cup {None}
  /\ issued \in 0 .. MaxTokens /\ late \subseteq Tokens /\ by \in [Tokens -> Nat]
  /\ keeper \in Tokens \cup {NoToken} /\ tried \in [Addresses -> SUBSET (Ages \X Nat)]
  /\ changes \in Nat /\ errors \in Nat /\ restarts \in Nat

\* The first start; Bootstrap has stored F2A_ADMIN_PASS or the default password.
Init ==
  /\ password = 0 /\ default \in BOOLEAN /\ passIsDefault = default
  /\ sessions = [t \in Tokens |-> Past] /\ limiter = [a \in Addresses |-> Fresh]
  /\ login = [r \in Logins |-> NoLogin] /\ saver = [h \in Savers |-> NoSaver]
  /\ settingsMu = None
  /\ issued = 0 /\ by = [t \in Tokens |-> 0] /\ late = {} /\ keeper = NoToken
  /\ unread = FALSE /\ tried = NoTries
  /\ changes = 0 /\ errors = 0 /\ restarts = 0

Error == errors < MaxErrors /\ errors' = errors + 1

-----------------------------------------------------------------------------
(* Seeded bugs, each put in the place of a definition below.               *)
DestroyOthersOfLive(keep) ==
  IF sessions[keep] # Past THEN [t \in Tokens |-> IF t = keep THEN sessions[t] ELSE Past] ELSE sessions
FailedFirstWindow(a) ==
  IF limiter[a].left = Past THEN [fails |-> 1, left |-> loginWindow]
                            ELSE [limiter[a] EXCEPT !.fails = @ + 1]
RefreshedNever == passIsDefault
TurnedAwayCounted(a) == [limiter[a] EXCEPT !.left = loginWindow]
-----------------------------------------------------------------------------
(* sessionStore and loginLimiter, each operation under its own lock        *)

valid(t) == sessions[t] # Past

\* destroyOthers.
DestroyOthers(keep) == [t \in Tokens |-> IF t = keep THEN sessions[t] ELSE Past]

blocked(a) == limiter[a].left # Past /\ limiter[a].fails >= loginMaxFails

\* fail: an entry whose window is over is begun anew; every failure extends the window.
Failed(a) ==
  [fails |-> IF limiter[a].left = Past THEN 1 ELSE limiter[a].fails + 1, left |-> loginWindow]

\* What blocked leaves of an entry that turns the request away.
TurnedAway(a) == limiter[a]

-----------------------------------------------------------------------------
(* handleLoginPost, handleLogout *)

\* The limiter is asked first; a request it turns away is not counted.
BeginLogin(r) ==
  /\ login[r].pc = "idle"
  /\ \E a \in Addresses :
       IF blocked(a)
         THEN limiter' = [limiter EXCEPT ![a] = TurnedAway(a)] /\ UNCHANGED login
         ELSE /\ limiter' = [limiter EXCEPT ![a] = IF @.left = Past THEN Fresh ELSE @]
              /\ login' = [login EXCEPT ![r] = [pc |-> "settings", ip |-> a, read |-> 0]]
  /\ UNCHANGED <<table, passIsDefault, sessions, saver, settingsMu, history, bounds>>

\* The hash that the password will be compared with.
ReadSettings(r) ==
  /\ login[r].pc = "settings"
  /\ \/ login' = [login EXCEPT ![r].pc = "check", ![r].read = password] /\ UNCHANGED errors
     \/ login' = [login EXCEPT ![r] = NoLogin] /\ Error
  /\ UNCHANGED <<table, passIsDefault, sessions, limiter, saver, settingsMu, history, changes, restarts>>

\* Turnstile, where it is switched on, refuses the token or cannot be reached, in
\* eight seconds at most; that is no failed password.  RandomHex may fail as well.
LeaveLogin(r) ==
  /\ login[r].pc = "check"
  /\ login' = [login EXCEPT ![r] = NoLogin]
  /\ UNCHANGED <<table, passIsDefault, sessions, limiter, saver, settingsMu, history, bounds>>

\* CheckPassword fails, and limiter.fail counts it.
WrongPassword(r) ==
  LET a == login[r].ip IN
  /\ login[r].pc = "check"
  /\ limiter' = [limiter EXCEPT ![a] = Failed(a)]
  /\ tried' = [tried EXCEPT ![a] = @ \cup {<<0, Cardinality(@)>>}]
  /\ login' = [login EXCEPT ![r] = NoLogin]
  /\ UNCHANGED <<table, passIsDefault, sessions, saver, settingsMu,
                 issued, by, late, keeper, unread, bounds>>

\* A password was changed whose destroyOthers is still to come.
Revoking == \E h \in Savers : saver[h].pc \in {"refresh", "destroy"}

\* CheckPassword succeeds against the hash that was read, and sessions.create draws
\* a new token.
RightPassword(r) ==
  /\ login[r].pc = "check"
  /\ issued < MaxTokens /\ issued' = issued + 1
  /\ sessions' = [sessions EXCEPT ![issued + 1] = sessionTTL]
  /\ by' = [by EXCEPT ![issued + 1] = login[r].read]
  /\ late' = IF login[r].read # password /\ ~Revoking THEN late \cup {issued + 1} ELSE late
  /\ login' = [login EXCEPT ![r].pc = "reset"]
  /\ UNCHANGED <<table, passIsDefault, limiter, saver, settingsMu, keeper, unread, tried, bounds>>

\* limiter.reset.
Reset(r) ==
  LET a == login[r].ip IN
  /\ login[r].pc = "reset"
  /\ limiter' = [limiter EXCEPT ![a] = Fresh]
  /\ tried' = [tried EXCEPT ![a] = {}]
  /\ login' = [login EXCEPT ![r] = NoLogin]
  /\ UNCHANGED <<table, passIsDefault, sessions, saver, settingsMu,
                 issued, by, late, keeper, unread, bounds>>

Logout(t) ==
  /\ valid(t)
  /\ sessions' = [sessions EXCEPT ![t] = Past]
  /\ UNCHANGED <<table, passIsDefault, limiter, login, saver, settingsMu, history, bounds>>

-----------------------------------------------------------------------------
(* requireAuth, requirePasswordChanged, and a password change in           *)
(* handleSettingsSave                                                      *)

\* What requireAuth and requirePasswordChanged let through.
Serves(t, page) == valid(t) /\ (passIsDefault => page = "settings")

\* The form is let through; then it has to wait for settingsMu.
BeginChange(h) ==
  /\ changes < MaxChanges /\ changes' = changes + 1
  /\ saver[h].pc = "idle"
  /\ \E t \in Tokens : Serves(t, "settings") /\ saver' = [saver EXCEPT ![h] = [pc |-> "lock", keep |-> t]]
  /\ UNCHANGED <<table, passIsDefault, sessions, limiter, login, settingsMu, history, errors, restarts>>

\* The lock; store.Settings, or the end of the request when it fails.
LockSettings(h) ==
  /\ saver[h].pc = "lock" /\ settingsMu = None
  /\ \/ settingsMu' = h /\ saver' = [saver EXCEPT ![h].pc = "save"] /\ UNCHANGED errors
     \/ UNCHANGED settingsMu /\ saver' = [saver EXCEPT ![h] = NoSaver] /\ Error
  /\ UNCHANGED <<table, passIsDefault, sessions, limiter, login, history, changes, restarts>>

\* SaveSettings with the new hash.
SavePassword(h) ==
  /\ saver[h].pc = "save"
  /\ \/ /\ password' = password + 1 /\ default' = FALSE
        /\ saver' = [saver EXCEPT ![h].pc = "refresh"]
        /\ UNCHANGED <<settingsMu, errors>>
     \/ /\ Error /\ settingsMu' = None /\ saver' = [saver EXCEPT ![h] = NoSaver]
        /\ UNCHANGED table
  /\ UNCHANGED <<passIsDefault, sessions, limiter, login, history, changes, restarts>>

Refreshed == default

\* refreshPassFlag; without an answer of the table it leaves the flag as it was.
RefreshPassFlag(h) ==
  /\ saver[h].pc = "refresh"
  /\ saver' = [saver EXCEPT ![h].pc = "destroy"]
  /\ \/ passIsDefault' = Refreshed /\ unread' = FALSE /\ UNCHANGED errors
     \/ UNCHANGED passIsDefault /\ unread' = TRUE /\ Error
  /\ UNCHANGED <<table, sessions, limiter, login, settingsMu,
                 issued, by, late, keeper, tried, changes, restarts>>

\* sessions.destroyOthers, and the unlock.
RevokeSessions(h) ==
  /\ saver[h].pc = "destroy"
  /\ sessions' = DestroyOthers(saver[h].keep)
  /\ keeper' = saver[h].keep
  /\ saver' = [saver EXCEPT ![h] = NoSaver] /\ settingsMu' = None
  /\ UNCHANGED <<table, passIsDefault, limiter, login, issued, by, late, unread, tried, bounds>>

-----------------------------------------------------------------------------
(* Time, and a new process *)

\* The tries older than the window no longer count.
Aged(tries) == {<<x[1] + 1, x[2]>> : x \in {y \in tries : y[1] < loginWindow}}

Tick ==
  /\ sessions' = [t \in Tokens |-> IF sessions[t] = Past THEN Past ELSE sessions[t] - 1]
  /\ limiter' = [a \in Addresses |-> IF limiter[a].left = Past THEN limiter[a]
                                     ELSE [limiter[a] EXCEPT !.left = @ - 1]]
  /\ tried' = [a \in Addresses |-> Aged(tried[a])]
  /\ UNCHANGED <<table, passIsDefault, login, saver, settingsMu,
                 issued, by, late, keeper, unread, bounds>>

\* What is in memory is gone.  The flag of the new server is down until New has
\* read the table.
Restart ==
  /\ restarts < MaxRestarts /\ restarts' = restarts + 1
  /\ sessions' = [t \in Tokens |-> Past] /\ limiter' = [a \in Addresses |-> Fresh]
  /\ login' = [r \in Logins |-> NoLogin] /\ saver' = [h \in Savers |-> NoSaver]
  /\ settingsMu' = None
  /\ \/ passIsDefault' = Refreshed /\ unread' = FALSE /\ UNCHANGED errors
     \/ passIsDefault' = FALSE /\ unread' = TRUE /\ Error
  /\ keeper' = NoToken /\ late' = {} /\ tried' = NoTries
  /\ UNCHANGED <<table, issued, by, changes>>

-----------------------------------------------------------------------------
LogIn(r)  == BeginLogin(r) \/ ReadSettings(r) \/ LeaveLogin(r) \/ WrongPassword(r)
             \/ RightPassword(r) \/ Reset(r)
Change(h) == BeginChange(h) \/ LockSettings(h) \/ SavePassword(h) \/ RefreshPassFlag(h)
             \/ RevokeSessions(h)

Next ==
  \/ \E r \in Logins : LogIn(r)
  \/ \E h \in Savers : Change(h)
  \/ \E t \in Tokens : Logout(t)
  \/ Tick \/ Restart

SafeSpec == Init /\ [][Next]_vars

\* Time passes, and nothing else is owed: people need not try again.
Spec == SafeSpec /\ WF_vars(Tick)
-----------------------------------------------------------------------------
(* Properties *)

\* Between password changes every session belongs to the password in force, or is
\* the one the password was changed from (auth.go:70, settings.go:172 "旧密码签发的
\* 会话一并作废"), or its login read the old password and was slower than the change.
SessionsCurrent ==
  settingsMu = None =>
    \A t \in Tokens : valid(t) => by[t] = password \/ t = keeper \/ t \in late

\* In no stretch of loginWindow, and since it last logged in, does an address have
\* more passwords checked than the limit and one for each other request that was
\* already past the limiter (blocked and fail are two critical sections).
TriesBounded ==
  \A a \in Addresses :
    Cardinality(tried[a]) <= loginMaxFails + Cardinality(Logins) - 1

\* An address that is locked out owes it to a wrong password that is still in the window,
\* and is let in when that one leaves it: what is turned away meanwhile does not
\* make it longer (blocked, fail).
LockedByTry ==
  \A a \in Addresses :
    blocked(a) => \E x \in tried[a] : x[1] = loginWindow - limiter[a].left

\* The default password opens no page but the settings, and a changed one opens all
\* of them, unless the server could not read which it is (requirePasswordChanged).
DefaultGuarded ==
  settingsMu = None /\ ~unread =>
    \A t \in Tokens : valid(t) => (Serves(t, "other") <=> ~default)

\* An address that is locked out is let in again, however often it asks meanwhile.
LetInAgain == \A a \in Addresses : blocked(a) ~> ~blocked(a)
=============================================================================
