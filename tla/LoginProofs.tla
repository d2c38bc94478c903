----------------------------- MODULE LoginProofs -----------------------------
(***************************************************************************)
(* TypeOK, SessionsCurrent, DefaultGuarded and TriesBounded, for any       *)
(* number of logins, password changes, addresses, failures and restarts.   *)
(***************************************************************************)
EXTENDS Login, FiniteSetTheorems, TLAPS

\* Past the lock, a password change holds it.
MutexInv ==
  \A h \in Savers : saver[h].pc \in {"save", "refresh", "destroy"} => settingsMu = h

\* While no change is about to revoke sessions, those there are belong to the password.
CurrentInv ==
  ~Revoking => \A t \in Tokens : valid(t) => by[t] = password \/ t = keeper \/ t \in late

\* The cached flag is the flag, unless a change has yet to refresh it or could not.
FlagInv == unread \/ (\E h \in Savers : saver[h].pc = "refresh") \/ passIsDefault = default

SaverType ==
  saver \in [Savers -> [pc : {"idle", "lock", "save", "refresh", "destroy"},
                        keep : Tokens \cup {NoToken}]]
SessionType ==
  /\ sessions \in [Tokens -> Past .. sessionTTL]
  /\ by \in [Tokens -> Nat] /\ late \subseteq Tokens /\ password \in Nat
  /\ login \in [Logins -> [pc : {"idle", "settings", "check", "reset"},
                           ip : Addresses \cup {None}, read : Nat]]
  /\ issued \in 0 .. MaxTokens

\* The flags, kept apart because they are Boolean.
Flags == default \in BOOLEAN /\ passIsDefault \in BOOLEAN /\ unread \in BOOLEAN
FlagType ==
  /\ Flags
  /\ settingsMu \in Savers \cup {None} /\ keeper \in Tokens \cup {NoToken}
  /\ changes \in Nat /\ errors \in Nat /\ restarts \in Nat

\* The requests for an address that are past the limiter and may yet count as failed.
Passed(a) == {r \in Logins : login[r].ip = a /\ login[r].pc \in {"settings", "check"}}

\* The limiter remembers at least the tries that count, for as long as one of them is
\* in the window, and whoever passed it found room for one more.
AddressInv(a) ==
  /\ IsFiniteSet(tried[a])
  /\ \A x \in tried[a] : x[1] >= loginWindow - limiter[a].left
  /\ \A x \in tried[a] : x[1] = 0 => x[2] < Cardinality(tried[a])
  /\ limiter[a].left # Past => Cardinality(tried[a]) <= limiter[a].fails
  /\ Cardinality(tried[a]) + Cardinality(Passed(a)) <= loginMaxFails + Cardinality(Logins) - 1

TriesInv ==
  /\ tried \in [Addresses -> SUBSET (Ages \X Nat)]
  /\ limiter \in [Addresses -> [fails : Nat, left : Past .. loginWindow]]
  /\ \A a \in Addresses : AddressInv(a)

IInv == SaverType /\ SessionType /\ FlagType /\ MutexInv /\ CurrentInv /\ FlagInv /\ TriesInv

\* The lock is taken when it is free and given up at the end of the change.
LEMMA MutexStep ==
  ASSUME SaverType, MutexInv, [Next]_vars
  PROVE  SaverType' /\ MutexInv'
<1> USE LoginAssumption DEF SaverType, MutexInv, NoSaver
<1>1. CASE UNCHANGED <<saver, settingsMu>>
  BY <1>1
<1>2. ASSUME UNCHANGED vars \/ (\E r \in Logins : LogIn(r)) \/ (\E t \in Tokens : Logout(t)) \/ Tick
      PROVE  UNCHANGED <<saver, settingsMu>>
  BY <1>2 DEF vars, LogIn, BeginLogin, ReadSettings, LeaveLogin, WrongPassword, RightPassword,
      Reset, Logout, Tick
<1>3. ASSUME NEW h \in Savers, BeginChange(h) PROVE SaverType' /\ MutexInv'
  <2>1. PICK t \in Tokens : saver' = [saver EXCEPT ![h] = [pc |-> "lock", keep |-> t]]
    BY <1>3 DEF BeginChange
  <2> QED BY <1>3, <2>1 DEF BeginChange
<1>4. ASSUME NEW h \in Savers, LockSettings(h) PROVE SaverType' /\ MutexInv'
  BY <1>4 DEF LockSettings
<1>5. ASSUME NEW h \in Savers, SavePassword(h) PROVE SaverType' /\ MutexInv'
  BY <1>5 DEF SavePassword
<1>6. ASSUME NEW h \in Savers, RefreshPassFlag(h) PROVE SaverType' /\ MutexInv'
  BY <1>6 DEF RefreshPassFlag
<1>7. ASSUME NEW h \in Savers, RevokeSessions(h) PROVE SaverType' /\ MutexInv'
  BY <1>7 DEF RevokeSessions
<1>8. ASSUME Restart PROVE SaverType' /\ MutexInv'
  BY <1>8 DEF Restart
<1> QED BY <1>1, <1>2, <1>3, <1>4, <1>5, <1>6, <1>7, <1>8 DEF Next, Change

\* The types of what the sessions depend on.
LEMMA SessionTypeStep ==
  ASSUME SaverType, SessionType, [Next]_vars
  PROVE  SessionType'
<1> USE LoginAssumption DEF SaverType, SessionType, Past, Tokens, NoToken, NoLogin, history, table,
    bounds, vars
<1>1. CASE UNCHANGED vars
  BY <1>1
<1>2. ASSUME NEW r \in Logins, LogIn(r) PROVE SessionType'
  <2>1. CASE BeginLogin(r)
    <3>1. CASE UNCHANGED login BY <2>1, <3>1 DEF BeginLogin
    <3>2. CASE \E a \in Addresses : login' = [login EXCEPT ![r] = [pc |-> "settings", ip |-> a, read |-> 0]]
      BY <2>1, <3>2 DEF BeginLogin
    <3> QED BY <2>1, <3>1, <3>2 DEF BeginLogin
  <2>2. CASE ReadSettings(r)
    <3>1. CASE login' = [login EXCEPT ![r] = NoLogin] BY <2>2, <3>1 DEF ReadSettings
    <3>2. CASE login' = [login EXCEPT ![r].pc = "check", ![r].read = password]
      <4>1. login[r] \in [pc : {"idle", "settings", "check", "reset"},
                          ip : Addresses \cup {None}, read : Nat]
        OBVIOUS
      <4>2. login'[r] = [pc |-> "check", ip |-> login[r].ip, read |-> password]
        BY <3>2, <4>1
      <4>3. \A q \in Logins \ {r} : login'[q] = login[q]
        BY <3>2
      <4> QED BY <2>2, <3>2, <4>1, <4>2, <4>3 DEF ReadSettings
    <3> QED BY <2>2, <3>1, <3>2 DEF ReadSettings
  <2>3. CASE LeaveLogin(r) BY <2>3 DEF LeaveLogin
  <2>4. CASE WrongPassword(r) BY <2>4 DEF WrongPassword
  <2>5. CASE RightPassword(r)
    <3>1. issued + 1 \in Tokens /\ sessionTTL \in Past .. sessionTTL
      BY <2>5 DEF RightPassword
    <3>2. login[r].read \in Nat
      OBVIOUS
    <3>3. by' \in [Tokens -> Nat] /\ sessions' \in [Tokens -> Past .. sessionTTL] /\ late' \subseteq Tokens
      BY <2>5, <3>1, <3>2 DEF RightPassword
    <3>4. login' \in [Logins -> [pc : {"idle", "settings", "check", "reset"},
                                 ip : Addresses \cup {None}, read : Nat]]
      BY ZenonT(40), <2>5 DEF RightPassword
    <3>5. issued' \in 0 .. MaxTokens /\ password' = password
      BY <2>5 DEF RightPassword
    <3> QED BY <3>3, <3>4, <3>5
  <2>6. CASE Reset(r) BY <2>6 DEF Reset
  <2> QED BY <1>2, <2>1, <2>2, <2>3, <2>4, <2>5, <2>6 DEF LogIn
<1>3. ASSUME NEW h \in Savers, Change(h) PROVE SessionType'
  <2>1. CASE BeginChange(h) BY <2>1 DEF BeginChange
  <2>2. CASE LockSettings(h) BY <2>2 DEF LockSettings
  <2>3. CASE SavePassword(h) BY <2>3 DEF SavePassword
  <2>4. CASE RefreshPassFlag(h) BY <2>4 DEF RefreshPassFlag, Refreshed
  <2>5. CASE RevokeSessions(h) BY <2>5 DEF RevokeSessions, DestroyOthers
  <2> QED BY <1>3, <2>1, <2>2, <2>3, <2>4, <2>5 DEF Change
<1>4. ASSUME NEW t \in Tokens, Logout(t) PROVE SessionType'
  BY <1>4 DEF Logout
<1>5. CASE Tick
  <2>1. \A t \in Tokens : sessions[t] \in Past .. sessionTTL
    OBVIOUS
  <2>2. \A t \in Tokens : (IF sessions[t] = Past THEN Past ELSE sessions[t] - 1) \in Past .. sessionTTL
    BY <2>1
  <2>3. sessions' \in [Tokens -> Past .. sessionTTL]
    BY <1>5, <2>2 DEF Tick
  <2> QED BY <1>5, <2>3 DEF Tick
<1>6. CASE Restart
  BY <1>6 DEF Restart, Refreshed
<1> QED BY <1>1, <1>2, <1>3, <1>4, <1>5, <1>6 DEF Next

\* A session is made of the password in force or of a login that was overtaken;
\* a change that overtakes sessions revokes them before it ends.
LEMMA CurrentStep ==
  ASSUME SaverType, SessionType, MutexInv, CurrentInv, [Next]_vars
  PROVE  CurrentInv'
<1> USE LoginAssumption DEF SaverType, SessionType, CurrentInv, Revoking, valid, Past, Tokens,
    NoToken, NoSaver, history, table, bounds
<1>1. CASE UNCHANGED <<saver, sessions, by, password, keeper, late>>
  BY <1>1
<1>2. ASSUME UNCHANGED vars \/ \E r \in Logins : BeginLogin(r) \/ ReadSettings(r) \/ LeaveLogin(r)
                                                 \/ WrongPassword(r) \/ Reset(r)
      PROVE  UNCHANGED <<saver, sessions, by, password, keeper, late>>
  BY <1>2 DEF vars, BeginLogin, ReadSettings, LeaveLogin, WrongPassword, Reset
<1>3. ASSUME NEW r \in Logins, RightPassword(r) PROVE CurrentInv'
  BY <1>3 DEF RightPassword
<1>4. ASSUME NEW h \in Savers, BeginChange(h) PROVE CurrentInv'
  <2>1. PICK t \in Tokens : saver' = [saver EXCEPT ![h] = [pc |-> "lock", keep |-> t]]
    BY <1>4 DEF BeginChange
  <2> QED BY <1>4, <2>1 DEF BeginChange
<1>5. ASSUME NEW h \in Savers, LockSettings(h) PROVE CurrentInv'
  BY <1>5 DEF LockSettings
<1>6. ASSUME NEW h \in Savers, SavePassword(h) PROVE CurrentInv'
  <2>1. CASE saver' = [saver EXCEPT ![h].pc = "refresh"]
    <3>1. Revoking' BY <2>1
    <3> QED BY <3>1
  <2>2. CASE UNCHANGED table /\ saver' = [saver EXCEPT ![h] = NoSaver]
    BY <1>6, <2>2 DEF SavePassword
  <2> QED BY <1>6, <2>1, <2>2 DEF SavePassword
<1>7. ASSUME NEW h \in Savers, RefreshPassFlag(h) PROVE CurrentInv'
  <2>1. Revoking'
    BY <1>7 DEF RefreshPassFlag
  <2> QED BY <2>1
<1>8. ASSUME NEW h \in Savers, RevokeSessions(h) PROVE CurrentInv'
  BY <1>8 DEF RevokeSessions, DestroyOthers
<1>9. ASSUME NEW t \in Tokens, Logout(t) PROVE CurrentInv'
  BY <1>9 DEF Logout
<1>10. CASE Tick
  <2>1. \A t \in Tokens : valid(t)' => valid(t)
    BY <1>10 DEF Tick
  <2> QED BY <1>10, <2>1 DEF Tick
<1>11. CASE Restart
  BY <1>11 DEF Restart
<1> QED BY <1>1, <1>2, <1>3, <1>4, <1>5, <1>6, <1>7, <1>8, <1>9, <1>10, <1>11 DEF Next, LogIn, Change

\* Only a saved password makes the cached flag wrong, and its own refresh follows.
LEMMA FlagStep ==
  ASSUME SaverType, SessionType, FlagInv, [Next]_vars
  PROVE  FlagInv'
<1> USE DEF SaverType, SessionType, FlagInv, NoSaver, history, table, bounds
<1>1. CASE UNCHANGED <<saver, unread, passIsDefault, default>>
  BY <1>1
<1>2. ASSUME UNCHANGED vars \/ (\E r \in Logins : LogIn(r)) \/ (\E t \in Tokens : Logout(t)) \/ Tick
      PROVE  UNCHANGED <<saver, unread, passIsDefault, default>>
  BY <1>2 DEF vars, LogIn, BeginLogin, ReadSettings, LeaveLogin, WrongPassword, RightPassword,
      Reset, Logout, Tick
<1>3. ASSUME NEW h \in Savers, BeginChange(h) PROVE FlagInv'
  <2>1. PICK t \in Tokens : saver' = [saver EXCEPT ![h] = [pc |-> "lock", keep |-> t]]
    BY <1>3 DEF BeginChange
  <2> QED BY <1>3, <2>1 DEF BeginChange
<1>4. ASSUME NEW h \in Savers, LockSettings(h) PROVE FlagInv'
  BY <1>4 DEF LockSettings
<1>5. ASSUME NEW h \in Savers, SavePassword(h) PROVE FlagInv'
  BY <1>5 DEF SavePassword
<1>6. ASSUME NEW h \in Savers, RefreshPassFlag(h) PROVE FlagInv'
  BY <1>6 DEF RefreshPassFlag, Refreshed
<1>7. ASSUME NEW h \in Savers, RevokeSessions(h) PROVE FlagInv'
  BY <1>7 DEF RevokeSessions
<1>8. CASE Restart
  BY <1>8 DEF Restart, Refreshed
<1> QED BY <1>1, <1>2, <1>3, <1>4, <1>5, <1>6, <1>7, <1>8 DEF Next, Change

\* A clock tick makes no tries.
LEMMA AgedTries ==
  ASSUME NEW T \in SUBSET (Ages \X Nat), IsFiniteSet(T)
  PROVE  /\ Aged(T) \in SUBSET (Ages \X Nat) /\ IsFiniteSet(Aged(T))
         /\ Cardinality(Aged(T)) <= Cardinality(T)
         /\ \A y \in Aged(T) : <<y[1] - 1, y[2]>> \in T
<1> USE LoginAssumption DEF Ages
<1>1. Aged(T) \in SUBSET (Ages \X Nat)
  BY DEF Aged
<1>2. \A y \in Aged(T) : <<y[1] - 1, y[2]>> \in T
  <2> SUFFICES ASSUME NEW y \in Aged(T) PROVE <<y[1] - 1, y[2]>> \in T
    OBVIOUS
  <2>1. PICK x \in T : y = <<x[1] + 1, x[2]>>
    BY DEF Aged
  <2> QED BY <2>1
<1> DEFINE f == [y \in Aged(T) |-> <<y[1] - 1, y[2]>>]
<1>3. f \in [Aged(T) -> T]
  BY <1>2
<1>4. \A y, z \in Aged(T) : f[y] = f[z] => y = z
  <2> SUFFICES ASSUME NEW y \in Aged(T), NEW z \in Aged(T), f[y] = f[z] PROVE y = z
    OBVIOUS
  <2>1. y \in Ages \X Nat /\ z \in Ages \X Nat
    BY <1>1
  <2> QED BY <2>1
<1>5. f \in Injection(Aged(T), T)
  BY <1>3, <1>4 DEF Injection, IsInjective
<1> HIDE DEF f
<1> QED BY <1>1, <1>2, <1>5, FS_Injection

\* Only who passes the limiter adds to the requests past it.
LEMMA PassedSize ==
  ASSUME NEW a
  PROVE  /\ IsFiniteSet(Passed(a)) /\ Cardinality(Passed(a)) \in Nat
         /\ Cardinality(Passed(a)) <= Cardinality(Logins) /\ Cardinality(Logins) \in Nat
<1>1. Passed(a) \in SUBSET Logins
  BY DEF Passed
<1> QED BY <1>1, LoginAssumption, FS_Subset, FS_CardinalityType

\* Fewer requests past the limiter, and the tries as they were.
LEMMA PassedShrinks ==
  ASSUME NEW a, Passed(a)' \subseteq Passed(a)
  PROVE  Cardinality(Passed(a)') <= Cardinality(Passed(a))
BY PassedSize, FS_Subset

\* A step that leaves the tries and the limiter's entry of an address alone, and lets
\* nobody past the limiter.
LEMMA AddressKept ==
  ASSUME NEW a \in Addresses, AddressInv(a), tried'[a] = tried[a], limiter'[a] = limiter[a],
         Passed(a)' \subseteq Passed(a)
  PROVE  AddressInv(a)'
<1>1. Cardinality(Passed(a)') <= Cardinality(Passed(a)) /\ Cardinality(Passed(a)) \in Nat
  BY PassedShrinks, PassedSize
<1>2. Cardinality(Passed(a)') \in Nat
  BY PassedSize, FS_Subset, FS_CardinalityType
<1>3. Cardinality(tried[a]) \in Nat /\ Cardinality(Logins) \in Nat
  BY FS_CardinalityType, LoginAssumption DEF AddressInv
<1> QED BY <1>1, <1>2, <1>3, LoginAssumption DEF AddressInv

\* An entry that is begun anew is one.
LEMMA FreshEntry == Fresh \in [fails : Nat, left : Past .. loginWindow]
BY LoginAssumption DEF Fresh, Past

\* Passing the limiter: there is room for one more try at least.
LEMMA BeginTries ==
  ASSUME SessionType, TriesInv, NEW r \in Logins, BeginLogin(r)
  PROVE  TriesInv'
<1> USE LoginAssumption DEF SessionType, TriesInv
<1>1. PICK a \in Addresses :
        IF blocked(a)
          THEN limiter' = [limiter EXCEPT ![a] = TurnedAway(a)] /\ UNCHANGED login
          ELSE /\ limiter' = [limiter EXCEPT ![a] = IF @.left = Past THEN Fresh ELSE @]
               /\ login' = [login EXCEPT ![r] = [pc |-> "settings", ip |-> a, read |-> 0]]
  BY DEF BeginLogin
<1>2. tried' = tried
  BY DEF BeginLogin, history
<1>3. limiter' \in [Addresses -> [fails : Nat, left : Past .. loginWindow]]
  BY <1>1, FreshEntry DEF TurnedAway
<1>4. ASSUME NEW b \in Addresses PROVE AddressInv(b)'
  <2>1. CASE blocked(a)
    <3>1. limiter'[b] = limiter[b] /\ Passed(b)' = Passed(b)
      BY <1>1, <2>1 DEF TurnedAway, Passed
    <3> QED BY <1>2, <3>1, AddressKept
  <2>2. CASE ~blocked(a) /\ b # a
    <3>1. limiter'[b] = limiter[b] /\ Passed(b)' \subseteq Passed(b)
      BY <1>1, <2>2 DEF Passed
    <3> QED BY <1>2, <3>1, AddressKept
  <2>3. CASE ~blocked(a) /\ b = a
    <3>1. limiter'[a] = IF limiter[a].left = Past THEN Fresh ELSE limiter[a]
      BY <1>1, <2>3
    <3>2. limiter[a].left \in Past .. loginWindow /\ limiter[a].fails \in Nat
      OBVIOUS
    <3>3. \A x \in tried[a] : x[1] \in 0 .. loginWindow
      BY DEF Ages
    <3>4. limiter[a].left = Past => tried[a] = {}
      BY <3>3 DEF AddressInv, Past
    <3>5. Cardinality(tried[a]) \in Nat /\ Cardinality(tried[a]) <= loginMaxFails - 1
      <4>1. CASE limiter[a].left = Past
        <5>1. Cardinality(tried[a]) = 0
          BY <3>4, <4>1, FS_EmptySet
        <5> QED BY <5>1
      <4>2. CASE limiter[a].left # Past
        BY <2>3, <3>2, <4>2, FS_CardinalityType DEF blocked, AddressInv
      <4> QED BY <4>1, <4>2
    <3>6. Cardinality(Passed(a)') <= Cardinality(Logins) /\ Cardinality(Logins) \in Nat
          /\ Cardinality(Passed(a)') \in Nat
      <4>1. Passed(a)' \in SUBSET Logins
        BY DEF Passed
      <4> QED BY <4>1, FS_Subset, FS_CardinalityType
    <3>7. \A x \in tried[a] : x[1] >= loginWindow - limiter'[a].left
      BY <3>1, <3>4 DEF AddressInv
    <3>8. limiter'[a].left # Past => Cardinality(tried[a]) <= limiter'[a].fails
      BY <3>1 DEF AddressInv, Fresh
    <3> QED BY <1>2, <2>3, <3>5, <3>6, <3>7, <3>8 DEF AddressInv
  <2> QED BY <2>1, <2>2, <2>3
<1> QED BY <1>2, <1>3, <1>4

\* A failure is counted in the limiter as well, and its request is no longer past it.
LEMMA WrongTries ==
  ASSUME SessionType, TriesInv, NEW r \in Logins, WrongPassword(r)
  PROVE  TriesInv'
<1> USE LoginAssumption DEF SessionType, TriesInv
<1>0. PICK a, n : a = login[r].ip /\ n = Cardinality(tried[a])
  OBVIOUS
<1>1. /\ login[r].pc = "check" /\ limiter' = [limiter EXCEPT ![a] = Failed(a)]
      /\ tried' = [tried EXCEPT ![a] = @ \cup {<<0, Cardinality(@)>>}]
      /\ login' = [login EXCEPT ![r] = NoLogin]
  BY <1>0 DEF WrongPassword
<1>2. \A b : Passed(b)' = Passed(b) \ {r}
  BY <1>1 DEF Passed, NoLogin
<1>3. ASSUME a \in Addresses
      PROVE  /\ Failed(a) \in [fails : Nat, left : Past .. loginWindow]
             /\ tried[a] \cup {<<0, n>>} \in SUBSET (Ages \X Nat)
             /\ AddressInv(a)'
  <2>1. limiter[a].left \in Past .. loginWindow /\ limiter[a].fails \in Nat
    BY <1>3
  <2>2. Failed(a) \in [fails : Nat, left : Past .. loginWindow] /\ Failed(a).left = loginWindow
    BY <2>1 DEF Failed, Past
  <2>3. n \in Nat /\ <<0, n>> \in Ages \X Nat
    BY SMTT(30), <1>0, <1>3, FS_CardinalityType DEF AddressInv, Ages
  <2>4. <<0, n>> \notin tried[a]
    BY <1>0, <1>3, <2>3 DEF AddressInv
  <2>5. tried'[a] = tried[a] \cup {<<0, n>>} /\ limiter'[a] = Failed(a)
    BY <1>0, <1>1, <1>3
  <2>6. IsFiniteSet(tried'[a]) /\ Cardinality(tried'[a]) = n + 1
    <3>1. IsFiniteSet(tried[a])
      BY <1>3 DEF AddressInv
    <3>2. /\ IsFiniteSet(tried[a] \cup {<<0, n>>})
          /\ Cardinality(tried[a] \cup {<<0, n>>}) = Cardinality(tried[a]) + 1
      BY <2>4, <3>1, FS_AddElement
    <3> QED BY <1>0, <2>5, <3>2
  <2>7. \A x \in tried'[a] : x[1] >= loginWindow - limiter'[a].left
    <3>1. \A x \in Ages \X Nat : x[1] >= 0
      BY DEF Ages
    <3>2. tried'[a] \subseteq Ages \X Nat
      BY <1>3, <2>3, <2>5
    <3> QED BY <2>2, <2>5, <3>1, <3>2
  <2>8. \A x \in tried'[a] : x[1] = 0 => x[2] < n + 1
    <3>1. ASSUME NEW x \in tried[a], x[1] = 0 PROVE x[2] < n + 1
      <4>1. x[2] < n /\ x[2] \in Nat
        BY <1>0, <1>3, <3>1 DEF AddressInv
      <4> QED BY <2>3, <4>1
    <3> QED BY <2>3, <2>5, <3>1
  <2>9. n + 1 <= Failed(a).fails
    <3>1. CASE limiter[a].left = Past
      <4>1. \A x \in tried[a] : x[1] \in 0 .. loginWindow
        BY <1>3 DEF Ages
      <4>2. tried[a] = {}
        BY <1>3, <3>1, <4>1 DEF AddressInv, Past
      <4>3. n = 0
        BY <1>0, <4>2, FS_EmptySet
      <4> QED BY <3>1, <4>3 DEF Failed
    <3>2. CASE limiter[a].left # Past
      BY <1>0, <1>3, <2>1, <2>3, <3>2 DEF AddressInv, Failed
    <3> QED BY <3>1, <3>2
  <2>10. /\ Cardinality(Passed(a)') = Cardinality(Passed(a)) - 1
         /\ Cardinality(Passed(a)) \in Nat /\ Cardinality(Logins) \in Nat
    <3>1. r \in Passed(a)
      BY <1>0, <1>1 DEF Passed
    <3> QED BY <1>2, <3>1, PassedSize, FS_RemoveElement
  <2>11. n + Cardinality(Passed(a)) <= loginMaxFails + Cardinality(Logins) - 1
    BY <1>0, <1>3 DEF AddressInv
  <2>12. n + 1 + Cardinality(Passed(a)') <= loginMaxFails + Cardinality(Logins) - 1
    BY <2>3, <2>10, <2>11
  <2>13. AddressInv(a)'
    BY <2>5, <2>6, <2>7, <2>8, <2>9, <2>12 DEF AddressInv
  <2> QED BY <1>3, <2>2, <2>3, <2>13
<1>4. tried' \in [Addresses -> SUBSET (Ages \X Nat)]
      /\ limiter' \in [Addresses -> [fails : Nat, left : Past .. loginWindow]]
  <2>1. CASE a \in Addresses
    BY <1>0, <1>1, <1>3, <2>1
  <2>2. CASE a \notin Addresses
    BY <1>1, <2>2
  <2> QED BY <2>1, <2>2
<1>5. ASSUME NEW b \in Addresses PROVE AddressInv(b)'
  <2>1. CASE b # a
    <3>1. limiter'[b] = limiter[b] /\ tried'[b] = tried[b] /\ Passed(b)' \subseteq Passed(b)
      BY <1>1, <1>2, <2>1
    <3> QED BY <3>1, AddressKept
  <2> QED BY <1>3, <2>1
<1> QED BY <1>4, <1>5

\* A reset, like a restart, forgets the tries of an address.
LEMMA ClearTries ==
  ASSUME NEW a \in Addresses, tried'[a] = {}, limiter'[a] = Fresh, Passed(a)' \subseteq Logins
  PROVE  AddressInv(a)'
<1>1. Cardinality(Passed(a)') <= Cardinality(Logins) /\ Cardinality(Passed(a)') \in Nat
      /\ Cardinality(Logins) \in Nat
  BY LoginAssumption, FS_Subset, FS_CardinalityType
<1> QED BY <1>1, FS_EmptySet, LoginAssumption DEF AddressInv, Fresh

\* With the clock the tries age, and what is older than the window counts no more.
LEMMA TickTries ==
  ASSUME SessionType, TriesInv, Tick
  PROVE  TriesInv'
<1> USE LoginAssumption DEF SessionType, TriesInv
<1>1. /\ limiter' = [a \in Addresses |-> IF limiter[a].left = Past THEN limiter[a]
                                         ELSE [limiter[a] EXCEPT !.left = @ - 1]]
      /\ tried' = [a \in Addresses |-> Aged(tried[a])] /\ login' = login
  BY DEF Tick
<1>2. ASSUME NEW a \in Addresses
      PROVE  /\ limiter'[a] \in [fails : Nat, left : Past .. loginWindow]
             /\ limiter'[a].fails = limiter[a].fails
             /\ limiter'[a].left = IF limiter[a].left = Past THEN Past ELSE limiter[a].left - 1
  <2>1. limiter[a] \in [fails : Nat, left : Past .. loginWindow]
    OBVIOUS
  <2> QED BY <1>1, <2>1 DEF Past
<1>3. ASSUME NEW a \in Addresses PROVE Aged(tried[a]) \in SUBSET (Ages \X Nat) /\ AddressInv(a)'
  <2>1. tried[a] \in SUBSET (Ages \X Nat) /\ IsFiniteSet(tried[a]) /\ tried'[a] = Aged(tried[a])
    BY <1>1 DEF AddressInv
  <2>2. /\ Aged(tried[a]) \in SUBSET (Ages \X Nat) /\ IsFiniteSet(Aged(tried[a]))
        /\ Cardinality(Aged(tried[a])) <= Cardinality(tried[a])
        /\ \A y \in Aged(tried[a]) : <<y[1] - 1, y[2]>> \in tried[a]
    BY <2>1, AgedTries
  <2>3. limiter[a].left \in Past .. loginWindow /\ limiter[a].fails \in Nat
    OBVIOUS
  <2>4. ASSUME NEW y \in Aged(tried[a])
        PROVE  y[1] > 0 /\ y[1] >= loginWindow - limiter'[a].left
    <3>1. y[1] - 1 \in 0 .. loginWindow /\ y[1] \in 0 .. loginWindow
      BY ZenonT(40), <2>1, <2>2 DEF Ages
    <3>2. y[1] - 1 >= loginWindow - limiter[a].left
      BY ZenonT(40), <2>2 DEF AddressInv
    <3> QED BY <1>2, <2>3, <3>1, <3>2 DEF Past
  <2>5. /\ Cardinality(tried[a]) \in Nat /\ Cardinality(Aged(tried[a])) \in Nat
        /\ Cardinality(Passed(a)) \in Nat /\ Cardinality(Logins) \in Nat
    BY <2>1, <2>2, PassedSize, FS_CardinalityType
  <2>6. Passed(a)' = Passed(a)
    BY <1>1 DEF Passed
  <2>7. limiter'[a].left # Past => Cardinality(Aged(tried[a])) <= limiter'[a].fails
    BY <1>2, <2>2, <2>3, <2>5 DEF AddressInv
  <2>8. Cardinality(Aged(tried[a])) + Cardinality(Passed(a)) <= loginMaxFails + Cardinality(Logins) - 1
    BY <2>2, <2>5 DEF AddressInv
  <2> QED BY <2>1, <2>2, <2>4, <2>6, <2>7, <2>8 DEF AddressInv
<1> QED BY <1>1, <1>2, <1>3

\* Every step keeps the invariant of every address.
LEMMA TriesStep ==
  ASSUME SaverType, SessionType, TriesInv, [Next]_vars
  PROVE  TriesInv'
<1> USE LoginAssumption DEF SessionType
<1>1. ASSUME UNCHANGED <<tried, limiter>>, \A a \in Addresses : Passed(a)' \subseteq Passed(a)
      PROVE  TriesInv'
  BY <1>1, AddressKept DEF TriesInv
<1>2. CASE UNCHANGED <<tried, limiter, login>>
  <2>1. \A a \in Addresses : Passed(a)' = Passed(a)
    BY <1>2 DEF Passed
  <2> QED BY <1>1, <1>2, <2>1
<1>3. ASSUME UNCHANGED vars \/ (\E h \in Savers : Change(h)) \/ (\E t \in Tokens : Logout(t))
      PROVE  UNCHANGED <<tried, limiter, login>>
  BY <1>3 DEF vars, history, Change, BeginChange, LockSettings, SavePassword, RefreshPassFlag,
      RevokeSessions, Logout
<1>4. ASSUME NEW r \in Logins, ReadSettings(r) \/ LeaveLogin(r) \/ RightPassword(r) PROVE TriesInv'
  <2>1. UNCHANGED <<tried, limiter>>
    BY <1>4 DEF ReadSettings, LeaveLogin, RightPassword, history
  <2>2. /\ \A q \in Logins : q # r => login'[q] = login[q]
        /\ login[r].pc \in {"settings", "check"}
        /\ login'[r].ip = login[r].ip \/ login'[r].pc = "idle"
    BY <1>4 DEF ReadSettings, LeaveLogin, RightPassword, NoLogin
  <2>3. \A a \in Addresses : Passed(a)' \subseteq Passed(a)
    BY <2>2 DEF Passed
  <2> QED BY <1>1, <2>1, <2>3
<1>5. ASSUME NEW r \in Logins, Reset(r) PROVE TriesInv'
  <2> DEFINE a == login[r].ip
  <2>1. /\ limiter' = [limiter EXCEPT ![a] = Fresh] /\ tried' = [tried EXCEPT ![a] = {}]
        /\ login' = [login EXCEPT ![r] = NoLogin]
    BY <1>5 DEF Reset
  <2>2. \A b \in Addresses : Passed(b)' \subseteq Passed(b) /\ Passed(b)' \subseteq Logins
    BY <2>1 DEF Passed, NoLogin
  <2>3. ASSUME NEW b \in Addresses PROVE AddressInv(b)'
    <3>1. CASE b = a
      BY <2>1, <2>2, <3>1, ClearTries DEF TriesInv
    <3>2. CASE b # a
      <4>1. AddressInv(b) /\ tried'[b] = tried[b] /\ limiter'[b] = limiter[b]
        BY <2>1, <3>2 DEF TriesInv
      <4> QED BY <2>2, <4>1, AddressKept
    <3> QED BY <3>1, <3>2
  <2> QED BY <2>1, <2>3, FreshEntry DEF TriesInv
<1>6. CASE Restart
  <2>1. /\ limiter' = [a \in Addresses |-> Fresh] /\ tried' = NoTries
        /\ login' = [r \in Logins |-> NoLogin]
    BY <1>6 DEF Restart
  <2>2. \A b \in Addresses : Passed(b)' \subseteq Logins
    BY <2>1 DEF Passed
  <2>3. \A b \in Addresses : AddressInv(b)'
    BY <2>1, <2>2, ClearTries DEF NoTries
  <2> QED BY <2>1, <2>3, FreshEntry DEF TriesInv, NoTries
<1> QED BY <1>2, <1>3, <1>4, <1>5, <1>6, BeginTries, WrongTries, TickTries DEF Next, LogIn

\* The types the lemmas above leave open.
LEMMA FlagTypeStep ==
  ASSUME SaverType, FlagType, [Next]_vars
  PROVE  FlagType'
<1> USE DEF SaverType, FlagType, history, table, bounds, Error
<1>1. CASE UNCHANGED vars
  BY <1>1 DEF vars, Flags
<1>2. ASSUME NEW r \in Logins, LogIn(r) PROVE FlagType'
  BY <1>2 DEF LogIn, BeginLogin, ReadSettings, LeaveLogin, WrongPassword, RightPassword, Reset, Flags
<1>3. ASSUME NEW h \in Savers, Change(h) PROVE FlagType'
  <2>1. CASE BeginChange(h) BY <2>1 DEF BeginChange, Flags
  <2>2. CASE LockSettings(h) BY <2>2 DEF LockSettings, Flags
  <2>3. CASE SavePassword(h)
    <3>1. Flags'
      BY <2>3 DEF SavePassword, Flags
    <3> QED BY <2>3, <3>1 DEF SavePassword
  <2>4. CASE RefreshPassFlag(h)
    <3>1. Flags'
      BY <2>4, Zenon DEF RefreshPassFlag, Refreshed, Flags
    <3> QED BY <2>4, <3>1 DEF RefreshPassFlag
  <2>5. CASE RevokeSessions(h) BY <2>5 DEF RevokeSessions, Flags
  <2> QED BY <1>3, <2>1, <2>2, <2>3, <2>4, <2>5 DEF Change
<1>4. ASSUME NEW t \in Tokens, Logout(t) PROVE FlagType'
  BY <1>4 DEF Logout, Flags
<1>5. CASE Tick
  BY <1>5 DEF Tick, Flags
<1>6. CASE Restart
  <2>1. Flags'
    BY <1>6, Zenon DEF Restart, Refreshed, Flags
  <2> QED BY <1>6, <2>1 DEF Restart
<1> QED BY <1>1, <1>2, <1>3, <1>4, <1>5, <1>6 DEF Next

\* The inductive invariant holds in every reachable state.
LEMMA Invariant == SafeSpec => []IInv
<1>1. Init => IInv
  <2> SUFFICES ASSUME Init PROVE IInv
    OBVIOUS
  <2>1. SaverType /\ SessionType /\ MutexInv /\ CurrentInv /\ FlagInv
    BY LoginAssumption DEF Init, SaverType, SessionType, MutexInv, CurrentInv, FlagInv,
       Revoking, valid, Past, Tokens, NoToken, NoSaver, NoLogin
  <2>4. FlagType
    BY DEF Init, FlagType, Flags
  <2>2. /\ tried = [a \in Addresses |-> {}] /\ limiter = [a \in Addresses |-> Fresh]
        /\ Fresh.left = Past
    BY DEF Init, NoTries, Fresh
  <2>3. ASSUME NEW a \in Addresses PROVE AddressInv(a)
    <3>1. /\ Cardinality(Passed(a)) \in Nat /\ Cardinality(Logins) \in Nat
          /\ Cardinality(Passed(a)) <= Cardinality(Logins)
      BY PassedSize
    <3> QED BY <2>2, <3>1, FS_EmptySet, LoginAssumption DEF AddressInv
  <2> QED BY <2>1, <2>2, <2>3, <2>4, FreshEntry DEF IInv, TriesInv
<1>2. IInv /\ [Next]_vars => IInv'
  BY MutexStep, SessionTypeStep, FlagTypeStep, CurrentStep, FlagStep, TriesStep DEF IInv
<1> QED BY <1>1, <1>2, PTL DEF SafeSpec

\* Every reachable state of the server's memory and of the requests is well typed.
THEOREM TypeSafe == SafeSpec => []TypeOK
<1>1. IInv => TypeOK
  BY DEF IInv, SaverType, SessionType, FlagType, Flags, TriesInv, TypeOK
<1> QED BY <1>1, Invariant, PTL

\* However many logins are under way at a time, an address has no more passwords
\* checked in one window than the limit and one for each other login.
THEOREM TriesSafe == SafeSpec => []TriesBounded
<1>1. IInv => TriesBounded
  <2> SUFFICES ASSUME IInv, NEW a \in Addresses
               PROVE  Cardinality(tried[a]) <= loginMaxFails + Cardinality(Logins) - 1
    BY DEF TriesBounded
  <2>1. /\ Cardinality(tried[a]) \in Nat /\ Cardinality(Passed(a)) \in Nat
        /\ Cardinality(Logins) \in Nat
    BY PassedSize, FS_CardinalityType DEF IInv, TriesInv, AddressInv
  <2> QED BY <2>1, LoginAssumption DEF IInv, TriesInv, AddressInv
<1> QED BY <1>1, Invariant, PTL

\* An entry of the limiter lives exactly as long as the last try that counts.
Tied(a) == limiter[a].left # Past => \E x \in tried[a] : x[1] = loginWindow - limiter[a].left

\* A new try ties its entry, and as time passes both grow old together.
LEMMA TiedStep ==
  ASSUME TriesInv, SessionType, [Next]_vars, NEW a \in Addresses, Tied(a)
  PROVE  Tied(a)'
<1> USE LoginAssumption DEF TriesInv
<1>1. CASE limiter'[a] = limiter[a] /\ tried'[a] = tried[a]
  BY <1>1 DEF Tied
<1>2. CASE limiter'[a].left = Past
  BY <1>2 DEF Tied
<1>3. ASSUME NEW r \in Logins, BeginLogin(r)
      PROVE  tried'[a] = tried[a] /\ (limiter'[a] = limiter[a] \/ limiter'[a].left = Past)
  BY <1>3 DEF BeginLogin, TurnedAway, Fresh, history
<1>4. ASSUME NEW r \in Logins, WrongPassword(r) PROVE Tied(a)'
  <2> DEFINE b == login[r].ip
             x == <<0, Cardinality(tried[a])>>
  <2>1. /\ limiter' = [limiter EXCEPT ![b] = Failed(b)]
        /\ tried' = [tried EXCEPT ![b] = @ \cup {<<0, Cardinality(@)>>}]
    BY <1>4 DEF WrongPassword
  <2>2. CASE a = b
    <3>1. limiter'[a] = Failed(a) /\ x \in tried'[a]
      BY <2>1, <2>2
    <3>2. limiter'[a].left = loginWindow
      BY <3>1 DEF Failed
    <3>3. x[1] = loginWindow - loginWindow
      OBVIOUS
    <3> QED BY <3>1, <3>2, <3>3 DEF Tied
  <2>3. CASE a # b
    BY <1>1, <2>1, <2>3
  <2> QED BY <2>2, <2>3
<1>5. ASSUME NEW r \in Logins, Reset(r)
      PROVE  limiter'[a].left = Past \/ (limiter'[a] = limiter[a] /\ tried'[a] = tried[a])
  BY <1>5 DEF Reset, Fresh
<1>6. ASSUME Tick PROVE Tied(a)'
  <2>1. /\ limiter'[a] = IF limiter[a].left = Past THEN limiter[a]
                         ELSE [limiter[a] EXCEPT !.left = @ - 1]
        /\ tried'[a] = Aged(tried[a])
    BY <1>6 DEF Tick
  <2>2. limiter[a].left \in Past .. loginWindow
    OBVIOUS
  <2>3. CASE limiter[a].left \in {Past, 0}
    BY <1>2, <2>1, <2>3 DEF Past
  <2>4. CASE limiter[a].left \notin {Past, 0}
    <3>1. PICK x \in tried[a] : x[1] = loginWindow - limiter[a].left
      BY <2>4 DEF Tied
    <3>2. <<x[1] + 1, x[2]>> \in tried'[a]
      BY <2>1, <2>2, <2>4, <3>1 DEF Aged, Past
    <3>3. limiter'[a].left = limiter[a].left - 1
      BY <2>1, <2>4
    <3>4. x[1] + 1 = loginWindow - limiter'[a].left
      BY <2>2, <3>1, <3>3 DEF Past
    <3> QED BY <3>2, <3>4 DEF Tied
  <2> QED BY <2>3, <2>4
<1>7. CASE Restart
  BY <1>2, <1>7 DEF Restart, Fresh
<1>8. CASE UNCHANGED <<limiter, tried>>
  BY <1>1, <1>8
<1>9. ASSUME NEW r \in Logins, LogIn(r) PROVE Tied(a)'
  <2>1. CASE ReadSettings(r) \/ LeaveLogin(r) \/ RightPassword(r)
    BY <1>8, <2>1 DEF ReadSettings, LeaveLogin, RightPassword, history
  <2> QED BY <1>1, <1>2, <1>3, <1>4, <1>5, <1>9, <2>1 DEF LogIn
<1>10. ASSUME NEW h \in Savers, Change(h) PROVE UNCHANGED <<limiter, tried>>
  BY <1>10 DEF Change, BeginChange, LockSettings, SavePassword, RefreshPassFlag, RevokeSessions, history
<1>11. ASSUME NEW t \in Tokens, Logout(t) PROVE UNCHANGED <<limiter, tried>>
  BY <1>11 DEF Logout, history
<1> QED BY <1>6, <1>7, <1>8, <1>9, <1>10, <1>11 DEF Next, vars, history

\* Nobody is locked out for longer than the window after the last wrong password, and
\* asking again does not make it longer (auth.go, blocked and fail).
THEOREM LockoutSafe == SafeSpec => []LockedByTry
<1> DEFINE AllTied == \A a \in Addresses : Tied(a)
<1>1. Init => AllTied
  BY DEF Init, Tied, Fresh
<1>2. IInv /\ AllTied /\ [Next]_vars => AllTied'
  BY TiedStep DEF IInv
<1>3. AllTied => LockedByTry
  BY DEF Tied, LockedByTry, blocked
<1> QED BY <1>1, <1>2, <1>3, Invariant, PTL DEF SafeSpec

\* When no password change is under way, every session belongs to the password in
\* force, to the one who changed it, or to a login that the change overtook.
THEOREM SessionsSafe == SafeSpec => []SessionsCurrent
<1>1. IInv => SessionsCurrent
  BY LoginAssumption DEF IInv, MutexInv, CurrentInv, Revoking, SessionsCurrent
<1> QED BY <1>1, Invariant, PTL

\* The default password opens the settings only, and a changed one every page,
\* as far as the server could read which of the two it is.
THEOREM DefaultSafe == SafeSpec => []DefaultGuarded
<1>1. IInv => DefaultGuarded
  BY LoginAssumption DEF IInv, SessionType, MutexInv, FlagInv, DefaultGuarded, Serves
<1> QED BY <1>1, Invariant, PTL
=============================================================================
