----------------------------- MODULE AdminServer -----------------------------
(***************************************************************************)
(* The process from its start to its end, the settings table, what the    *)
(* server keeps of it in memory, and the port it listens on.               *)
(*                                                                         *)
(* run opens the database, which brings the schema up to date; a health    *)
(* check, a process of its own, may do the same at the same time.  Then it *)
(* listens, serves, and on a signal shuts the server down, waits for       *)
(* poller and engine, and closes the database.                             *)
(*                                                                         *)
(* A handler that saves settings reads them, merges the form, writes them  *)
(* all back and refreshes the caches, under settingsMu.  A changed port is *)
(* bound half a second later by a goroutine of its own, under mu, which    *)
(* waits at most five seconds for the requests under way - and these may   *)
(* be waiting for mu.                                                      *)
(*                                                                         *)
(* Two settings stand for all: the port, and origins, of which the server  *)
(* keeps a cache.                                                          *)
(***************************************************************************)
EXTENDS Naturals, FiniteSets

CONSTANTS
  Handlers,    \* bound: requests under way at the same time
  Movers,      \* bound: goroutines that rebind, at the same time
  Main,        \* the goroutine of run
  None,
  Ports,       \* the ports operators choose from
  EnvPort,     \* F2A_PORT
  Values,      \* the values of the other settings
  FirstValue,  \* their default
  Schema,      \* how many migrations there are
  MaxSaves, MaxTakes, MaxErrors, MaxEnds  \* bounds

ASSUME AdminServerAssumption ==
  /\ EnvPort \in Ports /\ FirstValue \in Values
  /\ None \notin Handlers \cup Movers \cup Ports \cup Values \cup {Main} /\ Main \notin Movers
  /\ Ports \subseteq Nat \ {0} /\ IsFiniteSet(Movers) /\ Schema \in Nat
  /\ MaxSaves \in Nat /\ MaxTakes \in Nat /\ MaxErrors \in Nat /\ MaxEnds \in Nat

VARIABLES
  stage,      \* how far run is
  version,    \* PRAGMA user_version
  columns,    \* the migrations whose statements the tables show
  seen,       \* how far run is with the migrations
  checker,    \* how far a health check is with them, or None
  table,      \* the settings table
  origins,    \* the cache: s.allowedOrigins
  settingsMu, \* who holds it
  handler,    \* the saves under way: [pc, form, copy, from, old, crossed]
  mu,         \* who holds s.mu
  port,       \* s.port; 0 without a server
  accepting,  \* the listener of s.srv is open
  mover,      \* the goroutines that call Rebind: [pc, to, from]
  taken,      \* ports other processes listen on
  meant,      \* history: what was last saved, setting by setting
  stale,      \* history: a refresh of the cache could not read the table
  refused,    \* history: the last port that was asked for could not be bound
  overtaken,  \* history: the last save came while a rebind was pending
  deaf,       \* history: a rebind found neither its new port nor the old one free
  hurried,    \* history: Shutdown gave up waiting, or a listener was opened after it
  saves, takes, errors, ends

config  == <<table, meant>>
schema  == <<version, columns, seen, checker>>
serving == <<mu, port, accepting, mover>>
saving  == <<settingsMu, handler>>
flags   == <<stale, refused, overtaken, deaf, hurried>>
bounds  == <<saves, takes, errors, ends>>
vars == <<stage, schema, config, origins, serving, saving, taken, flags, bounds>>

Settings == [port : Ports, origins : Values]
Defaults == [port |-> EnvPort, origins |-> FirstValue]
NoForm   == [port |-> None, origins |-> None]
Forms    == [port : Ports \cup {None}, origins : Values \cup {None}]
IdleHandler == [pc |-> "idle", form |-> NoForm, copy |-> Defaults, from |-> 0,
                old |-> FALSE, crossed |-> FALSE]
Rendering   == [IdleHandler EXCEPT !.pc = "render"]
IdleMover   == [pc |-> "idle", to |-> EnvPort, from |-> 0]

TypeOK ==
  /\ stage \in {"down", "migrate", "serve", "signalled", "shut", "unwind", "closed"}
  /\ version \in 0 .. Schema /\ columns \subseteq 1 .. Schema
  /\ seen \in 0 .. Schema /\ checker \in (0 .. Schema) \cup {None}
  /\ table \in Settings /\ meant \in Settings /\ origins \in Values
  /\ settingsMu \in Handlers \cup {None}
  /\ handler \in [Handlers -> [pc : {"idle", "lock", "read", "write", "import", "refresh", "renew", "render"},
                               form : Forms, copy : Settings, from : Ports \cup {0},
                               old : BOOLEAN, crossed : BOOLEAN]]
  /\ mu \in Movers \cup {Main, None} /\ port \in Ports \cup {0}
  /\ mover \in [Movers -> [pc : {"idle", "sleep", "shut", "listen", "back"},
                           to : Ports, from : Ports \cup {0}]]
  /\ taken \subseteq Ports /\ (accepting => port \in Ports \ taken)
  /\ {accepting, stale, refused, overtaken, deaf, hurried} \subseteq BOOLEAN

\* The file of some version of the program, or none; the settings are those that
\* Bootstrap finds there or puts there.
Init ==
  /\ stage = "down" /\ version \in 0 .. Schema /\ columns = 1 .. version
  /\ seen = 0 /\ checker = None
  /\ table = Defaults /\ meant = Defaults /\ origins = FirstValue
  /\ settingsMu = None /\ handler = [h \in Handlers |-> IdleHandler]
  /\ mu = None /\ port = 0 /\ accepting = FALSE /\ mover = [m \in Movers |-> IdleMover]
  /\ taken = {}
  /\ stale = FALSE /\ refused = FALSE /\ overtaken = FALSE /\ deaf = FALSE /\ hurried = FALSE
  /\ saves = 0 /\ takes = 0 /\ errors = 0 /\ ends = 0

\* Goroutines are alike, so it does not matter which slot the next one takes.
AnyOf(S) == CHOOSE x \in S : TRUE

\* A statement fails: it may at any time, and must once the database is closed.
Fails == IF stage = "closed" THEN UNCHANGED errors ELSE errors < MaxErrors /\ errors' = errors + 1
Works == stage # "closed" /\ UNCHANGED errors

-----------------------------------------------------------------------------
\* Seeded bugs, each put in the place of a definition below.
Unlocked(h) == TRUE
PortOfTable == table.port
ListenOldNot(m) == port' = 0
RebindAwaitsAll(m) == \A h \in Handlers : handler[h].pc = "idle"
NeverGivesUp == FALSE
CloseAtOnce == TRUE
AppliesAgain(next) == TRUE
-----------------------------------------------------------------------------
(* store.Open: the migrations *)

\* The statements of a migration fail where their tables or columns are there already.
Applies(next) == next \notin columns

\* One migration, in a transaction that sets user_version as well.
Migration(next) == /\ Applies(next) /\ Works
                   /\ columns' = columns \cup {next} /\ version' = next

\* The process is started (again: restart: unless-stopped) and reads user_version.
Start ==
  /\ stage = "down"
  /\ stage' = "migrate" /\ seen' = version
  /\ UNCHANGED <<version, columns, checker, config, origins, serving, saving, taken, flags, bounds>>

Migrate ==
  /\ stage = "migrate" /\ seen < Schema
  /\ \/ Migration(seen + 1) /\ seen' = seen + 1 /\ UNCHANGED stage
     \/ /\ (~Applies(seen + 1) /\ UNCHANGED errors) \/ Fails
        /\ stage' = "down" /\ seen' = 0 /\ UNCHANGED <<version, columns>>
  /\ UNCHANGED <<checker, config, origins, serving, saving, taken, flags, saves, takes, ends>>

\* The health check opens a database that is there in the same way; where that fails
\* it goes on without.  What it does with a schema that is up to date is only read.
BeginCheck ==
  /\ checker = None /\ version < Schema /\ (version > 0 \/ stage = "migrate")
  /\ checker' = version
  /\ UNCHANGED <<stage, version, columns, seen, config, origins, serving, saving, taken, flags, bounds>>

Check ==
  /\ checker # None
  /\ \/ checker < Schema /\ Migration(checker + 1) /\ checker' = checker + 1
     \/ /\ checker = Schema \/ ~Applies(checker + 1)
        /\ checker' = None /\ UNCHANGED <<version, columns, errors>>
  /\ UNCHANGED <<stage, seen, config, origins, serving, saving, taken, flags, saves, takes, ends>>

-----------------------------------------------------------------------------
(* handleSettingsSave and handleImport *)

SettingsMuFree(h) == settingsMu = None

\* A request arrives.  A form changes the settings it has fields for.
Request(h) ==
  /\ accepting /\ handler[h].pc = "idle" /\ h = AnyOf({g \in Handlers : handler[g].pc = "idle"})
  /\ saves < MaxSaves /\ saves' = saves + 1
  /\ \E form \in Forms \ {NoForm} :
       handler' = [handler EXCEPT ![h].pc = "lock", ![h].form = form]
  /\ UNCHANGED <<stage, schema, config, origins, serving, settingsMu, taken, flags, takes, errors, ends>>

\* What has no port may be an import, which does not read first.
Lock(h) ==
  /\ handler[h].pc = "lock" /\ SettingsMuFree(h)
  /\ settingsMu' = h
  /\ \E pc \in {"read", "import"} :
       /\ pc = "import" => handler[h].form.port = None
       /\ handler' = [handler EXCEPT ![h].pc = pc]
  /\ UNCHANGED <<stage, schema, config, origins, serving, taken, flags, bounds>>

\* The unlock, and the end of the request.
Done(h) ==
  /\ settingsMu' = None
  /\ handler' = [handler EXCEPT ![h] = IdleHandler]

\* s.Port: not what the table says, but where the server listens.
Port == port

Moving == {m \in Movers : mover[m].pc # "idle"}

Overlay(settings, form) ==
  [port    |-> IF form.port = None THEN settings.port ELSE form.port,
   origins |-> IF form.origins = None THEN settings.origins ELSE form.origins]

\* store.Settings, the checks of the form, and s.Port, which needs mu.
ReadSettings(h) ==
  /\ handler[h].pc = "read"
  /\ \/ /\ mu = None /\ Works
        /\ handler' = [handler EXCEPT ![h] = [@ EXCEPT !.pc = "write", !.copy = table, !.from = Port,
                                                        !.crossed = Moving # {}]]
        /\ UNCHANGED settingsMu
     \/ /\ Works /\ handler' = [handler EXCEPT ![h] = [Rendering EXCEPT !.old = handler[h].old]]
        /\ UNCHANGED settingsMu
     \/ Fails /\ Done(h)
  /\ UNCHANGED <<stage, schema, config, origins, serving, taken, flags, saves, takes, ends>>

\* SaveSettings writes all settings, ReplaceConfig those of the file, each in one
\* transaction.
WriteSettings(h) ==
  /\ handler[h].pc \in {"write", "import"}
  /\ \/ /\ Works
        /\ table' = Overlay(IF handler[h].pc = "write" THEN handler[h].copy ELSE table, handler[h].form)
        /\ meant' = Overlay(meant, handler[h].form)
        /\ handler' = [handler EXCEPT ![h] = [@ EXCEPT
                          !.pc = IF handler[h].pc = "write" THEN "refresh" ELSE "renew",
                          !.copy = table']]
        /\ UNCHANGED settingsMu
     \/ Fails /\ Done(h) /\ UNCHANGED config
  /\ UNCHANGED <<stage, schema, origins, serving, taken, flags, saves, takes, ends>>

\* What refreshOriginPolicy puts into the cache when it can read the table.
Refreshed(h) == table.origins

RefreshOrigins(h) == \/ Works /\ origins' = Refreshed(h) /\ stale' = FALSE
                     \/ Fails /\ origins' = FirstValue /\ stale' = TRUE

\* The caches, the last step of an import.
Renew(h) ==
  /\ handler[h].pc = "renew"
  /\ RefreshOrigins(h) /\ Done(h)
  /\ UNCHANGED <<stage, schema, config, serving, taken, refused, overtaken, deaf, hurried,
                 saves, takes, ends>>

\* The caches; then a new port is left to a goroutine, and the page says so, or the
\* browser is sent elsewhere and the request is over.
Answer(h) ==
  /\ handler[h].pc = "refresh"
  /\ RefreshOrigins(h)
  /\ IF handler[h].copy.port # handler[h].from
       THEN /\ Moving # Movers
            /\ mover' = [mover EXCEPT ![AnyOf(Movers \ Moving)] =
                            [pc |-> "sleep", to |-> handler[h].copy.port, from |-> 0]]
            /\ handler' = [handler EXCEPT ![h] = [Rendering EXCEPT !.old = handler[h].old]]
            /\ UNCHANGED settingsMu
       ELSE Done(h) /\ UNCHANGED mover
  /\ refused' = IF handler[h].form.port # None THEN FALSE ELSE refused
  /\ overtaken' = handler[h].crossed
  /\ UNCHANGED <<stage, schema, config, mu, port, accepting, taken, deaf, hurried, saves, takes, ends>>

\* renderSettings asks s.Port again, with settingsMu still held.
Render(h) ==
  /\ handler[h].pc = "render" /\ mu = None
  /\ Done(h)
  /\ UNCHANGED <<stage, schema, config, origins, serving, taken, flags, bounds>>

-----------------------------------------------------------------------------
(* Rebind *)

\* The goroutine gets mu; there may be nothing to do.  Otherwise the old server is
\* shut down, which closes its listener first.
Rebind(m) ==
  /\ mover[m].pc = "sleep" /\ mu = None
  /\ IF mover[m].to = port \/ port = 0
       THEN mover' = [mover EXCEPT ![m] = IdleMover] /\ UNCHANGED <<mu, accepting>>
       ELSE /\ mover' = [mover EXCEPT ![m].pc = "shut", ![m].from = port]
            /\ mu' = m /\ accepting' = FALSE
  /\ refused' = (refused \/ port = 0)
  /\ UNCHANGED <<stage, schema, config, origins, port, saving, taken, stale, overtaken, deaf, hurried,
                 bounds>>

\* http.Server.Shutdown has seen the last request off, or its five seconds are over.
ShutdownReturns(m) == TRUE

\* The requests still under way are left to themselves.
CloseOld(m) ==
  /\ mover[m].pc = "shut" /\ ShutdownReturns(m)
  /\ port' = 0
  /\ mover' = [mover EXCEPT ![m].pc = "listen"]
  /\ handler' = [h \in Handlers |-> [handler[h] EXCEPT !.old = handler[h].pc # "idle"]]
  /\ UNCHANGED <<stage, schema, config, origins, mu, accepting, settingsMu, taken, flags, bounds>>

Unbound(m) == mover' = [mover EXCEPT ![m] = IdleMover] /\ mu' = None

TooLate == stage \in {"unwind", "closed"}

ListenNew(m) ==
  /\ mover[m].pc = "listen"
  /\ IF mover[m].to \notin taken
       THEN /\ port' = mover[m].to /\ accepting' = TRUE /\ Unbound(m)
            /\ hurried' = (hurried \/ TooLate) /\ UNCHANGED refused
       ELSE /\ mover' = [mover EXCEPT ![m].pc = "back"] /\ refused' = TRUE
            /\ UNCHANGED <<port, accepting, mu, hurried>>
  /\ UNCHANGED <<stage, schema, config, origins, saving, taken, stale, overtaken, deaf, bounds>>

\* The way back: the old port, if nobody has taken it meanwhile.
ListenOld(m) == port' = IF mover[m].from \in taken THEN 0 ELSE mover[m].from

RollBack(m) ==
  /\ mover[m].pc = "back"
  /\ ListenOld(m) /\ accepting' = (port' # 0) /\ Unbound(m)
  /\ deaf' = (mover[m].from \in taken)
  /\ hurried' = (hurried \/ TooLate)
  /\ UNCHANGED <<stage, schema, config, origins, saving, taken, stale, refused, overtaken, bounds>>

-----------------------------------------------------------------------------
(* run, from the open database to its end *)

\* Bootstrap overwrites no setting that is there.
Bootstrap == UNCHANGED table

\* Bootstrap, the settings, the engine and the poller, web.New with the first reading
\* of the cache, Server.Start on the port of the table; without the settings or the
\* port the process ends.  A health check still at work has nothing left to migrate.
Boot ==
  /\ stage = "migrate" /\ seen = Schema /\ seen' = 0
  /\ Bootstrap
  /\ \/ /\ Fails \/ (table'.port \in taken /\ Works)
        /\ stage' = "down" /\ UNCHANGED <<port, accepting, origins, stale>>
     \/ /\ table'.port \notin taken
        /\ stage' = "serve" /\ port' = table'.port /\ accepting' = TRUE
        /\ \/ Works /\ origins' = table'.origins /\ UNCHANGED stale
           \/ Fails /\ origins' = FirstValue /\ stale' = TRUE
  /\ checker' = None
  /\ UNCHANGED <<version, columns, meant, mu, mover, saving, taken, refused, overtaken, deaf,
                 hurried, saves, takes, ends>>

Signal ==
  /\ stage = "serve" /\ stage' = "signalled"
  /\ ends < MaxEnds /\ ends' = ends + 1
  /\ UNCHANGED <<schema, config, origins, serving, saving, taken, flags, saves, takes, errors>>

\* Server.Shutdown gets mu; there may be no server.
BeginShutdown ==
  /\ stage = "signalled" /\ mu = None
  /\ IF port = 0 THEN stage' = "unwind" /\ UNCHANGED <<mu, accepting>>
     ELSE stage' = "shut" /\ mu' = Main /\ accepting' = FALSE
  /\ UNCHANGED <<schema, config, origins, port, mover, saving, taken, flags, bounds>>

\* No request of the server that is shut down is under way any more.
AllServed == \A h \in Handlers : handler[h].pc = "idle" \/ handler[h].old

\* The ten seconds of shutCtx.
GivesUp == TRUE

EndShutdown ==
  /\ stage = "shut" /\ stage' = "unwind" /\ mu' = None
  /\ \/ AllServed /\ UNCHANGED hurried
     \/ GivesUp /\ hurried' = TRUE
  /\ UNCHANGED <<schema, config, origins, port, accepting, mover, saving, taken,
                 stale, refused, overtaken, deaf, bounds>>

\* The deferred calls: poller.Stop, eng.Stop, and st.Close.
Unwind ==
  /\ stage = "unwind" /\ stage' = "closed"
  /\ UNCHANGED <<schema, config, origins, serving, saving, taken, flags, bounds>>

\* What is in memory is gone.
Gone ==
  /\ stage' = "down" /\ seen' = 0 /\ port' = 0 /\ accepting' = FALSE /\ mu' = None
  /\ mover' = [m \in Movers |-> IdleMover]
  /\ settingsMu' = None /\ handler' = [h \in Handlers |-> IdleHandler]
  /\ origins' = FirstValue
  /\ stale' = FALSE /\ refused' = FALSE /\ overtaken' = FALSE /\ deaf' = FALSE /\ hurried' = FALSE
  /\ UNCHANGED <<version, columns, checker, config, taken, saves, takes, errors>>

Exit  == stage = "closed" /\ Gone /\ UNCHANGED ends
Crash == stage # "down" /\ Gone /\ ends < MaxEnds /\ ends' = ends + 1

\* Other processes begin to listen on these ports, or end.
Take(ports) ==
  /\ takes < MaxTakes /\ takes' = takes + 1
  /\ ports # taken /\ (accepting => port \notin ports)
  /\ taken' = ports
  /\ UNCHANGED <<stage, schema, config, origins, serving, saving, flags, saves, errors, ends>>

-----------------------------------------------------------------------------
Save(h) == Lock(h) \/ ReadSettings(h) \/ WriteSettings(h) \/ Renew(h) \/ Answer(h) \/ Render(h)
Move(m) == Rebind(m) \/ CloseOld(m) \/ ListenNew(m) \/ RollBack(m)
Run     == Start \/ Migrate \/ Boot \/ BeginShutdown \/ EndShutdown \/ Unwind \/ Exit

Next ==
  \/ \E h \in Handlers : Request(h) \/ Save(h)
  \/ \E m \in Movers : Move(m)
  \/ \E ports \in SUBSET Ports : Take(ports)
  \/ Run \/ Signal \/ Crash
  \/ BeginCheck \/ Check

SafeSpec == Init /\ [][Next]_vars

\* Handlers, goroutines and run go on; Go's mutexes are fair, so one that is free
\* again and again is had.  A process that ended is started again.
Spec == /\ SafeSpec
        /\ SF_vars(\E h \in Handlers : Save(h))
        /\ SF_vars(\E m \in Movers : Move(m))
        /\ SF_vars(Run)
-----------------------------------------------------------------------------
(* Properties *)

\* No save undoes what another one saved: comment on settingsMu, "丢更新".
NoLostUpdate == table = meant

Serving == stage \in {"serve", "signalled"}

\* Between saves the cache agrees with the table, unless the table could not be read.
CacheFresh == Serving /\ settingsMu = None /\ ~stale => origins = table.origins

\* When the saves are done with, the server listens where the table says, unless the
\* port could not be bound or one save overtook the rebind of another.
PortFollows ==
  Serving /\ settingsMu = None /\ Moving = {} /\ ~refused /\ ~overtaken => port = table.port

\* What the process holds in memory follows what is saved.
MemoryFollows == CacheFresh /\ PortFollows

\* Two processes that bring the schema up to date at once leave it whole: the tables
\* show exactly the migrations user_version counts (store.go:28).
SchemaWhole == columns = 1 .. version

\* When the database is closed nobody uses it any more, unless Shutdown ran out of
\* time, a rebind opened a listener after it, or an earlier rebind left a request of
\* the old server behind (main.go:160, server.go:236).
Drained ==
  stage = "closed" /\ ~hurried =>
    ~accepting /\ \A h \in Handlers : handler[h].old \/ handler[h].pc = "idle"

\* Each mutex is held by the one goroutine that is in its section: nobody enters
\* without it, and nobody leaves with it, whatever fails (settings.go:68, server.go:229).
LocksHeld ==
  /\ \A h \in Handlers : settingsMu = h <=> handler[h].pc \notin {"idle", "lock"}
  /\ \A m \in Movers : mu = m <=> mover[m].pc \notin {"idle", "sleep"}
  /\ mu = Main <=> stage = "shut"

\* The server accepts requests again and again: a port that cannot be bound leaves it
\* at the old one, a crash or a signal is followed by a start.  Excepted are a rebind
\* that lost both ports, and all the time another process keeps the port of the table:
\* a start cannot have it then, and a save of such a port that is rolled back is
\* vouched for only once a later save has chosen another.
Reachable == []<>(accepting \/ table.port \in taken \/ deaf)

\* Every save is answered, although it may need mu while Rebind or Shutdown holds it
\* and waits for the requests under way.
Answered == \A h \in Handlers : handler[h].pc # "idle" ~> handler[h].pc = "idle"

\* A process that is told to stop does: Shutdown waits for requests that wait for
\* its lock, but not for ever.
Exits == stage = "signalled" ~> stage = "down"
=============================================================================
