----------------------------- MODULE AdminProofs -----------------------------
(***************************************************************************)
(* The safety properties of AdminServer, for any number of requests,       *)
(* rebinds, ports, failures, crashes and migrations.                       *)
(***************************************************************************)
EXTENDS AdminServer, TLAPS

Requests == [pc : {"idle", "lock", "read", "write", "import", "refresh", "renew", "render"},
             form : Forms, copy : Settings, from : Ports \cup {0}, old : BOOLEAN, crossed : BOOLEAN]
HandlerType ==
  /\ table \in Settings /\ port \in Ports \cup {0}
  /\ handler \in [Handlers -> Requests]
  /\ mover \in [Movers -> [pc : {"idle", "sleep", "shut", "listen", "back"},
                           to : Ports, from : Ports \cup {0}]]

\* Past Lock a request holds settingsMu.
LockInv ==
  \A h \in Handlers :
    handler[h].pc \in {"read", "write", "import", "refresh", "renew", "render"} => settingsMu = h

\* What a save has read is still in the table when it writes.
CopyInv ==
  /\ table = meant
  /\ \A h \in Handlers :
       /\ handler[h].pc \in {"write", "refresh"} => handler[h].copy = table
       /\ handler[h].pc = "import" => handler[h].form.port = None

\* No process is ahead of the version in the file.
SchemaInv ==
  /\ version \in Nat /\ seen \in Nat
  /\ columns = 1 .. version /\ seen <= version
  /\ checker # None => checker \in Nat /\ checker <= version

Quiet == \A h \in Handlers : handler[h].pc = "idle" \/ handler[h].old

\* Who holds mu, what it means for the listener, and whose requests are left.
ServeInv ==
  /\ stage \in {"down", "migrate"} =>
       /\ port = 0 /\ ~accepting /\ mu = None
       /\ \A m \in Movers : mover[m].pc = "idle"
       /\ \A h \in Handlers : handler[h].pc = "idle"
  /\ stage = "shut" => mu = Main /\ ~accepting
  /\ \A m \in Movers : /\ mover[m].pc \in {"shut", "listen", "back"} => mu = m /\ ~accepting
                       /\ mover[m].pc \in {"listen", "back"} => port = 0
  /\ accepting => port # 0
  /\ port = 0 => Quiet
  /\ TooLate /\ ~hurried => ~accepting /\ Quiet

\* The cache agrees with the table, unless a request is between its write and its refresh.
CacheInv ==
  (/\ stage \notin {"down", "migrate"} /\ ~stale
   /\ \A h \in Handlers : handler[h].pc \notin {"refresh", "renew"}) => origins = table.origins

\* A save that met no rebind knows the port; what rebinds are pending go to the port of the table.
PortInv ==
  /\ \A h \in Handlers : (handler[h].pc \in {"write", "refresh"} /\ ~handler[h].crossed) =>
       /\ handler[h].from = port
       /\ \A m \in Movers : mover[m].pc = "idle"
  /\ (Serving /\ ~refused /\ ~overtaken /\ \A h \in Handlers : handler[h].pc # "refresh") =>
       /\ (\A m \in Movers : mover[m].pc = "idle") => port = table.port
       /\ \A m \in Movers : mover[m].pc # "idle" => mover[m].to = table.port
  /\ (Serving /\ \E m \in Movers : mover[m].pc = "back") => refused \/ overtaken

IInv == HandlerType /\ LockInv /\ CopyInv /\ SchemaInv /\ ServeInv /\ CacheInv /\ PortInv

\* Next, action by action.
LEMMA NextCases ==
  ASSUME Next
  PROVE  \/ Start \/ Migrate \/ BeginCheck \/ Check
         \/ \E h \in Handlers : Request(h) \/ Lock(h) \/ ReadSettings(h) \/ WriteSettings(h)
                                \/ Renew(h) \/ Answer(h) \/ Render(h)
         \/ \E m \in Movers : Rebind(m) \/ CloseOld(m) \/ ListenNew(m) \/ RollBack(m)
         \/ Boot \/ Signal \/ BeginShutdown \/ EndShutdown \/ Unwind \/ Gone
         \/ \E ports \in SUBSET Ports : Take(ports)
  BY DEF Next, Save, Move, Run, Exit, Crash

\* A slot is chosen among the ones that are free.
LEMMA AnyFree ==
  ASSUME Moving # Movers
  PROVE  AnyOf(Movers \ Moving) \in Movers \ Moving
<1>1. \E m : m \in Movers \ Moving
  BY DEF Moving
<1> QED BY <1>1 DEF AnyOf

\* What a merge of settings and a form is.
LEMMA OverlayType ==
  ASSUME NEW s \in Settings, NEW f \in Forms
  PROVE  Overlay(s, f) \in Settings
  BY DEF Settings, Forms, Overlay

\* What a request is after it has read, and after it has written.
LEMMA RequestRead ==
  ASSUME NEW r \in Requests, NEW s \in Settings, NEW p \in Ports \cup {0}, NEW b \in BOOLEAN
  PROVE  [r EXCEPT !.pc = "write", !.copy = s, !.from = p, !.crossed = b] \in Requests
  BY DEF Requests

LEMMA RequestWritten ==
  ASSUME NEW r \in Requests, NEW s \in Settings, NEW pc \in {"refresh", "renew"}
  PROVE  [r EXCEPT !.pc = pc, !.copy = s] \in Requests
  BY DEF Requests

\* The requests, the goroutines and the table keep their types.
LEMMA HandlerStep ==
  ASSUME HandlerType, [Next]_vars
  PROVE  HandlerType'
<1> USE AdminServerAssumption DEF HandlerType, config, schema, serving, saving, flags, bounds,
    IdleMover, Done
<1>1. CASE UNCHANGED <<table, port, handler, mover>>
  BY <1>1
<1>2. ASSUME UNCHANGED vars \/ Start \/ Migrate \/ BeginCheck \/ Check \/ Signal \/ BeginShutdown
             \/ EndShutdown \/ Unwind \/ \E ports \in SUBSET Ports : Take(ports)
      PROVE  UNCHANGED <<table, port, handler, mover>>
  BY <1>2 DEF vars, Start, Migrate, BeginCheck, Check, Signal, BeginShutdown, EndShutdown, Unwind, Take
<1>3. IdleHandler \in Requests
  BY DEF NoForm, Forms, Defaults, Settings, IdleHandler, Requests
<1>4. ASSUME NEW h \in Handlers PROVE [Rendering EXCEPT !.old = handler[h].old] \in Requests
  BY <1>3 DEF Rendering, Requests
<1>5. ASSUME NEW h \in Handlers, NEW r \in Requests, handler' = [handler EXCEPT ![h] = r]
      PROVE  handler' \in [Handlers -> Requests]
  BY <1>5
<1>6. ASSUME NEW h \in Handlers, Request(h) PROVE HandlerType'
  BY <1>6 DEF Request, Requests
<1>7. ASSUME NEW h \in Handlers, Lock(h) PROVE HandlerType'
  BY <1>7 DEF Lock, Requests
<1>8. ASSUME NEW h \in Handlers, ReadSettings(h) PROVE HandlerType'
  <2>1. CASE handler' = [handler EXCEPT ![h] = [@ EXCEPT !.pc = "write", !.copy = table, !.from = Port,
                                                        !.crossed = Moving # {}]]
    <3>1. PICK b \in BOOLEAN : b = (Moving # {})
      OBVIOUS
    <3>2. [handler[h] EXCEPT !.pc = "write", !.copy = table, !.from = port, !.crossed = b] \in Requests
      BY RequestRead
    <3>3. handler' = [handler EXCEPT ![h] = [handler[h] EXCEPT !.pc = "write", !.copy = table,
                                                !.from = port, !.crossed = b]]
      BY <2>1, <3>1, Zenon DEF Port
    <3> QED BY <1>5, <1>8, <3>2, <3>3 DEF ReadSettings
  <2>2. CASE handler' = [handler EXCEPT ![h] = [Rendering EXCEPT !.old = handler[h].old]]
    BY <1>4, <1>5, <1>8, <2>2 DEF ReadSettings
  <2>3. CASE Done(h)
    BY <1>3, <1>5, <1>8, <2>3 DEF ReadSettings
  <2> QED BY <1>8, <2>1, <2>2, <2>3 DEF ReadSettings
<1>9. ASSUME NEW h \in Handlers, WriteSettings(h) PROVE HandlerType'
  <2>1. CASE UNCHANGED config /\ Done(h)
    BY <1>3, <1>5, <1>9, <2>1 DEF WriteSettings
  <2>2. CASE /\ table' = Overlay(IF handler[h].pc = "write" THEN handler[h].copy ELSE table, handler[h].form)
             /\ handler' = [handler EXCEPT ![h] = [@ EXCEPT
                               !.pc = IF handler[h].pc = "write" THEN "refresh" ELSE "renew", !.copy = table']]
    <3>1. table' \in Settings
      BY <2>2, OverlayType DEF Requests
    <3> DEFINE p == IF handler[h].pc = "write" THEN "refresh" ELSE "renew"
    <3>2. p \in {"refresh", "renew"}
      OBVIOUS
    <3>3. [handler[h] EXCEPT !.pc = p, !.copy = table'] \in Requests
      <4> HIDE DEF p
      <4> QED BY <3>1, <3>2, RequestWritten
    <3>4. handler' = [handler EXCEPT ![h] = [handler[h] EXCEPT !.pc = p, !.copy = table']]
      BY <2>2
    <3> QED BY <1>5, <1>9, <3>1, <3>3, <3>4 DEF WriteSettings
  <2> QED BY <1>9, <2>1, <2>2 DEF WriteSettings
<1>10. ASSUME NEW h \in Handlers, Renew(h) PROVE HandlerType'
  BY <1>3, <1>5, <1>10 DEF Renew
<1>11. ASSUME NEW h \in Handlers, Answer(h) PROVE HandlerType'
  <2>1. handler' \in [Handlers -> Requests]
    BY <1>3, <1>4, <1>5, <1>11 DEF Answer
  <2>2. CASE UNCHANGED mover
    BY <1>11, <2>1, <2>2 DEF Answer
  <2>3. CASE /\ Moving # Movers
             /\ mover' = [mover EXCEPT ![AnyOf(Movers \ Moving)] =
                            [pc |-> "sleep", to |-> handler[h].copy.port, from |-> 0]]
    <3>1. handler[h].copy.port \in Ports
      BY DEF Requests, Settings
    <3> QED BY <1>11, <2>1, <2>3, <3>1, AnyFree DEF Answer
  <2> QED BY <1>11, <2>2, <2>3 DEF Answer
<1>12. ASSUME NEW h \in Handlers, Render(h) PROVE HandlerType'
  BY <1>3, <1>5, <1>12 DEF Render
<1>13. ASSUME NEW m \in Movers, Rebind(m) PROVE HandlerType'
  BY <1>13 DEF Rebind
<1>14. ASSUME NEW m \in Movers, CloseOld(m) PROVE HandlerType'
  <2>1. ASSUME NEW h \in Handlers PROVE [handler[h] EXCEPT !.old = handler[h].pc # "idle"] \in Requests
    <3>1. PICK b \in BOOLEAN : b = (handler[h].pc # "idle")
      OBVIOUS
    <3>2. [handler[h] EXCEPT !.old = b] \in Requests
      BY DEF Requests
    <3> QED BY <3>1, <3>2, Zenon
  <2> QED BY <1>14, <2>1 DEF CloseOld
<1>15. ASSUME NEW m \in Movers, ListenNew(m) PROVE HandlerType'
  BY <1>15 DEF ListenNew, Unbound
<1>16. ASSUME NEW m \in Movers, RollBack(m) PROVE HandlerType'
  BY <1>16 DEF RollBack, ListenOld, Unbound
<1>17. CASE Boot
  BY <1>17 DEF Boot, Bootstrap, Settings
<1>18. CASE Gone
  BY <1>3, <1>18 DEF Gone
<1> QED BY <1>1, <1>2, <1>6, <1>7, <1>8, <1>9, <1>10, <1>11, <1>12, <1>13, <1>14, <1>15,
           <1>16, <1>17, <1>18, NextCases

\* What the steps of a save, and CloseOld, make of the requests.
LEMMA Others ==
  ASSUME HandlerType, NEW h \in Handlers, NEW r, handler' = [handler EXCEPT ![h] = r]
  PROVE  handler'[h] = r /\ \A g \in Handlers \ {h} : handler'[g] = handler[g]
  BY DEF HandlerType

LEMMA Rendered ==
  ASSUME HandlerType, NEW h \in Handlers,
         handler' = [handler EXCEPT ![h] = [Rendering EXCEPT !.old = handler[h].old]]
  PROVE  /\ handler'[h].pc = "render" /\ handler'[h].old = handler[h].old
         /\ \A g \in Handlers \ {h} : handler'[g] = handler[g]
<1>1. handler'[h] = [Rendering EXCEPT !.old = handler[h].old]
  BY DEF HandlerType
<1>2. \A g \in Handlers \ {h} : handler'[g] = handler[g]
  BY DEF HandlerType
<1>3. IdleHandler \in Requests
  BY AdminServerAssumption DEF NoForm, Forms, Defaults, Settings, IdleHandler, Requests
<1>4. Rendering \in Requests /\ Rendering.pc = "render"
  BY <1>3 DEF Rendering, Requests
<1>5. handler'[h].pc = "render" /\ handler'[h].old = handler[h].old
  BY <1>1, <1>4 DEF Requests
<1> QED BY <1>2, <1>5

LEMMA DoneEffect ==
  ASSUME HandlerType, NEW h \in Handlers, Done(h)
  PROVE  /\ handler'[h].pc = "idle" /\ settingsMu' = None
         /\ \A g \in Handlers \ {h} : handler'[g] = handler[g]
  BY DEF Done, IdleHandler, HandlerType

LEMMA RequestEffect ==
  ASSUME HandlerType, NEW h \in Handlers, Request(h) \/ Lock(h)
  PROVE  /\ \A g \in Handlers \ {h} : handler'[g] = handler[g]
         /\ handler'[h].pc \in {"lock", "read", "import"} /\ handler'[h].old = handler[h].old
         /\ handler[h].pc \in {"idle", "lock"} /\ (handler[h].pc = "idle" => accepting)
         /\ handler'[h].pc # "lock" => settingsMu = None /\ settingsMu' = h
         /\ handler'[h].pc = "lock" => UNCHANGED settingsMu
         /\ handler'[h].pc = "import" => handler'[h].form.port = None
<1> USE DEF HandlerType
<1>1. handler[h] \in Requests
  OBVIOUS
<1>2. CASE Request(h)
  <2>1. PICK form \in Forms :
          handler' = [handler EXCEPT ![h] = [handler[h] EXCEPT !.pc = "lock", !.form = form]]
    BY ZenonT(40), <1>2 DEF Request
  <2> QED BY <1>1, <1>2, <2>1 DEF Request, Requests, saving
<1>3. CASE Lock(h)
  <2>1. PICK pc \in {"read", "import"} :
          /\ pc = "import" => handler[h].form.port = None
          /\ handler' = [handler EXCEPT ![h] = [handler[h] EXCEPT !.pc = pc]]
    BY <1>3 DEF Lock
  <2> QED BY <1>1, <1>3, <2>1 DEF Lock, SettingsMuFree, Requests
<1> QED BY <1>2, <1>3

LEMMA ReadEffect ==
  ASSUME HandlerType, NEW h \in Handlers, ReadSettings(h)
  PROVE  /\ \A g \in Handlers \ {h} : handler'[g] = handler[g]
         /\ handler[h].pc = "read" /\ UNCHANGED <<stage, schema, config, origins, serving, flags>>
         /\ \/ /\ handler'[h].pc = "write" /\ UNCHANGED settingsMu
               /\ handler'[h].copy = table /\ handler'[h].from = port
               /\ handler'[h].old = handler[h].old
               /\ ~handler'[h].crossed => Moving = {}
            \/ /\ handler'[h].pc = "render" /\ UNCHANGED settingsMu
               /\ handler'[h].old = handler[h].old
            \/ handler'[h].pc = "idle" /\ settingsMu' = None
<1>1. handler[h] \in Requests
  BY DEF HandlerType
<1>2. CASE /\ UNCHANGED settingsMu
           /\ handler' = [handler EXCEPT ![h] = [@ EXCEPT !.pc = "write", !.copy = table, !.from = Port,
                                                           !.crossed = Moving # {}]]
  <2>1. PICK b \in BOOLEAN : b = (Moving # {})
    OBVIOUS
  <2>2. handler'[h] = [handler[h] EXCEPT !.pc = "write", !.copy = table, !.from = port, !.crossed = b]
    BY <1>2, <2>1, Others DEF Port
  <2>3. /\ handler'[h].pc = "write" /\ handler'[h].copy = table /\ handler'[h].from = port
        /\ handler'[h].old = handler[h].old /\ handler'[h].crossed = b
    BY <1>1, <2>2 DEF Requests
  <2>4. \A g \in Handlers \ {h} : handler'[g] = handler[g]
    BY <1>2, Others
  <2>5. ~handler'[h].crossed => Moving = {}
    BY <2>1, <2>3, Zenon
  <2> QED BY <1>2, <2>3, <2>4, <2>5 DEF ReadSettings
<1>3. CASE /\ UNCHANGED settingsMu
           /\ handler' = [handler EXCEPT ![h] = [Rendering EXCEPT !.old = handler[h].old]]
  BY <1>3, Rendered DEF ReadSettings
<1>4. CASE Done(h)
  BY <1>4, DoneEffect DEF ReadSettings
<1> QED BY <1>2, <1>3, <1>4 DEF ReadSettings

LEMMA WriteEffect ==
  ASSUME HandlerType, NEW h \in Handlers, WriteSettings(h)
  PROVE  /\ \A g \in Handlers \ {h} : handler'[g] = handler[g]
         /\ handler[h].pc \in {"write", "import"}
         /\ UNCHANGED <<stage, schema, origins, serving, flags>>
         /\ \/ handler'[h].pc = "idle" /\ settingsMu' = None /\ UNCHANGED config
            \/ /\ handler'[h].pc = IF handler[h].pc = "write" THEN "refresh" ELSE "renew"
               /\ handler'[h].copy = table' /\ handler'[h].from = handler[h].from
               /\ handler'[h].old = handler[h].old /\ handler'[h].crossed = handler[h].crossed
               /\ UNCHANGED settingsMu
               /\ table' = Overlay(IF handler[h].pc = "write" THEN handler[h].copy ELSE table,
                                   handler[h].form)
               /\ meant' = Overlay(meant, handler[h].form)
<1>1. handler[h] \in Requests
  BY DEF HandlerType
<1>2. CASE UNCHANGED config /\ Done(h)
  BY <1>2, DoneEffect DEF WriteSettings
<1>3. CASE ~(UNCHANGED config /\ Done(h))
  <2> DEFINE p == IF handler[h].pc = "write" THEN "refresh" ELSE "renew"
  <2>1. handler' = [handler EXCEPT ![h] = [handler[h] EXCEPT !.pc = p, !.copy = table']]
    BY <1>3 DEF WriteSettings
  <2>2. handler'[h] = [handler[h] EXCEPT !.pc = p, !.copy = table']
    BY <2>1, Others
  <2>3. \A g \in Handlers \ {h} : handler'[g] = handler[g]
    BY <2>1, Others
  <2>4. /\ handler'[h].pc = p /\ handler'[h].copy = table' /\ handler'[h].from = handler[h].from
        /\ handler'[h].old = handler[h].old /\ handler'[h].crossed = handler[h].crossed
    <3> HIDE DEF p
    <3> QED BY <1>1, <2>2 DEF Requests
  <2> QED BY <1>3, <2>3, <2>4 DEF WriteSettings
<1> QED BY <1>2, <1>3

LEMMA AnswerEffect ==
  ASSUME HandlerType, NEW h \in Handlers, Answer(h)
  PROVE  /\ \A g \in Handlers \ {h} : handler'[g] = handler[g]
         /\ handler[h].pc = "refresh" /\ UNCHANGED <<stage, schema, config, mu, port, accepting, deaf, hurried>>
         /\ overtaken' = handler[h].crossed
         /\ \/ /\ handler'[h].pc = "render" /\ handler'[h].old = handler[h].old /\ UNCHANGED settingsMu
               /\ \E n \in Movers \ Moving :
                    mover' = [mover EXCEPT ![n] = [pc |-> "sleep", to |-> handler[h].copy.port, from |-> 0]]
            \/ /\ handler'[h].pc = "idle" /\ settingsMu' = None /\ UNCHANGED mover
               /\ handler[h].copy.port = handler[h].from
<1>1. CASE /\ UNCHANGED settingsMu /\ Moving # Movers
           /\ mover' = [mover EXCEPT ![AnyOf(Movers \ Moving)] =
                            [pc |-> "sleep", to |-> handler[h].copy.port, from |-> 0]]
           /\ handler' = [handler EXCEPT ![h] = [Rendering EXCEPT !.old = handler[h].old]]
  <2>1. handler'[h].pc = "render" /\ handler'[h].old = handler[h].old
    BY <1>1, Rendered
  <2>2. \A g \in Handlers \ {h} : handler'[g] = handler[g]
    BY <1>1, Rendered
  <2>3. \E n \in Movers \ Moving :
          mover' = [mover EXCEPT ![n] = [pc |-> "sleep", to |-> handler[h].copy.port, from |-> 0]]
    BY <1>1, AnyFree
  <2> QED BY <1>1, <2>1, <2>2, <2>3 DEF Answer
<1>2. CASE Done(h) /\ UNCHANGED mover /\ handler[h].copy.port = handler[h].from
  BY <1>2, DoneEffect DEF Answer
<1> QED BY <1>1, <1>2 DEF Answer

LEMMA EndEffect ==
  ASSUME HandlerType, NEW h \in Handlers, Renew(h) \/ Render(h)
  PROVE  /\ \A g \in Handlers \ {h} : handler'[g] = handler[g]
         /\ handler[h].pc \in {"renew", "render"}
         /\ handler'[h].pc = "idle" /\ settingsMu' = None
         /\ UNCHANGED <<stage, schema, config, serving>>
  BY DoneEffect DEF Renew, Render

LEMMA CloseEffect ==
  ASSUME HandlerType, NEW m \in Movers, CloseOld(m)
  PROVE  \A h \in Handlers :
           /\ handler'[h].pc = handler[h].pc /\ handler'[h].form = handler[h].form
           /\ handler'[h].copy = handler[h].copy /\ handler'[h].from = handler[h].from
           /\ handler'[h].crossed = handler[h].crossed
           /\ handler'[h].pc = "idle" \/ handler'[h].old
<1> SUFFICES ASSUME NEW h \in Handlers
             PROVE  /\ handler'[h].pc = handler[h].pc /\ handler'[h].form = handler[h].form
                    /\ handler'[h].copy = handler[h].copy /\ handler'[h].from = handler[h].from
                    /\ handler'[h].crossed = handler[h].crossed
                    /\ handler'[h].pc = "idle" \/ handler'[h].old
  OBVIOUS
<1>1. handler[h] \in Requests
  BY DEF HandlerType
<1>2. PICK b \in BOOLEAN : b = (handler[h].pc # "idle")
  OBVIOUS
<1>3. handler'[h] = [handler[h] EXCEPT !.old = b]
  BY <1>2, Zenon DEF CloseOld
<1>4. /\ handler'[h].pc = handler[h].pc /\ handler'[h].form = handler[h].form
      /\ handler'[h].copy = handler[h].copy /\ handler'[h].from = handler[h].from
      /\ handler'[h].crossed = handler[h].crossed /\ handler'[h].old = b
  BY <1>1, <1>3 DEF Requests
<1>5. handler'[h].pc = "idle" \/ handler'[h].old
  BY <1>2, <1>4, Zenon
<1> QED BY <1>4, <1>5

\* Nobody passes Lock while another request holds settingsMu.
LEMMA LockStep ==
  ASSUME HandlerType, LockInv, [Next]_vars
  PROVE  LockInv'
<1> USE AdminServerAssumption DEF HandlerType, LockInv, config, schema, serving, saving, flags,
    bounds, IdleHandler
<1>1. CASE UNCHANGED <<settingsMu, handler>>
  BY <1>1
<1>2. ASSUME UNCHANGED vars \/ Start \/ Migrate \/ BeginCheck \/ Check \/ Boot \/ Signal
             \/ BeginShutdown \/ EndShutdown \/ Unwind \/ \E ports \in SUBSET Ports : Take(ports)
             \/ \E m \in Movers : Rebind(m) \/ ListenNew(m) \/ RollBack(m)
      PROVE  UNCHANGED <<settingsMu, handler>>
  BY <1>2 DEF vars, Start, Migrate, BeginCheck, Check, Boot, Signal, BeginShutdown, EndShutdown,
     Unwind, Take, Rebind, ListenNew, RollBack, Unbound
<1>3. ASSUME NEW h \in Handlers, Request(h) \/ Lock(h) PROVE LockInv'
  BY <1>3, RequestEffect
<1>4. ASSUME NEW h \in Handlers, ReadSettings(h) PROVE LockInv'
  BY <1>4, ReadEffect
<1>5. ASSUME NEW h \in Handlers, WriteSettings(h) PROVE LockInv'
  BY <1>5, WriteEffect
<1>6. ASSUME NEW h \in Handlers, Answer(h) PROVE LockInv'
  BY <1>6, AnswerEffect
<1>7. ASSUME NEW h \in Handlers, Renew(h) \/ Render(h) PROVE LockInv'
  BY <1>7, EndEffect
<1>8. ASSUME NEW m \in Movers, CloseOld(m) PROVE LockInv'
  BY <1>8, CloseEffect DEF CloseOld
<1>9. CASE Gone
  BY <1>9 DEF Gone
<1> QED BY <1>1, <1>2, <1>3, <1>4, <1>5, <1>6, <1>7, <1>8, <1>9, NextCases

\* Only the holder of settingsMu writes the table, and it has read what is there.
LEMMA CopyStep ==
  ASSUME HandlerType, LockInv, CopyInv, [Next]_vars
  PROVE  CopyInv'
<1> USE AdminServerAssumption DEF HandlerType, CopyInv, config, schema, serving, saving, flags,
    bounds, IdleHandler, NoForm
<1>1. CASE UNCHANGED <<table, meant, handler>>
  BY <1>1
<1>2. ASSUME UNCHANGED vars \/ Start \/ Migrate \/ BeginCheck \/ Check \/ Boot \/ Signal
             \/ BeginShutdown \/ EndShutdown \/ Unwind \/ \E ports \in SUBSET Ports : Take(ports)
             \/ \E m \in Movers : Rebind(m) \/ ListenNew(m) \/ RollBack(m)
      PROVE  UNCHANGED <<table, meant, handler>>
  BY <1>2 DEF vars, Start, Migrate, BeginCheck, Check, Boot, Bootstrap, Signal, BeginShutdown,
     EndShutdown, Unwind, Take, Rebind, ListenNew, RollBack, Unbound
<1>3. ASSUME NEW h \in Handlers, Request(h) \/ Lock(h) PROVE CopyInv'
  <2>1. UNCHANGED config
    BY <1>3 DEF Request, Lock
  <2> QED BY <1>3, <2>1, RequestEffect
<1>4. ASSUME NEW h \in Handlers, ReadSettings(h) PROVE CopyInv'
  BY <1>4, ReadEffect
<1>5. ASSUME NEW h \in Handlers, WriteSettings(h) PROVE CopyInv'
  <2>1. \A g \in Handlers \ {h} : handler[g].pc \notin {"write", "refresh", "import"}
    BY <1>5 DEF LockInv, WriteSettings
  <2>2. table' = meant'
    BY <1>5, WriteEffect
  <2> QED BY <1>5, <2>1, <2>2, WriteEffect
<1>6. ASSUME NEW h \in Handlers, Answer(h) PROVE CopyInv'
  BY <1>6, AnswerEffect
<1>7. ASSUME NEW h \in Handlers, Renew(h) \/ Render(h) PROVE CopyInv'
  BY <1>7, EndEffect
<1>8. ASSUME NEW m \in Movers, CloseOld(m) PROVE CopyInv'
  <2>1. UNCHANGED config
    BY <1>8 DEF CloseOld
  <2> QED BY <1>8, <2>1, CloseEffect
<1>9. CASE Gone
  BY <1>9 DEF Gone
<1> QED BY <1>1, <1>2, <1>3, <1>4, <1>5, <1>6, <1>7, <1>8, <1>9, NextCases

\* A migration that succeeds is the next one.
LEMMA SchemaStep ==
  ASSUME SchemaInv, [Next]_vars
  PROVE  SchemaInv'
<1> USE AdminServerAssumption DEF SchemaInv, config, schema, serving, saving, flags, bounds
<1>1. CASE UNCHANGED schema
  BY <1>1
<1>2. ASSUME \/ UNCHANGED vars \/ Signal \/ BeginShutdown \/ EndShutdown \/ Unwind
             \/ \E h \in Handlers : Request(h) \/ Lock(h) \/ ReadSettings(h) \/ WriteSettings(h)
                                    \/ Renew(h) \/ Answer(h) \/ Render(h)
             \/ \E m \in Movers : Rebind(m) \/ CloseOld(m) \/ ListenNew(m) \/ RollBack(m)
             \/ \E ports \in SUBSET Ports : Take(ports)
      PROVE  UNCHANGED schema
  BY <1>2 DEF vars, Signal, BeginShutdown, EndShutdown, Unwind, Request, Lock, ReadSettings,
     WriteSettings, Renew, Answer, Render, Rebind, CloseOld, ListenNew, RollBack, Take
<1>3. ASSUME NEW next \in Nat, next <= version + 1, next > 0, Migration(next)
      PROVE  next = version + 1 /\ version' = next /\ columns' = 1 .. version'
  <2>1. next = version + 1
    BY <1>3 DEF Migration, Applies
  <2> QED BY <1>3, <2>1 DEF Migration
<1>4. CASE Start
  BY <1>4 DEF Start
<1>5. CASE Migrate
  BY <1>3, <1>5 DEF Migrate
<1>6. CASE BeginCheck
  BY <1>6 DEF BeginCheck
<1>7. CASE Check
  BY <1>3, <1>7 DEF Check
<1>8. CASE Boot
  BY <1>8 DEF Boot
<1>9. CASE Gone
  BY <1>9 DEF Gone
<1> QED BY <1>1, <1>2, <1>4, <1>5, <1>6, <1>7, <1>8, <1>9, NextCases

\* mu, the listener and the requests of a server that is gone.
LEMMA ServeStep ==
  ASSUME HandlerType, ServeInv, [Next]_vars
  PROVE  ServeInv'
<1> USE AdminServerAssumption DEF HandlerType, ServeInv, Quiet, TooLate, config, schema, serving,
    saving, flags, bounds
<1>1. CASE UNCHANGED <<stage, handler, serving, hurried>>
  BY <1>1
<1>2. ASSUME UNCHANGED vars \/ BeginCheck \/ Check \/ \E ports \in SUBSET Ports : Take(ports)
      PROVE  UNCHANGED <<stage, handler, serving, hurried>>
  BY <1>2 DEF vars, BeginCheck, Check, Take
<1>3. ASSUME Start \/ Migrate \/ Signal \/ BeginShutdown \/ EndShutdown \/ Unwind PROVE ServeInv'
  <2>1. UNCHANGED <<handler, mover, port>>
    BY <1>3 DEF Start, Migrate, Signal, BeginShutdown, EndShutdown, Unwind
  <2>2. CASE Start \/ Migrate \/ Signal \/ Unwind
    BY <2>1, <2>2 DEF Start, Migrate, Signal, Unwind
  <2>3. CASE BeginShutdown
    BY <2>1, <2>3 DEF BeginShutdown
  <2>4. CASE EndShutdown
    BY <2>1, <2>4 DEF EndShutdown, AllServed
  <2> QED BY <1>3, <2>2, <2>3, <2>4
<1>4. ASSUME NEW h \in Handlers, Request(h) \/ Lock(h) PROVE ServeInv'
  <2>1. UNCHANGED <<stage, serving, hurried>>
    BY <1>4 DEF Request, Lock
  <2> QED BY <1>4, <2>1, RequestEffect
<1>5. ASSUME NEW h \in Handlers, ReadSettings(h) \/ WriteSettings(h) PROVE ServeInv'
  <2>1. /\ UNCHANGED <<stage, serving, hurried>>
        /\ \A g \in Handlers \ {h} : handler'[g] = handler[g]
        /\ handler[h].pc # "idle" /\ (handler'[h].pc = "idle" \/ handler'[h].old = handler[h].old)
    BY <1>5, ReadEffect, WriteEffect
  <2> QED BY <2>1
<1>6. ASSUME NEW h \in Handlers, Answer(h) PROVE ServeInv'
  <2>1. \/ UNCHANGED mover
        \/ \E n \in Movers : mover' = [mover EXCEPT ![n] = [pc |-> "sleep", to |-> handler[h].copy.port, from |-> 0]]
    BY <1>6, AnswerEffect
  <2>2. \A m \in Movers : mover'[m] = mover[m] \/ mover'[m].pc = "sleep"
    BY <2>1
  <2>3. stage \notin {"down", "migrate"}
    BY <1>6, AnswerEffect
  <2>4. /\ UNCHANGED <<stage, mu, port, accepting, hurried>>
        /\ \A g \in Handlers \ {h} : handler'[g] = handler[g]
        /\ handler[h].pc # "idle" /\ (handler'[h].pc = "idle" \/ handler'[h].old = handler[h].old)
    BY <1>6, AnswerEffect
  <2> QED BY <2>2, <2>3, <2>4
<1>7. ASSUME NEW h \in Handlers, Renew(h) \/ Render(h) PROVE ServeInv'
  <2>1. UNCHANGED hurried
    BY <1>7 DEF Renew, Render
  <2> QED BY <1>7, <2>1, EndEffect
<1>8. ASSUME NEW m \in Movers, Rebind(m) PROVE ServeInv'
  BY <1>8 DEF Rebind, IdleMover
<1>9. ASSUME NEW m \in Movers, CloseOld(m) PROVE ServeInv'
  <2>1. Quiet'
    BY <1>9, CloseEffect
  <2>2. mover[m].pc = "shut" /\ mover' = [mover EXCEPT ![m].pc = "listen"] /\ port' = 0
        /\ UNCHANGED <<stage, mu, accepting, hurried>>
    BY <1>9 DEF CloseOld
  <2> QED BY <2>1, <2>2
<1>10. ASSUME NEW m \in Movers, ListenNew(m) PROVE ServeInv'
  <2>1. /\ mover[m].pc = "listen" /\ UNCHANGED <<stage, handler>> /\ mu = m
        /\ stage \notin {"down", "migrate", "shut"}
    BY <1>10 DEF ListenNew, saving
  <2>2. CASE mover[m].to \notin taken
    <3>1. /\ port' = mover[m].to /\ port' # 0 /\ accepting' = TRUE /\ mu' = None
          /\ mover' = [mover EXCEPT ![m] = IdleMover]
      BY <1>10, <2>2 DEF ListenNew, Unbound
    <3>2. TooLate => hurried'
      BY <1>10, <2>2 DEF ListenNew
    <3> QED BY <2>1, <3>1, <3>2 DEF IdleMover
  <2>3. CASE mover[m].to \in taken
    BY <1>10, <2>1, <2>3 DEF ListenNew
  <2> QED BY <2>2, <2>3
<1>11. ASSUME NEW m \in Movers, RollBack(m) PROVE ServeInv'
  BY <1>11 DEF RollBack, ListenOld, Unbound, IdleMover
<1>12. CASE Boot
  BY <1>12 DEF Boot, Bootstrap, Settings
<1>13. CASE Gone
  BY <1>13 DEF Gone, IdleHandler, IdleMover
<1> QED BY <1>1, <1>2, <1>3, <1>4, <1>5, <1>6, <1>7, <1>8, <1>9, <1>10, <1>11, <1>12, <1>13,
           NextCases

\* Whoever writes the table refreshes the cache before it lets go.
LEMMA CacheStep ==
  ASSUME HandlerType, LockInv, ServeInv, CacheInv, [Next]_vars
  PROVE  CacheInv'
<1> USE AdminServerAssumption DEF HandlerType, CacheInv, config, schema, serving, saving, flags, bounds
<1>1. CASE UNCHANGED <<table, origins, stale, handler>> /\ (stage \in {"down", "migrate"} => stage' \in {"down", "migrate"})
  BY <1>1
<1>2. ASSUME UNCHANGED vars \/ Start \/ Migrate \/ BeginCheck \/ Check \/ Signal
             \/ BeginShutdown \/ EndShutdown \/ Unwind \/ (\E ports \in SUBSET Ports : Take(ports))
             \/ \E m \in Movers : Rebind(m) \/ ListenNew(m) \/ RollBack(m)
      PROVE  /\ UNCHANGED <<table, origins, stale, handler>>
             /\ stage \in {"down", "migrate"} => stage' \in {"down", "migrate"}
  BY <1>2 DEF vars, Start, Migrate, BeginCheck, Check, Signal, BeginShutdown,
     EndShutdown, Unwind, Take, Rebind, ListenNew, RollBack, Unbound
<1>3. ASSUME NEW h \in Handlers, Request(h) \/ Lock(h) PROVE CacheInv'
  <2>1. UNCHANGED <<stage, table, origins, stale>>
    BY <1>3 DEF Request, Lock
  <2> QED BY <1>3, <2>1, RequestEffect
<1>4. ASSUME NEW h \in Handlers, ReadSettings(h) PROVE CacheInv'
  BY <1>4, ReadEffect
<1>5. ASSUME NEW h \in Handlers, WriteSettings(h) PROVE CacheInv'
  BY <1>5, WriteEffect
<1>6. ASSUME NEW h \in Handlers, Answer(h) \/ Renew(h) PROVE CacheInv'
  BY <1>6 DEF Answer, Renew, RefreshOrigins, Refreshed
<1>7. ASSUME NEW h \in Handlers, Render(h) PROVE CacheInv'
  <2>1. UNCHANGED <<origins, stale>> /\ handler[h].pc = "render"
    BY <1>7 DEF Render
  <2> QED BY <1>7, <2>1, EndEffect
<1>8. ASSUME NEW m \in Movers, CloseOld(m) PROVE CacheInv'
  <2>1. UNCHANGED <<stage, table, origins, stale>>
    BY <1>8 DEF CloseOld
  <2> QED BY <1>8, <2>1, CloseEffect
<1>9. CASE Boot
  BY <1>9 DEF Boot
<1>10. CASE Gone
  BY <1>10 DEF Gone
<1> QED BY <1>1, <1>2, <1>3, <1>4, <1>5, <1>6, <1>7, <1>8, <1>9, <1>10, NextCases

\* The port the last save asked for is the one the pending rebinds go to.
LEMMA PortStep ==
  ASSUME HandlerType, LockInv, CopyInv, ServeInv, PortInv, [Next]_vars
  PROVE  PortInv'
<1> USE AdminServerAssumption DEF HandlerType, PortInv, Serving, config, schema, serving, saving,
    flags, bounds
<1>1. CASE UNCHANGED <<table, port, mover, handler, refused, overtaken>> /\ (Serving' => Serving)
  BY <1>1
<1>2. ASSUME UNCHANGED vars \/ Start \/ Migrate \/ BeginCheck \/ Check \/ Signal
             \/ BeginShutdown \/ EndShutdown \/ Unwind \/ \E ports \in SUBSET Ports : Take(ports)
      PROVE  UNCHANGED <<table, port, mover, handler, refused, overtaken>> /\ (Serving' => Serving)
  BY <1>2 DEF vars, Start, Migrate, BeginCheck, Check, Signal, BeginShutdown, EndShutdown, Unwind, Take
<1>3. ASSUME NEW h \in Handlers, Request(h) \/ Lock(h) PROVE PortInv'
  <2>1. UNCHANGED <<stage, table, port, mover, refused, overtaken>>
    BY <1>3 DEF Request, Lock
  <2> QED BY <1>3, <2>1, RequestEffect
<1>4. ASSUME NEW h \in Handlers, ReadSettings(h) PROVE PortInv'
  BY <1>4, ReadEffect DEF Moving
<1>5. ASSUME NEW h \in Handlers, WriteSettings(h) PROVE PortInv'
  <2>1. CASE handler'[h].pc = "idle" /\ UNCHANGED config
    BY <1>5, <2>1, WriteEffect
  <2>2. CASE handler[h].pc = "write" /\ handler'[h].pc = "refresh"
    BY <1>5, <2>2, WriteEffect
  <2>3. CASE handler[h].pc = "import" /\ handler'[h].pc = "renew"
    <3>1. table'.port = table.port
      BY <1>5, <2>3, WriteEffect DEF CopyInv, Overlay
    <3> QED BY <1>5, <2>3, <3>1, WriteEffect
  <2> QED BY <1>5, <2>1, <2>2, <2>3, WriteEffect
<1>6. ASSUME NEW h \in Handlers, Answer(h) PROVE PortInv'
  <2>1. \A g \in Handlers \ {h} : handler[g].pc \notin {"write", "refresh"}
    BY <1>6, AnswerEffect DEF LockInv
  <2>2. /\ \A g \in Handlers : handler'[g].pc \notin {"write", "refresh"}
        /\ overtaken' = handler[h].crossed /\ handler[h].copy = table
        /\ UNCHANGED <<stage, table, port>>
    BY <1>6, <2>1, AnswerEffect DEF CopyInv
  <2>3. CASE handler[h].crossed
    BY <2>2, <2>3
  <2>4. CASE ~handler[h].crossed
    <3>1. handler[h].from = port /\ \A m \in Movers : mover[m].pc = "idle"
      BY <1>6, <2>4, AnswerEffect
    <3>2. CASE UNCHANGED mover /\ handler[h].copy.port = handler[h].from
      BY <2>2, <3>1, <3>2
    <3>3. CASE \E n \in Movers :
                 mover' = [mover EXCEPT ![n] = [pc |-> "sleep", to |-> handler[h].copy.port, from |-> 0]]
      BY <2>2, <3>1, <3>3
    <3> QED BY <1>6, <3>2, <3>3, AnswerEffect
  <2> QED BY <2>3, <2>4
<1>7. ASSUME NEW h \in Handlers, Renew(h) \/ Render(h) PROVE PortInv'
  <2>1. UNCHANGED <<refused, overtaken>>
    BY <1>7 DEF Renew, Render
  <2> QED BY <1>7, <2>1, EndEffect
<1>8. ASSUME NEW m \in Movers, Rebind(m) PROVE PortInv'
  <2>1. mover[m].pc = "sleep" /\ UNCHANGED <<stage, table, port, handler, overtaken>>
    BY <1>8 DEF Rebind
  <2>2. CASE port = 0
    <3>1. refused' /\ mover' = [mover EXCEPT ![m] = IdleMover]
      BY <1>8, <2>2 DEF Rebind
    <3> QED BY <2>1, <3>1 DEF IdleMover
  <2>3. CASE port # 0 /\ mover[m].to = port
    <3>1. (refused' <=> refused) /\ mover' = [mover EXCEPT ![m] = IdleMover]
      BY <1>8, <2>3 DEF Rebind
    <3> QED BY <2>1, <2>3, <3>1 DEF IdleMover
  <2>4. CASE port # 0 /\ mover[m].to # port
    <3>1. /\ mover'[m].pc = "shut" /\ mover'[m].to = mover[m].to
          /\ \A n \in Movers \ {m} : mover'[n] = mover[n]
      BY <1>8, <2>4 DEF Rebind
    <3>2. refused' <=> refused
      BY <1>8, <2>4 DEF Rebind
    <3> QED BY <2>1, <3>1, <3>2
  <2> QED BY <2>2, <2>3, <2>4
<1>9. ASSUME NEW m \in Movers, CloseOld(m) PROVE PortInv'
  <2>1. mover[m].pc = "shut" /\ mover' = [mover EXCEPT ![m].pc = "listen"]
        /\ UNCHANGED <<stage, table, refused, overtaken>>
    BY <1>9 DEF CloseOld
  <2> QED BY <1>9, <2>1, CloseEffect
<1>10. ASSUME NEW m \in Movers, ListenNew(m) PROVE PortInv'
  BY <1>10 DEF ListenNew, Unbound, IdleMover
<1>11. ASSUME NEW m \in Movers, RollBack(m) PROVE PortInv'
  BY <1>11 DEF RollBack, ListenOld, Unbound, IdleMover
<1>12. CASE Boot
  BY <1>12 DEF Boot, ServeInv
<1>13. CASE Gone
  BY <1>13 DEF Gone, IdleHandler, IdleMover
<1> QED BY <1>1, <1>2, <1>3, <1>4, <1>5, <1>6, <1>7, <1>8, <1>9, <1>10, <1>11, <1>12, <1>13,
           NextCases

\* The inductive invariant holds in every reachable state.
LEMMA Invariant == SafeSpec => []IInv
<1>1. Init => IInv
  BY AdminServerAssumption DEF Init, IInv, HandlerType, Requests, LockInv, CopyInv, SchemaInv,
     ServeInv, Quiet, TooLate, CacheInv, PortInv, Serving, IdleHandler, IdleMover, NoForm, Forms,
     Defaults, Settings
<1>2. IInv /\ [Next]_vars => IInv'
  BY HandlerStep, LockStep, CopyStep, SchemaStep, ServeStep, CacheStep, PortStep DEF IInv
<1> QED BY <1>1, <1>2, PTL DEF SafeSpec

\* No save, and no import, undoes what another one saved.
THEOREM UpdatesSafe == SafeSpec => []NoLostUpdate
<1>1. IInv => NoLostUpdate
  BY DEF IInv, CopyInv, NoLostUpdate
<1> QED BY <1>1, Invariant, PTL

\* The cache and the listener follow the table.
THEOREM MemorySafe == SafeSpec => []MemoryFollows
<1>1. IInv => CacheFresh
  BY AdminServerAssumption DEF IInv, LockInv, CacheInv, CacheFresh, Serving
<1>2. IInv => PortFollows
  BY AdminServerAssumption DEF IInv, LockInv, PortInv, PortFollows, Moving
<1> QED BY <1>1, <1>2, Invariant, PTL DEF MemoryFollows

\* Two processes that migrate one file leave its schema whole.
THEOREM SchemaSafe == SafeSpec => []SchemaWhole
<1>1. IInv => SchemaWhole
  BY DEF IInv, SchemaInv, SchemaWhole
<1> QED BY <1>1, Invariant, PTL

\* When the database is closed nobody uses it, with the exceptions of Drained.
THEOREM DrainedSafe == SafeSpec => []Drained
<1>1. IInv => Drained
  BY DEF IInv, ServeInv, Quiet, TooLate, Drained
<1> QED BY <1>1, Invariant, PTL

\* What TypeOK says beyond the invariant: of the process and its locks, ...
PlaceType ==
  /\ stage \in {"down", "migrate", "serve", "signalled", "shut", "unwind", "closed"}
  /\ origins \in Values /\ taken \subseteq Ports
  /\ settingsMu \in Handlers \cup {None} /\ mu \in Movers \cup {Main, None}

\* ... of the migrations, ...
SchemaType == version <= Schema /\ seen <= Schema /\ (checker # None => checker <= Schema)

\* ... of the listener, which has a port that nobody else has, ...
Listens == accepting => port \in Ports \ taken

\* ... and of the flags, kept apart because they are Boolean.
Flags == {accepting, stale, refused, overtaken, deaf, hurried} \subseteq BOOLEAN

TypeInv == PlaceType /\ SchemaType /\ Listens /\ Flags

\* A mutex is held by one of those that ask for it; the cache has what the table had.
LEMMA PlaceStep ==
  ASSUME HandlerType, PlaceType, [Next]_vars
  PROVE  PlaceType'
<1> USE AdminServerAssumption DEF HandlerType, PlaceType, config, schema, serving, saving, flags, bounds
<1>1. CASE UNCHANGED <<stage, origins, taken, settingsMu, mu>>
  BY <1>1
<1>2. ASSUME UNCHANGED vars \/ BeginCheck \/ Check PROVE UNCHANGED <<stage, origins, taken, settingsMu, mu>>
  BY <1>2 DEF vars, BeginCheck, Check
<1>3. CASE Start \/ Migrate
  BY <1>3 DEF Start, Migrate
<1>4. ASSUME NEW h \in Handlers, Request(h) \/ Lock(h) \/ ReadSettings(h) \/ WriteSettings(h) \/ Render(h)
      PROVE  PlaceType'
  BY <1>4 DEF Request, Lock, ReadSettings, WriteSettings, Render, Done
<1>5. ASSUME NEW h \in Handlers, Renew(h) \/ Answer(h) PROVE PlaceType'
  <2>1. origins' \in Values
    BY <1>5 DEF Renew, Answer, RefreshOrigins, Refreshed, Settings
  <2>2. UNCHANGED <<stage, taken, mu>> /\ settingsMu' \in {settingsMu, None}
    BY <1>5 DEF Renew, Answer, Done
  <2> QED BY <2>1, <2>2
<1>6. ASSUME NEW m \in Movers, Rebind(m) \/ CloseOld(m) \/ ListenNew(m) \/ RollBack(m)
      PROVE  PlaceType'
  <2>1. UNCHANGED <<stage, origins, taken, settingsMu>> /\ mu' \in {mu, m, None}
    BY <1>6 DEF Rebind, CloseOld, ListenNew, RollBack, Unbound
  <2> QED BY <2>1
<1>7. CASE Boot
  BY <1>7 DEF Boot, Bootstrap, Settings
<1>8. CASE Signal \/ BeginShutdown \/ EndShutdown \/ Unwind \/ Gone
  BY <1>8 DEF Signal, BeginShutdown, EndShutdown, Unwind, Gone
<1>9. ASSUME NEW ports \in SUBSET Ports, Take(ports) PROVE PlaceType'
  BY <1>9 DEF Take
<1> QED BY <1>1, <1>2, <1>3, <1>4, <1>5, <1>6, <1>7, <1>8, <1>9, NextCases

\* Neither run nor a health check applies more migrations than there are.
LEMMA SchemaTypeStep ==
  ASSUME SchemaInv, SchemaType, [Next]_vars
  PROVE  SchemaType'
<1> USE AdminServerAssumption DEF SchemaInv, SchemaType, config, schema, serving, saving, flags, bounds
<1>1. CASE UNCHANGED schema
  BY <1>1
<1>2. ASSUME \/ UNCHANGED vars \/ Signal \/ BeginShutdown \/ EndShutdown \/ Unwind
             \/ \E h \in Handlers : Request(h) \/ Lock(h) \/ ReadSettings(h) \/ WriteSettings(h)
                                    \/ Renew(h) \/ Answer(h) \/ Render(h)
             \/ \E m \in Movers : Rebind(m) \/ CloseOld(m) \/ ListenNew(m) \/ RollBack(m)
             \/ \E ports \in SUBSET Ports : Take(ports)
      PROVE  UNCHANGED schema
  BY <1>2 DEF vars, Signal, BeginShutdown, EndShutdown, Unwind, Request, Lock, ReadSettings,
     WriteSettings, Renew, Answer, Render, Rebind, CloseOld, ListenNew, RollBack, Take
<1>3. CASE Start \/ BeginCheck \/ Boot \/ Gone
  BY <1>3 DEF Start, BeginCheck, Boot, Gone
<1>4. CASE Migrate
  BY <1>4 DEF Migrate, Migration
<1>5. CASE Check
  BY <1>5 DEF Check, Migration
<1> QED BY <1>1, <1>2, <1>3, <1>4, <1>5, NextCases

\* A listener is opened on a port that is free, and keeps it.
LEMMA ListensStep ==
  ASSUME HandlerType, ServeInv, Listens, [Next]_vars
  PROVE  Listens'
<1> USE AdminServerAssumption DEF HandlerType, Listens, config, schema, serving, saving, flags, bounds
<1>1. CASE UNCHANGED <<port, taken, accepting>>
  BY <1>1
<1>2. ASSUME \/ UNCHANGED vars \/ Start \/ Migrate \/ BeginCheck \/ Check \/ Signal
             \/ EndShutdown \/ Unwind
             \/ \E h \in Handlers : Request(h) \/ Lock(h) \/ ReadSettings(h) \/ WriteSettings(h)
                                    \/ Renew(h) \/ Answer(h) \/ Render(h)
      PROVE  UNCHANGED <<port, taken, accepting>>
  BY <1>2 DEF vars, Start, Migrate, BeginCheck, Check, Signal, EndShutdown, Unwind,
     Request, Lock, ReadSettings, WriteSettings, Renew, Answer, Render
<1>3. ASSUME BeginShutdown \/ \E m \in Movers : Rebind(m) PROVE Listens'
  <2>1. UNCHANGED <<port, taken>>
    BY <1>3 DEF BeginShutdown, Rebind
  <2>2. accepting' => accepting
    BY <1>3, Zenon DEF BeginShutdown, Rebind
  <2> QED BY <2>1, <2>2
<1>4. ASSUME NEW m \in Movers, CloseOld(m) PROVE Listens'
  BY <1>4 DEF CloseOld, ServeInv
<1>5. ASSUME NEW m \in Movers, ListenNew(m) PROVE Listens'
  BY <1>5 DEF ListenNew, ServeInv
<1>6. ASSUME NEW m \in Movers, RollBack(m) PROVE Listens'
  BY <1>6 DEF RollBack, ListenOld
<1>7. CASE Boot
  BY <1>7 DEF Boot, Bootstrap, Settings
<1>8. CASE Gone
  BY <1>8 DEF Gone
<1>9. ASSUME NEW ports \in SUBSET Ports, Take(ports) PROVE Listens'
  BY <1>9 DEF Take
<1> QED BY <1>1, <1>2, <1>3, <1>4, <1>5, <1>6, <1>7, <1>8, <1>9, NextCases

\* The flags stay Boolean.
LEMMA FlagsStep ==
  ASSUME HandlerType, Flags, [Next]_vars
  PROVE  Flags'
<1> USE DEF Flags, config, schema, serving, saving, flags, bounds
<1>1. CASE UNCHANGED <<accepting, flags>>
  BY <1>1
<1>2. ASSUME \/ UNCHANGED vars \/ Start \/ Migrate \/ BeginCheck \/ Check \/ Signal \/ Unwind
             \/ \E h \in Handlers : Request(h) \/ Lock(h) \/ ReadSettings(h) \/ WriteSettings(h)
                                    \/ Render(h)
             \/ \E m \in Movers : CloseOld(m)
             \/ \E ports \in SUBSET Ports : Take(ports)
      PROVE  UNCHANGED <<accepting, flags>>
  BY <1>2 DEF vars, Start, Migrate, BeginCheck, Check, Signal, Unwind, Request, Lock, ReadSettings,
     WriteSettings, Render, CloseOld, Take
<1>3. ASSUME NEW h \in Handlers, Renew(h) PROVE Flags'
  BY <1>3, Zenon DEF Renew, RefreshOrigins
<1>4. ASSUME NEW h \in Handlers, Answer(h) PROVE Flags'
  <2>1. handler[h].crossed \in BOOLEAN
    BY DEF HandlerType, Requests
  <2>2. UNCHANGED <<accepting, deaf, hurried>> /\ overtaken' \in BOOLEAN
    BY <1>4, <2>1, Zenon DEF Answer
  <2>3. stale' \in BOOLEAN
    BY <1>4, Zenon DEF Answer, RefreshOrigins
  <2>4. refused' \in BOOLEAN
    BY <1>4, Zenon DEF Answer
  <2> QED BY <2>2, <2>3, <2>4, Zenon
<1>5. ASSUME NEW m \in Movers, Rebind(m) PROVE Flags'
  <2>1. UNCHANGED <<stale, overtaken, deaf, hurried>> /\ accepting' \in BOOLEAN /\ refused' \in BOOLEAN
    BY <1>5, Zenon DEF Rebind
  <2> QED BY <2>1, Zenon
<1>6. ASSUME NEW m \in Movers, ListenNew(m) PROVE Flags'
  <2>1. UNCHANGED <<stale, overtaken, deaf>>
    BY <1>6 DEF ListenNew
  <2>2. accepting' \in BOOLEAN /\ refused' \in BOOLEAN /\ hurried' \in BOOLEAN
    BY <1>6, Zenon DEF ListenNew
  <2> QED BY <2>1, <2>2, Zenon
<1>7. ASSUME NEW m \in Movers, RollBack(m) PROVE Flags'
  <2>1. UNCHANGED <<stale, refused, overtaken>>
    BY <1>7 DEF RollBack
  <2>2. accepting' = (port' # 0) /\ deaf' = (mover[m].from \in taken) /\ hurried' = (hurried \/ TooLate)
    BY <1>7, Zenon DEF RollBack
  <2>3. accepting' \in BOOLEAN
    BY <2>2
  <2>4. deaf' \in BOOLEAN
    BY <2>2
  <2>5. hurried' \in BOOLEAN
    BY <2>2
  <2> QED BY <2>1, <2>3, <2>4, <2>5, Zenon
<1>8. CASE Boot \/ BeginShutdown \/ EndShutdown \/ Gone
  <2>1. CASE Boot
    <3>1. UNCHANGED <<refused, overtaken, deaf, hurried>> /\ accepting' \in BOOLEAN
      BY <2>1, Zenon DEF Boot
    <3>2. stale' \in BOOLEAN
      BY <2>1, Zenon DEF Boot
    <3> QED BY <3>1, <3>2, Zenon
  <2>2. CASE BeginShutdown
    <3>1. UNCHANGED flags /\ accepting' \in BOOLEAN
      BY <2>2, Zenon DEF BeginShutdown
    <3> QED BY <3>1, Zenon
  <2>3. CASE EndShutdown
    <3>1. UNCHANGED <<accepting, stale, refused, overtaken, deaf>> /\ hurried' \in BOOLEAN
      BY <2>3, Zenon DEF EndShutdown
    <3> QED BY <3>1, Zenon
  <2>4. CASE Gone
    BY <2>4, Zenon DEF Gone
  <2> QED BY <1>8, <2>1, <2>2, <2>3, <2>4
<1> QED BY <1>1, <1>2, <1>3, <1>4, <1>5, <1>6, <1>7, <1>8, NextCases, Zenon

\* Every variable keeps its type; an open listener has a port that no other process
\* has, and the version of the file never passes the last migration.
THEOREM TypeSafe == SafeSpec => []TypeOK
<1>1. Init => TypeInv
  <2>1. Init => PlaceType /\ SchemaType /\ Listens
    BY AdminServerAssumption DEF Init, PlaceType, SchemaType, Listens
  <2>2. Init => Flags
    BY Zenon DEF Init, Flags
  <2> QED BY <2>1, <2>2 DEF TypeInv
<1>2. IInv /\ TypeInv /\ [Next]_vars => TypeInv'
  BY PlaceStep, SchemaTypeStep, ListensStep, FlagsStep DEF IInv, TypeInv
<1>3. IInv /\ TypeInv => TypeOK
  <2> SUFFICES ASSUME IInv, TypeInv PROVE TypeOK
    OBVIOUS
  <2>1. /\ stage \in {"down", "migrate", "serve", "signalled", "shut", "unwind", "closed"}
        /\ table \in Settings /\ meant \in Settings /\ origins \in Values
        /\ settingsMu \in Handlers \cup {None}
        /\ mu \in Movers \cup {Main, None} /\ port \in Ports \cup {0}
        /\ taken \subseteq Ports /\ (accepting => port \in Ports \ taken)
    BY DEF IInv, HandlerType, CopyInv, TypeInv, PlaceType, Listens
  <2>2. /\ version \in 0 .. Schema /\ columns \subseteq 1 .. Schema
        /\ seen \in 0 .. Schema /\ checker \in (0 .. Schema) \cup {None}
    BY AdminServerAssumption DEF IInv, SchemaInv, TypeInv, SchemaType
  <2>3. {accepting, stale, refused, overtaken, deaf, hurried} \subseteq BOOLEAN
    BY Zenon DEF TypeInv, Flags
  <2>4. HandlerType
    BY DEF IInv
  <2> QED BY <2>1, <2>2, <2>3, <2>4, Zenon DEF TypeOK, HandlerType, Requests
<1> QED BY <1>1, <1>2, <1>3, Invariant, PTL DEF SafeSpec

\* What LockInv and ServeInv leave open: who holds a mutex is still at work on it.
HeldInv ==
  /\ \A h \in Handlers : settingsMu = h => handler[h].pc \notin {"idle", "lock"}
  /\ \A m \in Movers : mu = m => mover[m].pc \notin {"idle", "sleep"}
  /\ mu = Main => stage = "shut"

\* Whoever leaves a section gives the mutex back.
LEMMA HeldStep ==
  ASSUME HandlerType, LockInv, ServeInv, HeldInv, [Next]_vars
  PROVE  HeldInv'
<1> USE AdminServerAssumption DEF HandlerType, HeldInv, config, schema, serving, saving, flags, bounds
<1>1. CASE UNCHANGED <<stage, handler, settingsMu, mu, mover>>
  BY <1>1
<1>2. ASSUME UNCHANGED vars \/ BeginCheck \/ Check \/ \E ports \in SUBSET Ports : Take(ports)
      PROVE  UNCHANGED <<stage, handler, settingsMu, mu, mover>>
  BY <1>2 DEF vars, BeginCheck, Check, Take
<1>3. ASSUME Start \/ Migrate \/ Boot \/ Signal \/ BeginShutdown \/ EndShutdown \/ Unwind PROVE HeldInv'
  <2>1. UNCHANGED <<handler, settingsMu, mover>>
    BY <1>3 DEF Start, Migrate, Boot, Signal, BeginShutdown, EndShutdown, Unwind
  <2>2. \/ mu' = mu /\ mu # Main
        \/ mu' = Main /\ stage' = "shut"
        \/ mu' = None
    BY <1>3 DEF Start, Migrate, Boot, Signal, BeginShutdown, EndShutdown, Unwind
  <2> QED BY <2>1, <2>2
<1>4. ASSUME NEW h \in Handlers, Request(h) \/ Lock(h) PROVE HeldInv'
  <2>1. UNCHANGED <<stage, mu, mover>>
    BY <1>4 DEF Request, Lock
  <2>2. \A g \in Handlers : settingsMu' = g => handler'[g].pc \notin {"idle", "lock"}
    BY <1>4, RequestEffect
  <2> QED BY <2>1, <2>2
<1>5. ASSUME NEW h \in Handlers, ReadSettings(h) PROVE HeldInv'
  BY <1>5, ReadEffect
<1>6. ASSUME NEW h \in Handlers, WriteSettings(h) PROVE HeldInv'
  BY <1>6, WriteEffect
<1>7. ASSUME NEW h \in Handlers, Answer(h) PROVE HeldInv'
  <2>1. \A g \in Handlers : settingsMu' = g => handler'[g].pc \notin {"idle", "lock"}
    BY <1>7, AnswerEffect
  <2>2. \A m \in Movers : mu = m => mover'[m] = mover[m]
    BY <1>7, AnswerEffect DEF Moving
  <2>3. UNCHANGED <<stage, mu>>
    BY <1>7, AnswerEffect
  <2> QED BY <2>1, <2>2, <2>3
<1>8. ASSUME NEW h \in Handlers, Renew(h) \/ Render(h) PROVE HeldInv'
  BY <1>8, EndEffect
<1>9. ASSUME NEW m \in Movers, Rebind(m) PROVE HeldInv'
  BY <1>9 DEF Rebind, IdleMover
<1>10. ASSUME NEW m \in Movers, CloseOld(m) PROVE HeldInv'
  <2>1. UNCHANGED <<stage, settingsMu, mu>> /\ mover' = [mover EXCEPT ![m].pc = "listen"]
    BY <1>10 DEF CloseOld
  <2> QED BY <1>10, <2>1, CloseEffect
<1>11. ASSUME NEW m \in Movers, ListenNew(m) \/ RollBack(m) PROVE HeldInv'
  <2>1. /\ UNCHANGED <<stage, handler, settingsMu>>
        /\ \/ mu' = None
           \/ mu' = mu /\ mover' = [mover EXCEPT ![m].pc = "back"]
    BY <1>11 DEF ListenNew, RollBack, Unbound
  <2> QED BY <2>1
<1>12. CASE Gone
  BY <1>12 DEF Gone
<1> QED BY <1>1, <1>2, <1>3, <1>4, <1>5, <1>6, <1>7, <1>8, <1>9, <1>10, <1>11, <1>12, NextCases

\* settingsMu and mu are held by exactly the goroutine that is in their section: no
\* error, early return, crash or rebind leaves one locked behind it.
THEOREM LocksSafe == SafeSpec => []LocksHeld
<1>1. Init => HeldInv
  BY AdminServerAssumption DEF Init, HeldInv
<1>2. IInv /\ HeldInv /\ [Next]_vars => HeldInv'
  BY HeldStep DEF IInv
<1>3. IInv /\ HeldInv => LocksHeld
  <2> SUFFICES ASSUME IInv, HeldInv PROVE LocksHeld
    OBVIOUS
  <2>1. \A h \in Handlers : handler[h].pc \notin {"idle", "lock"} => settingsMu = h
    BY DEF IInv, HandlerType, Requests, LockInv
  <2>2. \A m \in Movers : mover[m].pc \notin {"idle", "sleep"} => mu = m
    BY DEF IInv, HandlerType, ServeInv
  <2>3. stage = "shut" => mu = Main
    BY DEF IInv, ServeInv
  <2> QED BY <2>1, <2>2, <2>3 DEF HeldInv, LocksHeld
<1> QED BY <1>1, <1>2, <1>3, Invariant, PTL DEF SafeSpec
=============================================================================
