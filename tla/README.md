# Forward2Any in TLA+

Forward2Any (`src/`) is a single-process message forwarder. Webhook calls and
polled mail come in, rules decide which targets a message goes to, and an engine
delivers it to webhooks, Telegram, SMTP and a dozen chat channels, with retries. State lives
in one SQLite file; everything else is goroutines of one Go process.

This directory models the parts of it whose correctness depends on order: who
writes a row while somebody else holds a copy of it, what a crash leaves behind,
what a full channel forgets. TLC checks the models on small instances, and TLAPS
proves the safety properties of the engine, the senders, the loop protection, the mail
poller, the configuration, the settings, the sessions and the conditions of rules
for every instance.

    tlc -workers 2 -config delivery_retries.cfg DeliveryMC      # a run
    tlapm DeliveryProofs.tla                                    # the proofs about a module

## 1. Inventory

| component | source | state it keeps | operations | what makes it hard |
| --- | --- | --- | --- | --- |
| engine: dispatch | `engine/engine.go` `Submit`, `PostTest`, `RecordDropped` | inserts into `deliveries` | one insert per target that matches, then a wake-up | runs in HTTP handlers and mail workers while the worker sends; some targets may fail |
| engine: worker | `engine/engine.go` `worker`, `drain`, `attempt` | batch of copied rows, wake channel (capacity 1), stop channel | read what is due, claim, send, write the result | copies go stale; crash between claim, send and result; lost wake-ups; shutdown |
| delivery log | `store/delivery.go`, `web/deliveries.go` | `deliveries` rows: status, attempt, next_retry_at | create, claim, update, replay, delete, clean up | written by the worker and by handlers with no transaction in common |
| loop protection | `engine.go` `IsLoop`, `ParseHops`, `web/hook.go`, `mailin/poller.go` | the hop chain a message carries | append the source's slug, refuse a message that passed here before | cycles through several sources or several instances |
| inbound webhooks | `web/hook.go` | none | verify, parse, loop check, submit | replies decide whether the sender tries again |
| mail poller | `mailin/poller.go` | one worker per mail source, its config's `updated_at`; the mailbox's \Seen flags | supervise, reconcile, poll, fetch, mark read | config changes under running workers; dropped connections; mail seen twice or never |
| templates, filters | `engine/match.go`, `render.go` | none | match, render | pure; null, missing and mixed types |
| senders | `engine/webhook.go`, `telegram.go`, `mail.go`, `channel.go`, `signing.go` | proxy client cache | one request, a verdict on its answer | "HTTP 200 with an error inside" |
| sources and rules | `store/source.go`, `store/rule.go`, `web/sources.go`, `web/rules.go` | `sources`, `rules` rows | create, edit, delete, prune a deleted source from rules | prune and edit are read-modify-write |
| import, export | `store/import.go`, `web/settings.go` | all of the configuration | replace it in one transaction, ids remapped | references from rules to sources must survive |
| settings | `store/setting.go`, `web/settings.go` | `settings` rows; caches of them in `web.Server` | save, refresh caches, rebind | the caches and the listener follow the table |
| HTTP listener | `web/server.go` | listener, server, port | start, rebind, shut down | rebinding fails half way; requests in flight |
| login and sessions | `web/auth.go`, `web/turnstile.go` | session map, limiter, default-password flag | log in, require, expire, lock out | expiry, lock-out counting, forced password change |
| schema | `store/store.go` | `PRAGMA user_version`, the tables | migrate in order, once | server and health check on one file |
| pages | `web/pager.go`, `gzip.go`, `theme.go`, `ui/` | none | list, page, compress | presentation |
| process | `cmd/f2a/main.go`, `config`, `logging` | none | start, health check, stop in order | stop while work is under way |

The parts meet in few places. Handlers and mail workers call `Engine.Submit`,
which only inserts rows and puts a token into the wake channel. The worker takes
rows out of the table and is the only one that sends. The settings and the
sources are read from the database at every use, so an edit takes effect between
any two steps of the others. Saving a source calls `Poller.Reload`, saving the
settings calls `Server.Rebind` and refreshes the caches.

## 2. Plan

1. `Lifecycle`, `Delivery` (engine worker, delivery log, dispatch, process
   crash and stop): this is where messages could be lost or repeated. Proofs:
   types, the inductive invariant, the safety properties, the refinement. *Done.*
2. `Forwarding`, `MailPoller`, `ConfigStore`, `AdminServer`: the loop protection, the
   mail poller, the references between rules and sources, the settings with the
   listener. *Done, with proofs.*
3. `Login`: sessions, the count of failed logins, the forced password change; and in
   `AdminServer` the migrations by two processes, the start, the shutdown and what is
   left running when the database is closed. *Done, with proofs.*
4. `Matching` and `Filters` against reference definitions, and `Sending`, the attempts over
   HTTP, which implements `Lifecycle` as well. *Done, with proofs;* page numbers and
   `clientIP` could follow.
5. Still to model: edits of a source in `ConfigStore`, with a slug that another one has
   (the index refuses it) or that leave it unfit for the side a rule has it on.
6. Compositions: a poller's worker inside `Delivery` (a message marked as read and
   not yet written), and `Forwarding` over `Delivery`'s resends.

## 3. How the modules relate to the code

| module | what it is |
| --- | --- |
| `Lifecycle` | the abstract specification: what the log promises about one record |
| `Backoff` | the loop of `backoff` |
| `Delivery` | the engine over the `deliveries` table; implements `Lifecycle` |
| `DeliveryInv` | the inductive invariant |
| `DeliveryProofs` | TLAPS proofs: `backoff` and types, what is inductive with `IInv`, then `Prompt`, `DeadJustified` and `Spacing` |
| `Forwarding` | a message on its way through sources, with its hop chain |
| `ForwardingProofs` | TLAPS proofs about it |
| `MailPoller` | supervisor, workers, mailbox |
| `MailPollerProofs` | TLAPS proofs about it |
| `ConfigStore` | `sources` and `rules`, forms, pruning, export and import |
| `ConfigProofs` | TLAPS proofs about it |
| `AdminServer` | the process from start to end: schema, settings, a cache of them, the listener |
| `AdminProofs` | TLAPS proofs about it |
| `Login` | sessions, failed logins, password changes |
| `LoginProofs` | TLAPS proofs about it |
| `Matching` | how the value of a condition is compared with that of a payload |
| `Filters` | conditions of rules, from the form's text to the decision; extends `Matching` |
| `FiltersProofs` | TLAPS proofs about `Matching` and `Filters` |
| `Encoding` | what Go's standard library makes of texts and values, for TLC: the parameters of `Filters` |
| `Sending` | one HTTP delivery, the verdict on its answer and the attempts that follow; implements `Lifecycle` |
| `SendingProofs` | TLAPS proofs about it |
| `...MC` | constants of the small instances |

**Conventions.** An action is what one goroutine does between two points where
another one can be seen to act: one SQL statement, one transaction, one channel
operation, one critical section. Statements on several connections may overlap in
time, but SQLite makes each of them atomic and lets one writer in at a time; a writer
that waits longer than `busy_timeout` (5 s) gets an error, which is one of the faults
the models inject. Where the code reads and then writes with nothing in between that
could tell the difference, the two are one action, and the comment there says why.
Operators whose names follow `Seeded bugs` are slips a programmer could make; they
are used only to see that a property can fail. CONSTANTS called `Max...` that
limit crashes, failures, edits and the like are bounds and part of no claim.

**Delivery.** `status`, `attempt`, `wait`, `out` are columns. `wait` is
`next_retry_at` relative to the clock, so that time is a countdown and the state
space finite. `batch`, `snap`, `cur`, `limit`, `verdict` are local variables of
`drain` and `attempt`: `snap` is the `attempt` of the *copy* the worker holds,
which may differ from the row. `notify` is the channel with its one token. A handler
in `req` runs `Submit`, `PostTest`, `RecordDropped` or `Replay`, target by target.
`ReadDue`, `Claim`, `Send`, `Record` are the four places where other code can
intervene; `Bury` and `Skip` are the early returns of `attempt`. `Fault` lets any
database call fail. `Crash` may come anywhere and keeps the columns only.
`sends`, `delivered`, `misread`, `lost`, `quiet`, `replay` are history that the properties
need; no guard reads them. `Send` covers every sender: the target takes the message or
not, and the answer comes back or not. `Lax` are the targets whose refusal may read as a
yes, which `Sending` shows to be those of `dingtalk` and `wecom` (`TextCode`); what was
so taken for delivered is in `misread`, and `Lifecycle` knows of it (`Misread`).

**Forwarding.** A message is where it arrives next and the chain it carries, plus what
it has really been through (`been`, `again`), which the program cannot know. A
delivery with its retries is `Taken`: the sender is through with the message or
sends it once more. Instances of Forward2Any are just more sources.

**MailPoller.** `sup` is the supervisor's position in `supervise` and `reconcile`,
`want` what `reconcile` read before it took the lock, `workers` is `p.workers`,
`wake` the token of `p.wake`. `work` are the goroutines of `poll` and `cycle`
together with the fetch goroutine and its channel. `gen` tells versions of a
source's settings apart where the program has only a time stamp in seconds. The
IMAP server is external. `SeenByFetch` says whether it flags a message when it sends
the body, as RFC 3501 demands of `BODY[]`; the in-memory server of the tests
does not, and both are checked. `MaySilence` lets it stop answering.

**ConfigStore.** A source stands for its contents, a number no other source has:
ids are what the program compares, contents what the operator meant. `deleter`
is `DeleteSource` with the copies `pruneSourceFromRules` works on. `form` is a page
that was rendered some time before it is submitted. `Import` is one transaction, as
in the code; its file may list the sources in another order.

**AdminServer.** `stage` is how far `run` is: `store.Open` with its migrations, serving,
the signal, `Shutdown`, the deferred stops, the closed database. `columns` is what the
tables show of the migrations, `version` what `user_version` says; `checker` is the
`healthcheck` process, which opens the same file and migrates too. `table` is the
settings table with two settings for all: the port, and one the server keeps a copy
of (`origins`). `handler` is a request that saves a form or imports a file, past the
server that accepted it if `old`; `mover` is the goroutine that waits and rebinds; `mu` and `settingsMu`
are the two locks. `port` is `s.port`, which stays set while a closed listener waits
for its requests (`accepting` is FALSE then). `taken` are ports of other processes.
A statement may fail at any time, and must when the database is closed. `stale`,
`refused`, `overtaken`, `deaf`, `hurried` and `crossed` are history: the ways in which memory and
table may legitimately differ, which the properties name.

**Login.** A password is known by how many changes came before it, so a session can be
traced (`by`) to the password it was issued against. A login reads the hash in one step and issues a
session in a later one: Turnstile's HTTP call and bcrypt lie between. `sessions` and
`limiter` hold what is left of each entry's time; an entry whose time is over counts
as deleted, which is how every reader of it treats it. `saver` is a request that
changes the password; `tried` is history: the wrong passwords of each address that are
still in the window, each with its age and a number that tells it from the others.

**Matching, Filters.** `Matching` has the comparisons of `match.go`, for any set of values and
any way to print them: `Sprint`, which stands for `fmt.Sprint`, is a parameter. So are the
other library functions in `Filters`: `Marshal`, `IsJson` and `Unmarshal` are `encoding/json`,
`Joined` is `strings.Fields` and `strings.Join`, `Fields` the splitting of a path at its blanks,
`Hash` the look at a first `#`, `Within` is containment of texts and stands
for RE2 too, with patterns of plain words. `FiltersAssumption` says what the conditions rely on;
`Encoding` computes these functions, recursively, and `filters.cfg` gives them to TLC.
Neither `Matching` nor `Filters` declares a recursive operator, so both can be proved about:
`lookup` is `Walk`, a recursive function on the segments of the path. A text is known by how it
reads: a bare word, a JSON literal, a quoted text, an array. `ParseFilterValue`,
`filterValueText`, `equal`, `toFloat`, `lookup` are the functions of these names. A path is
the text in front of the operator: `Split` cuts a line at its blanks, so an imported path of
several words gives another path, another operator and another value, and `ParseLine` passes over
a line whose first word begins with `#`. A rule has one condition or none, as a form has one line.

**Sending.** What the platforms answer is external and follows the tables in the
repository's tests; the HTTP client's error is the answer `NoAnswer`. `channelVerdict` is the
switch of that name, by kind. `LogStatus` is what the log shows meanwhile; with it as
`status`, what the platform took as `delivered`, and a refusal with an `errcode` that is a text as
`misread`, every step is one of `Lifecycle` or none (`LifecycleSteps`).

## 4. What is checked

Every run stays small enough for a laptop (at most three and a half minutes and some
two million states).

| run | properties | what it shows |
| --- | --- | --- |
| `delivery_interleaving` | `WorkLive` `ReplayTaken` `Prompt` `DeadJustified` `SettledStays` `LifecycleSafety` | two records, two handlers, one failing call: stale copies never touch what is settled, a replay is kept unless it raced with a send, no wake-up is lost, only the hopeless is given up |
| `delivery_retries` | `TypeOK` `Accounted` `AttemptBound` `LeaseHolds` `Spacing` | one record with the clock, a crash, a failed write and a changed limit: sends are counted before they happen and keep their distance, and the drain's round counter stays in range |
| `delivery_takeover` | `LifecycleLiveness` `StopReturns` | with fairness, and a target whose refusal may be misread: what a crash or a stop leaves behind is finished, and `Engine.Stop` returns |
| `replay_in_flight` | `ReplayHonoured` (violated) | a replay of the record that is being sent is overwritten by the result of that send |
| `loop_cutting` | `NoneReturns` `DropJustified` `Ends` | a ring with a detour through a mailbox, resends and a rename: no copy comes back through a source it went through; a resend is a copy of its own, which the code does not tell from a new message |
| `poller_mailbox` | `TakenOnce` `OneWorker` `NeverStuck` | a worker and its successor in the same mailbox: nothing is taken twice, nobody stays blocked on the channel |
| `poller_cycles` | `ReloadKept` `Converges` `StopReturns` `FailedRetried` | an edit around a reconcile and one failure: no edit is lost, failed means again, `Poller.Stop` returns |
| `configuration` | `RefsKept` `Pruned` | deletions at the same time as edits through stale forms, export while the tables change, import in any order |
| `settings_save` | `NoLostUpdate` `MemoryFollows` `SchemaWhole` `Drained` `Reachable` `Answered` `Exits` | the process with two requests that save, two rebinds, a health check that migrates, ports taken by others, a failure, a signal or a crash; `mu` held by a rebind or the shutdown that waits for requests is no deadlock |
| `login` | `SessionsCurrent` `TriesBounded` `DefaultGuarded` `LetInAgain` | two logins and two password changes at once, with time, a failure and a restart |
| `filters` | `MatchConsistent` `DecisionKept` | every operator with every way to write a value; imported paths with blanks and with `#` |
| `sending` | `NoFalseSuccess` `RepeatJustified` | every kind of HTTP target, over three attempts |

**Why these bounds.** The properties of `Delivery` speak of one record, the worker's
copy of it, and one handler that interferes; two records are there so that one can
wait in the batch while the other is sent. A batch of one is full with one record, which
is what makes the drain go round again. The retry limit is two where a record must fail, wait and fail for good. One
crash and one failed call each may fall between any two steps; a second would find
a state the first has already led to. The one target of `delivery_takeover` is in `Lax`; the
other runs have no such target, so there `LifecycleSafety` says that success is true. In `MailPoller` a cycle of three messages is what it
takes to fill a channel of one after the loop was left, and two slots hold a worker and its
successor; the fair run has one message, so that all its properties fit. In
`ConfigStore` a third source takes the place of a deleted one, which is what would
reveal a reused id; a form
selects one source on either side. In `AdminServer` two ports let a save
move the listener and the next one move it back, while another process takes either or
both; two migrations let the health check fall between them. A third save finds only
what two have led to (the invariants were also tried with three). In `Login`
a limit of two and a window of one let an entry expire between two failures; two
sessions are the one that changes the password and the one that should go. `Filters` and `Sending` enumerate the ways a value or an answer
can read, one representative each, with numbers that mean success to one platform
and refusal to another, or that are printed otherwise than they are written; in
`FiltersMC` the sets are closed under reading, showing and joining.

**Fairness.** Goroutines that can run do run, timers and connection deadlines fire: weak
fairness of the worker, the supervisor, a cycle and the clock. Go's `select` takes a
ready case at random, so a case that is ready again and again is taken: strong
fairness of `Halt`, `StopAll`, `Quit`. `sync.Mutex` hands the lock to a waiter that
starves, and a goroutine that can run does: strong fairness of the saves, of the rebinds
and of `run`. In `Login` only the clock is fair: nobody has to try again. A killed process is
started again (`restart: unless-stopped`). Nothing is assumed of operators,
targets, mail servers or other processes: HTTP calls are bounded by `clientTimeout`, the
fetch by its deadline. `sendMail` sets no timeout; that an SMTP dialogue ends is the
default of the go-mail library and taken from it. Before the fetch nothing bounds an IMAP
server that falls silent; the fair runs leave that out (`MaySilence = FALSE`), and the
safety run has it.

Most configurations outside `Delivery` switch the deadlock check off: when the
bounds are used up and nobody has anything left to do, the system rests.

### Where the code does something else than its documentation

`replay_in_flight` ends in a counterexample: the page answers a replay with "已重新入队"
(`web/server.go:285`), and `UpdateDelivery` (`engine/engine.go:424`) then writes the worker's
copy over the row. `ReplayTaken` is what remains true.

The other properties are stated so that they say what the code does. Where that is less
than its documentation says, the exception is part of the property or of its run:

| where | what the code does | how the models treat it |
| --- | --- | --- |
| `engine/engine.go:339` | any error of `GetSource` gives the record up for good | `DeadJustified` holds until the first failing call |
| `store/delivery.go:272` | `CleanupDeliveries` has no caller: settled records stay for ever | no action |
| `engine/engine.go:450` | a mail source has no slug, so mail forwarded to its own mailbox goes round | `NoneReturns` and `Ends` ask for a source with a slug in every circle |
| `mailin/poller.go:241` | `BODY[]` has set `\Seen` by the time a submission fails: the message is not retried | `FailedRetried` is checked with `SeenByFetch = FALSE` |
| `mailin/poller.go:246` | no deadline bounds the dialogue before the fetch: a silent server keeps the worker for ever | a worker so caught is `hung`; `NeverStuck` excepts it |
| `mailin/poller.go:148` | two saves in one second have the same stamp, and the second is not seen | `ReloadKept` and `Converges` except sources in `twice` |
| `store/rule.go:167` | a prune writes back a rule it read before it was edited | `RefsKept` excepts rules in `raced` |
| `web/settings.go:164` | a save compares its port with one that a rebind is about to leave | `PortFollows` excepts `overtaken` saves |
| `web/server.go:243` | when neither port can be bound the server listens nowhere and never tries again | `Reachable` excepts this (`deaf`) |
| `web/server.go:238` | a rebind waits five seconds for its requests, and no later shutdown waits for those it left | `Drained` excepts requests that are `old` |
| `web/server.go:258` | a rebind that waits while `Shutdown` runs opens a listener after it | `Drained` excepts this (`hurried`) |
| `web/auth.go:431` | a login that read the old hash and is slower than the change gets a session all the same, although "旧密码签发的会话一并作废" (`web/settings.go:172`) | `SessionsCurrent` excepts sessions in `late` |
| `web/auth.go:391` | attempts that passed the limiter together are all checked, whatever the limit | `TriesBounded` allows one more for each other request under way |
| `web/server.go:129` | a start that cannot read the settings serves every page under the default password | `DefaultGuarded` excepts this (`unread`) |
| `engine/match.go:132` | `eq true` holds of the string `"true"`, although "`true` 是布尔不是字符串" (`README.md:567`) | `equal` compares what is printed, as the code does; so a string that comes back from the form as a boolean decides the same (`DecisionKept`) |
| `web/rules.go:264` | blanks in a JSON string are merged too | `Joined`; such values are not `Kept` |
| `engine/match.go:84` | `in [push, tag]` is stored as a string, and matches nothing | `ParseFilterValue`, as in the code |
| `web/rules.go:371` | an imported path with blanks or a `#` in front is accepted, and refused, changed or dropped when the form of its rule is saved (250 to 258), although "手工改过的配置文件不该能塞进一条界面上根本存不下的规则" (`web/rules.go:347`) | `Split`, `ParseLine`; such conditions are not `Showable` |
| `web/rules.go:290` | a condition with an empty string or the string `"null"` cannot be saved again | `DecisionKept` is about values that are `Kept` |
| `web/rules.go:290` | the string `"1000000"` comes back as a number, which `fmt.Sprint` prints `1e+06`: `contains` and `regex` then decide otherwise | `Rewritten`; such strings are not `Kept` |
| `engine/channel.go:318` | an `errcode` that is not a number counts as success | `NoFalseSuccess` excepts `TextCode`, `SuccessTaken` the targets in `Lax` |
| `engine/channel.go:384` | a OneBot endpoint that answers `async` has queued the message; the code takes it for a refusal and sends it again | not among the `Accepting` answers: `RepeatJustified` does not speak of it |

## 5. What is proved

For every value of the constants - any number of records, sources, handlers, logins and
rebinds, every batch size, limit and time - and any number of crashes and failures:

| theorem | statement |
| --- | --- |
| `DeliveryProofs!TypeSafe` | `SafeSpec => []TypeOK` |
| `DeliveryProofs!WorkLiveSafe` | `SafeSpec => []WorkLive` |
| `DeliveryProofs!AccountedSafe` | `SafeSpec => []Accounted` |
| `DeliveryProofs!AttemptBoundSafe` | `SafeSpec => []AttemptBound` |
| `DeliveryProofs!LeaseSafe` | `SafeSpec => []LeaseHolds` |
| `DeliveryProofs!ReplaySafe` | `SafeSpec => []ReplayTaken` |
| `DeliveryProofs!SettledSafe` | `SafeSpec => SettledStays` |
| `DeliveryProofs!LifecycleSafe` | `SafeSpec => LifecycleSafety`: the engine implements the abstract life cycle |
| `DeliveryProofs!SuccessSafe` | `SafeSpec => []SuccessTaken`: success is shown only of what the target took, or of a target in `Lax`; by way of the refinement |
| `DeliveryProofs!PromptSafe` | `SafeSpec => []Prompt` |
| `DeliveryProofs!DeadSafe` | `SafeSpec => []DeadJustified` |
| `DeliveryProofs!SpacingSafe` | `SafeSpec => Spacing` |
| `DeliveryProofs!BackoffRange` | `backoff(base, n)` is in `1 .. MaxBackoff` and at least `backoff(base, 1)`, for all integers |
| `DeliveryProofs!BackoffDoubles` | `backoff(base, n + 1)` is twice `backoff(base, n)`, or `MaxBackoff` if that is less |
| `DeliveryProofs!BackoffMonotone` | a later attempt waits no less than an earlier one |
| `AdminProofs!TypeSafe` | `SafeSpec => []TypeOK`: an open listener has a port of its own, no migration too many |
| `AdminProofs!UpdatesSafe` | `SafeSpec => []NoLostUpdate` |
| `AdminProofs!MemorySafe` | `SafeSpec => []MemoryFollows` |
| `AdminProofs!SchemaSafe` | `SafeSpec => []SchemaWhole` |
| `AdminProofs!DrainedSafe` | `SafeSpec => []Drained` |
| `AdminProofs!LocksSafe` | `SafeSpec => []LocksHeld`: both mutexes are held by exactly the goroutine in their section |
| `LoginProofs!TypeSafe` | `SafeSpec => []TypeOK` |
| `LoginProofs!SessionsSafe` | `SafeSpec => []SessionsCurrent` |
| `LoginProofs!TriesSafe` | `SafeSpec => []TriesBounded` |
| `LoginProofs!DefaultSafe` | `SafeSpec => []DefaultGuarded` |
| `LoginProofs!LockoutSafe` | `SafeSpec => []LockedByTry`: a lock-out ends when a wrong password that counts leaves the window |
| `ForwardingProofs!TypeSafe` | `SafeSpec => []TypeOK` |
| `ForwardingProofs!NoneReturnsSafe` | `SafeSpec => []NoneReturns`: for each copy and its own way |
| `ForwardingProofs!DropSafe` | `SafeSpec => []DropJustified` |
| `ForwardingProofs!HopsSafe` | `IsFiniteSet(Slugs) => (SafeSpec => [](HopsOnce /\ HopsShort))`: a chain never outgrows the slugs |
| `ConfigProofs!IdsSafe` | `Spec => []TypeOK`: no id is given out twice, nor held before it is |
| `ConfigProofs!RefsSafe` | `Spec => []RefsKept` |
| `ConfigProofs!PrunedSafe` | `Spec => []Pruned` |
| `MailPollerProofs!TypeSafe` | `SafeSpec => []TypeOK`: a channel never holds more than its capacity |
| `MailPollerProofs!OneWorkerSafe` | `SafeSpec => []OneWorker` |
| `MailPollerProofs!ReloadSafe` | `SafeSpec => []ReloadKept` |
| `MailPollerProofs!TakenSafe` | `SeenByFetch => (SafeSpec => []TakenOnce)` |
| `MailPollerProofs!MarkedSafe` | `SafeSpec => []MarkedTaken`: where the program sets the flag, only what was handed over is flagged |
| `MailPollerProofs!StoppedSafe` | `SafeSpec => []StoppedForGood`: after `stopAll` whoever is left was told to leave |
| `MailPollerProofs!CycleBoundedSafe` | `SafeSpec => []CycleBounded`: at most `3 * MaxPerCycle + 1` steps between the search of a cycle and its end |
| `MailPollerProofs!CycleShrinksSafe` | `SafeSpec => CycleShrinks`: every step of it lowers what is left |
| `SendingProofs!FalseSuccessSafe` | `Spec => []NoFalseSuccess` |
| `SendingProofs!RepeatSafe` | `Spec => []RepeatJustified` |
| `SendingProofs!LifecycleStepsSafe` | `Spec => LifecycleSteps`: attempts over HTTP implement the abstract life cycle, and only `TextCode` is misread |
| `FiltersProofs!ComparedAlikeSafe` | equal values are compared alike: `ComparedAlike(value)` for every value |
| `FiltersProofs!OneOrderSafe` | of two numbers exactly one of `eq`, `gt`, `lt` holds: `OneOrder(value)` for every value |
| `FiltersProofs!MatchConsistentSafe` | `Spec => []MatchConsistent`: for payloads and paths of any depth |
| `FiltersProofs!DecisionKeptSafe` | `Spec => []DecisionKept`: for every condition that is `Showable` |

`HopsOnce`, `HopsShort`, `MarkedTaken`, `StoppedForGood`, `CycleBounded`, `CycleShrinks`, `LocksHeld`, `LockedByTry`, `SuccessTaken`, `LifecycleSteps` and the `TypeOK` of the modules other
than `Delivery` are properties of their modules that no run lists. Each was model-checked on
the small instances before it was proved.

The assumptions are those of the modules: `AdminServerAssumption`, `LoginAssumption`,
`MailPollerAssumption` and `ConfigStoreAssumption` only tell values apart and say that what is counted is finite.
`SendingAssumption` allows any of the kinds of targets the code knows and any numbers of refusal.
`MatchingAssumption` says that a value is printed as something that reads as a number
exactly if the code takes the value for one, that numbers are whole (floating point
is left out), and that the items of a list are values. `FiltersAssumption` adds that a JSON
value survives being written and read, that strings and booleans are printed as they are,
that texts which read as JSON look like it, that a word of a path is one word, and that the sets
hold what is made of their members.
`ForwardingAssumption` gives every source a slug of its own or none: the index
`idx_sources_slug` sees to that within one instance, and between instances it is
what the operator has to see to. `TakenSafe` asks for a mail server that
keeps to RFC 3501 (`SeenByFetch`). Of `BackoffAssumption`
and `DeliveryAssumption` the one with content is `Lease > SendTimeout`
(`sendLease` is two minutes, `clientTimeout` 30 s, `engine.go:20` and `25`; it stands for
HTTP targets, and for SMTP as far as the library's default timeouts keep below the lease).

**The argument for `Delivery`.** None of the properties is inductive by itself. `DeliveryInv!IInv`
says what is true between two steps. `Control` ties the worker's position to what it
holds. `AccountInv` is the heart: as long as the operator leaves a record
alone, the worker's copy has the attempt number of the row, and a record about to be
sent already counts that send; hence a crash or failed write can only make the
table say too much. `BoundInv` splits the retry limit: an unfinished record that is
not being sent has an attempt left, so a claim brings it to the limit at most, and
every lost result pays for one more. `ReplayInv` separates a replay of the record
being sent (`raced`, which the code loses) from all the others. `LeaseInv` gives the exact
remaining lease during a send, from which `Lease > SendTimeout` yields `LeaseHolds`.
`VerdictInv` carries what the refinement needs: success is recorded only of what the
target took or what was misread; `MisreadInv`, that a misread record has a target in `Lax` and
keeps it, as ids are not reused. With the abstract `SuccessTrue` that gives `SuccessTaken`. Each action gets a step, and under it each part it can disturb.
`SettledStays` and the refinement are step properties proved from `IInv`; the
refinement mapping is the identity on `status`, `delivered` and `misread`, and every step that
changes none of them is a stutter.

`DeliveryProofs` then states what a step does to the rows, once for each group of
actions (`RecordEffect`, `BeginEffect`, `HandlerEffect`), and carries three
invariants over these. `PromptInv` says where a record that is due at once is still in
sight: before a drain, in the batch, behind a full batch, or with a token under way. `DeadInv`
remembers that the limit an attempt is judged by was in force when it began. `QuietInv`
keeps the time in a row at least as long as what is left of the distance, so that
`DueDeliveries` cannot read it too early; it rests on `BackoffRange`, as a wait of zero
would break it. That one is an induction on the rounds of the loop, over sets of
numbers (`NatSets`); `BackoffDoubles` says what one more round does, and by induction `BackoffMonotone`
follows. `DeliveriesFinite` is used where a batch that is not full has
to hold all that is due.

**The argument for `AdminServer`.** `HandlerType` says what a handler holds by where it
is; `LockInv` that only the holder of `settingsMu` is past `Lock`. Then `CopyInv` follows:
what a handler has read is what the table still says, and the table is what was `meant`.
`CacheInv` follows the cache through the gap between write and refresh. `PortInv` is
the subtle part: between two saves the listener is where the table says unless a
rebind to exactly that port is pending, was refused, or the last save read a port that
a pending rebind was about to leave. `SchemaInv` says that neither process is ahead of
the file, so that one that is behind fails on the other's work instead of repeating it.
`ServeInv` ties `stage` to the listener, `mu` and the requests left. `TypeInv` adds to this that a
listener is opened only on a free port and keeps it: a rebind closes the old one before it lets go
of `port`. `HeldInv` is the other half of `LockInv` and `ServeInv`: whoever leaves a section gives the
mutex back, which is what `Answered` and `Exits` build on.

**The argument for `Login`.** `CurrentInv` splits sessions by how they came about; a
session of an older password exists only while the change that revokes it holds
`settingsMu`, and a login that completes then is revoked with the others. `FlagInv` says
the same of the flag. For `TriesBounded`, `AddressInv` compares what the limiter remembers with what really
happened: its entry lives at least as long as the youngest try that counts and holds at
least as many; so a request that passes `blocked` found room for one more, and the tries together
with the requests past the limiter (`Passed`) are at most the limit and the other requests.
`Tied` is the exact half of it: an entry that lives was last set by a try that counts, and both
age together, so nobody is locked out for longer than a real try lasts.

**The argument for `Forwarding`.** `ChainComplete`: the chain holds the slug of every
source the message has been to that has one and kept it; so where `NoneReturns` could
break, `IsLoop` has already said no. `ChainTrue` is the converse, as long as nobody
renames: every entry is the slug of a source the message was at, and with
`SlugsUnique` that is the source that drops it. `HopsOnce` is inductive whoever renames,
because `IsLoop` reads the chain and not what happened; `HopsShort` follows by counting, as a chain
without repetition is an injection into the slugs.

**The argument for `MailPoller`.** `AssignInv` ties the goroutines to `p.workers`: one that
is not cancelled is the one on record for its source. `FreshInv` says
that what the supervisor has not seen yet has left a token or a handler that will
leave one, also while `want` waits to be applied; `StampInv` that equal stamps mean
equal settings, but for sources in `twice`. For `TakenOnce`, `OnceInv` says that a
message a worker has taken is nobody else's: those that were cancelled take no more,
the one that is not is alone in its mailbox, and no later search finds what was flagged.
`FlowInv` follows a message from the channel to the flag: what a worker has `handled` was
`taken`, and only that is flagged. `BoundInv` has the counters; that the channel never
holds more than its capacity, for any number of workers, is also what `NeverStuck` rests on.
`DownInv` says that a supervisor that has ended has nobody on record and nothing revives it; with
`AssignInv`, whoever still runs was cancelled - the safety half of `StopReturns`. `Left` counts what a cycle has
before it, three steps for a message on the server, two in the channel, one in hand: `Along` says what
one step of anybody does to a goroutine, and that nothing but its own steps, all of them downwards, changes the count.
With `NeverStuck` and goroutines that run, that is why a cycle ends.

**The argument for `ConfigStore`.** `TypeOK` holds the reason why ids may be compared at
all: what a table, a rule, a copy or a form holds was given out before, and a new row gets a
later one. `RefsInv` says of everything that will ever be written to a rule - the rule, the
copies of a deletion, an open form, the entries of a file - that it leads to what was meant
and is still there; a deletion takes the contents out on both sides (`SideShrinks`), and
an import puts each source at its position whatever order the file is in (`PlacedWhere`,
a pigeonhole argument). `PruneInv` says which ids of a rule may point nowhere: the one that
a deletion under way will still take out.

**The argument for `Sending`.** First what can be said of one answer, kind by kind: every yes is
read as a yes (`VerdictComplete`), and what is read as a yes is no refusal, but for an `errcode`
that is a text (`VerdictSound`). `IInv` carries it over the attempts. `Heard` says that an answer
waiting to be judged is a refusal unless the platform took the message at some time, `Said` that a message taken
once and not `unheard` is settled or has its yes on the way - without it `RepeatJustified` says
nothing of an attempt that has yet to be judged. For the refinement, `Left` ties `tries` to where the
attempt is, so that the log shows what `Lifecycle` expects; `TextHeard` says that an `errcode` that
is a text is about to be judged or has been judged a yes (`TextAnswer`, `TextDelivered`), so that
`misread` never loses a record.

**The argument for `Matching` and `Filters`.** `equal` compares as numbers if both values are and as text if not,
and such a mixture is seldom transitive. Here it is, because no value that is a number
is printed as one that is none (`MatchingAssumption`): `EqualSplits` separates the two
halves, and from `EqualTransitive` and `EqualOrdered` the conditions follow one by one.
`MatchConsistent` adds what `lookup` finds, by induction on the segments of the path
(`Counting`): `WalkSteps` and `NestedSteps` unfold the recursive functions, `FieldFound` puts them together
from the inside of a payload outwards, `PathFound` matches `Walk` with the trail of `HasPath` in either
direction. For `DecisionKept`, `FiltersTyped` says that what is stored was accepted and what a form
shows is a line or an imported condition; a path of one word that is no comment comes back as
itself, whatever `Split` does to the others; `ValueKept` that what a kept value comes back as is the same or, for a string that
reads as a number or a boolean, prints the same and is a number if the string is; and `AlikeDecide`
that conditions with two such values decide alike, operator by operator.

**Only model-checked:** liveness (`LifecycleLiveness`, `StopReturns`, `Converges`, `Ends`,
`Reachable`, `Answered`, `LetInAgain`, `FailedRetried`, `Exits`) and `NeverStuck`: the prover
can do neither fairness nor ENABLED. `ReplayHonoured` does not hold. That `Encoding` is what Go's library does
rests on reading its documentation; TLC checks on the instance that it meets `FiltersAssumption`.

## 6. What is not modelled

Templates, pages, compression, themes, logging, signatures and the wording of
anything: pure text. `verifyInbound`, `ipAllowed`, `guard` and `validateSettings`: decisions on one request,
without state. SMTP and IMAP themselves: libraries.
