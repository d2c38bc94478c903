------------------------------- MODULE Sending -------------------------------
(***************************************************************************)
(* One delivery over HTTP: the request, the target's answer, the verdict   *)
(* on it and the attempts that follow.  A webhook answers with its status. *)
(* Most chat platforms answer HTTP 200 to what they refuse, with a         *)
(* business code in the body, each under another name.  A wrong verdict    *)
(* either drops a message that shows as delivered or sends one again that  *)
(* arrived.                                                                *)
(*                                                                         *)
(* An answer is [status, json, body]; body maps the fields it has to       *)
(* <<"num", n>> or <<"text", s>>.  What the platforms answer is external:  *)
(* it follows the answers channel_test.go and telegram_test.go list.       *)
(***************************************************************************)
EXTENDS Integers, FiniteSets

CONSTANTS
  Kinds,       \* the kinds of targets of the instance
  Refusals,    \* the numbers platforms refuse with
  MaxAttempts  \* bound: attempts, retry_max in the settings

\* The kinds of targets that are sent to over HTTP.
HttpKinds ==
  {"dingtalk", "wecom", "feishu", "bark", "serverchan", "wxpusher", "gotify", "onebot",
   "telegram", "webhook"}

ASSUME SendingAssumption == Kinds \subseteq HttpKinds /\ MaxAttempts \in Nat \ {0}

VARIABLES
  source,     \* the target: [kind, prefix, address, target, spt]
  pc,         \* "idle", "asked", "answered", "sent", "failed" or "dead"
  request,    \* the request on its way: the conversation it names, or "none"
  answer,     \* the answer the engine reads
  tries,      \* attempts so far
  accepted,   \* history: how often the platform took the message
  unheard     \* history: it took the message and the engine was not told so

vars == <<source, pc, request, answer, tries, accepted, unheard>>

-----------------------------------------------------------------------------
(* The request                                                             *)

\* What the operator fills in.  The prefix of the target id and the name of the
\* endpoint may say which conversation a OneBot message is for.
Filled ==
  [kind : Kinds, prefix : {"none", "user_id", "group_id"},
   address : {"none", "user_id", "group_id"}, target : BOOLEAN, spt : BOOLEAN]

\* The field that names the conversation; the empty set if none is certain.
oneBotTarget(s) ==
  IF ~s.target THEN {}
  ELSE (IF s.prefix # "none" THEN {s.prefix} ELSE {s.address}) \ {"none"}

\* The request as far as it depends on the configuration: empty if refused.
buildChannelRequest(s) ==
  CASE s.kind = "onebot"   -> oneBotTarget(s)
    [] s.kind = "wxpusher" -> IF s.spt THEN {"none"} ELSE {}
    [] OTHER               -> {"none"}

-----------------------------------------------------------------------------
(* The platforms                                                           *)

CodeFields(k) ==
  CASE k \in {"dingtalk", "wecom"}            -> {"errcode"}
    [] k = "feishu"                           -> {"code", "StatusCode"}
    [] k \in {"bark", "serverchan", "wxpusher"} -> {"code"}
    [] k = "gotify"                           -> {"id"}
    [] k = "onebot"                           -> {"retcode"}
    [] k = "telegram"                         -> {"ok"}
    [] OTHER                                  -> {}

Success(k) == CASE k = "bark" -> {200} [] k = "wxpusher" -> {0, 1000} [] k \in {"gotify", "telegram"} -> {1} [] OTHER -> {0}

Ok(body) == [status |-> 200, json |-> TRUE, body |-> body]

\* A body of one field that holds a number or a text.
OkField(g, w, n) == Ok([f \in {g} |-> <<w, n>>])

Page == [status |-> 200, json |-> FALSE, body |-> <<>>]

\* The error of the HTTP client when nothing comes back.
NoAnswer == [status |-> 0, json |-> FALSE, body |-> <<>>]

\* The "async" of OneBot (queued, and no final word) is not among them: the code
\* takes every status but "ok" for a refusal (channel.go:384).
Accepting(k) ==
  (IF k = "webhook" THEN {Page} ELSE {}) \cup
  {OkField(g, "num", n) : g \in CodeFields(k), n \in Success(k)}
  \cup (IF k = "onebot" THEN {Ok([f \in {"status", "retcode"} |->
                                    IF f = "status" THEN <<"text", "ok">> ELSE <<"num", 0>>])} ELSE {})

Errors == {[status |-> 500, json |-> j, body |-> <<>>] : j \in BOOLEAN}

Refusing(k) ==
  Errors \cup (IF k = "webhook" THEN {} ELSE {Page, Ok(<<>>)}) \cup
  (IF k = "telegram" THEN {} ELSE IF k = "gotify" THEN {OkField("error", "text", "refused")}
   ELSE {OkField(g, w, n) : g \in CodeFields(k), w \in {"num", "text"}, n \in Refusals \ Success(k)})
  \cup (IF k = "onebot" THEN {OkField("status", "text", "failed")} ELSE {})

-----------------------------------------------------------------------------
(* The verdict                                                             *)

\* The first of two fields that holds a number; the empty set if neither does.
Number(body, f) == {body[g][2] : g \in {g \in {f} \cap DOMAIN body : body[g][1] = "num"}}
codeOf(body, f, g) == IF Number(body, f) # {} THEN Number(body, f) ELSE Number(body, g)
Text(body, f) == {body[g][2] : g \in {f} \cap DOMAIN body}

Coded(body, f, g, good) == codeOf(body, f, g) # {} /\ codeOf(body, f, g) \subseteq good

VerdictByStatus(k, a) == a.status \in 200..299
VerdictStrict(k, a) == a.status \in 200..299 /\ a.json /\ Coded(a.body, "code", "errcode", {0})

\* channelVerdict: whether the attempt counts as delivered.
channelVerdict(k, a) ==
  /\ a.status \in 200..299
  /\ a.json
  /\ CASE k \in {"dingtalk", "wecom"} ->
            "errcode" \in DOMAIN a.body /\ codeOf(a.body, "errcode", "errcode") \subseteq {0}
       [] k = "feishu"     -> Coded(a.body, "code", "StatusCode", {0})
       [] k = "bark"       -> Coded(a.body, "code", "code", {200})
       [] k = "serverchan" -> Coded(a.body, "code", "code", {0})
       [] k = "wxpusher"   -> Coded(a.body, "code", "code", {0, 1000})
       [] k = "gotify"     -> Text(a.body, "error") = {} /\ "id" \in DOMAIN a.body
       [] k = "onebot"     -> /\ Text(a.body, "status") \subseteq {"ok"}
                              /\ Coded(a.body, "retcode", "retcode", {0})
       [] OTHER            -> TRUE

\* Telegram says whether it is ok, whatever the status.
sendTelegram(a) == a.json /\ "ok" \in DOMAIN a.body
sendWebhook(a) == a.status \in 200..299

Delivered(k, a) ==
  CASE k = "webhook"  -> sendWebhook(a)
    [] k = "telegram" -> sendTelegram(a)
    [] OTHER          -> channelVerdict(k, a)

-----------------------------------------------------------------------------
Init ==
  /\ source \in Filled
  /\ pc = "idle"
  /\ request = "none"
  /\ answer = NoAnswer
  /\ tries = 0
  /\ accepted = 0
  /\ unheard = FALSE

\* An attempt failed: try again while attempts are left.
Failed == IF tries' < MaxAttempts THEN "idle" ELSE "dead"

Ask ==
  /\ pc = "idle"
  /\ tries' = tries + 1
  /\ \/ /\ buildChannelRequest(source) # {}
        /\ request' \in buildChannelRequest(source)
        /\ pc' = "asked"
     \/ /\ buildChannelRequest(source) = {}
        /\ pc' = Failed
        /\ UNCHANGED request
  /\ UNCHANGED <<source, answer, accepted, unheard>>

\* The platform takes the message.  The answer may be lost on the way, or an
\* error of a gateway may stand in for it.
Accept ==
  /\ pc = "asked"
  /\ pc' = "answered"
  /\ accepted' = accepted + 1
  /\ \/ answer' \in Accepting(source.kind) /\ UNCHANGED unheard
     \/ answer' \in Errors \cup {Page, NoAnswer} /\ unheard' = TRUE
  /\ UNCHANGED <<source, request, tries>>

Refuse ==
  /\ pc = "asked"
  /\ pc' = "answered"
  /\ answer' \in Refusing(source.kind) \cup {NoAnswer}
  /\ UNCHANGED <<source, request, tries, accepted, unheard>>

Judge ==
  /\ pc = "answered"
  /\ UNCHANGED tries
  /\ pc' = IF Delivered(source.kind, answer) THEN "sent" ELSE Failed
  /\ UNCHANGED <<source, request, answer, accepted, unheard>>

Next == Ask \/ Accept \/ Refuse \/ Judge

Spec == Init /\ [][Next]_vars

-----------------------------------------------------------------------------
(* Properties                                                              *)

\* For these two a field that is there and holds no number is no refusal.
TextCode ==
  /\ source.kind \in {"dingtalk", "wecom"} /\ "errcode" \in DOMAIN answer.body
  /\ answer.body["errcode"][1] = "text"

(* What shows as delivered was taken by the platform (channel.go:274:      *)
(* reading the status alone would record a refusal as a success, "白白把消 *)
(* 息丢掉还显示绿灯") - an errcode written as a string excepted.             *)
NoFalseSuccess == pc = "sent" => accepted > 0 \/ TextCode

(* A message is sent again only if the platform refused it or its answer   *)
(* did not come through: no way to say yes is read as a no.                *)
RepeatJustified == accepted > 1 => unheard

\* What the delivery log shows meanwhile: the first attempt leaves the record
\* pending until its outcome is known.
LogStatus ==
  IF pc = "sent" THEN "success"
  ELSE IF pc = "dead" THEN "dead"
  ELSE IF tries = 0 \/ (tries = 1 /\ pc # "idle") THEN "pending" ELSE "failed"

Life == INSTANCE Lifecycle WITH
  Deliveries <- {0},
  status     <- [d \in {0} |-> LogStatus],
  delivered  <- IF accepted > 0 THEN {0} ELSE {},
  misread    <- IF TextCode THEN {0} ELSE {}

(* An attempt over HTTP moves the log as Lifecycle promises: a settled     *)
(* record is not sent again, and success is recorded of what the platform  *)
(* took or of a refusal whose errcode is written as a string, no other.    *)
LifecycleSteps == [][Life!Next]_(Life!lifecycleVars)
=============================================================================
