---------------------------- MODULE SendingProofs ----------------------------
(***************************************************************************)
(* Proofs about one delivery over HTTP.  What can be said of one answer -  *)
(* every yes is read as a yes, and a refusal never as a yes but for the    *)
(* errcode that is no number - comes first; the invariant carries it over  *)
(* the attempts.                                                           *)
(***************************************************************************)
EXTENDS Sending, TLAPS

\* Answers that say the platform did not take the message, or say nothing.
NotTaken(k) == Refusing(k) \cup {NoAnswer}

\* The errcode of an answer of these two kinds is there and is no number.
TextErrcode(k, a) ==
  /\ k \in {"dingtalk", "wecom"} /\ "errcode" \in DOMAIN a.body
  /\ a.body["errcode"][1] = "text"

TypeInv ==
  /\ source \in Filled
  /\ pc \in {"idle", "asked", "answered", "sent", "dead"}
  /\ tries \in 0..MaxAttempts
  /\ accepted \in Nat
  /\ unheard \in BOOLEAN

\* An attempt is only begun while attempts are left, and every other state is
\* of an attempt.
Left == IF pc = "idle" THEN tries < MaxAttempts ELSE tries > 0

\* What there is to judge is a refusal unless the platform took the message.
Heard == pc = "answered" => accepted > 0 \/ answer \in NotTaken(source.kind)

\* A message taken once, with the answer on its way, is settled or about to be.
Said ==
  accepted > 0 /\ ~unheard =>
    /\ accepted = 1
    /\ pc = "sent" \/ (pc = "answered" /\ answer \in Accepting(source.kind))

\* An errcode that is no number is judged at once, as a yes, and the message is settled.
TextHeard ==
  TextCode => pc \in {"answered", "sent"} /\ answer.status = 200 /\ answer.json

IInv == TypeInv /\ Left /\ Heard /\ NoFalseSuccess /\ Said /\ TextHeard

-----------------------------------------------------------------------------
(* One answer                                                              *)

\* What is found in a body of one field.
LEMMA OneField ==
  ASSUME NEW g, NEW w, NEW n, NEW b, b = [f \in {g} |-> <<w, n>>]
  PROVE  /\ DOMAIN b = {g}
         /\ b[g][1] = w
         /\ w = "num" => Number(b, g) = {n}
         /\ w # "num" => Number(b, g) = {}
         /\ \A f : f # g => Number(b, f) = {} /\ Text(b, f) = {}
<1>1. DOMAIN b = {g} /\ b[g] = <<w, n>>
  OBVIOUS
<1>2. b[g][1] = w /\ b[g][2] = n
  BY <1>1
<1>3. \A f : f # g => Number(b, f) = {} /\ Text(b, f) = {}
  BY <1>1 DEF Number, Text
<1>4. w = "num" => Number(b, g) = {n}
  BY <1>1, <1>2 DEF Number
<1>5. w # "num" => Number(b, g) = {}
  BY <1>1, <1>2 DEF Number
<1> QED BY <1>1, <1>2, <1>3, <1>4, <1>5

\* The kinds read one field each, feishu one of two: the number it holds decides.
LEMMA NumberDecides ==
  ASSUME NEW k \in HttpKinds, k \notin {"webhook", "telegram", "gotify"},
         NEW g \in CodeFields(k), NEW n,
         NEW a, a = OkField(g, "num", n)
  PROVE  Delivered(k, a) <=> n \in Success(k)
<1> DEFINE b == [f \in {g} |-> <<"num", n>>]
<1>1. a.status = 200 /\ a.json = TRUE /\ a.body = b
  BY DEF Ok, OkField
<1>2. /\ DOMAIN b = {g}
      /\ Number(b, g) = {n}
      /\ \A f : f # g => Number(b, f) = {} /\ Text(b, f) = {}
  BY OneField
<1>3. Delivered(k, a) <=> channelVerdict(k, a)
  BY DEF Delivered
<1> HIDE DEF b
<1> USE <1>1, <1>2, <1>3 DEF channelVerdict, Coded, codeOf, CodeFields, Success
<1>4. CASE k \in {"dingtalk", "wecom"}
  BY <1>4
<1>5. CASE k = "feishu"
  BY <1>5
<1>6. CASE k \in {"bark", "serverchan", "wxpusher"}
  BY <1>6
<1>7. CASE k = "onebot"
  BY <1>7
<1> QED BY <1>4, <1>5, <1>6, <1>7 DEF HttpKinds

\* Every way a platform says yes counts as delivered (channel.go, channelVerdict;
\* telegram.go and webhook.go for their kinds).
LEMMA VerdictComplete ==
  ASSUME NEW k \in HttpKinds, NEW a \in Accepting(k)
  PROVE  Delivered(k, a)
<1>1. CASE k = "webhook"
  <2>1. a = Page
    BY <1>1 DEF Accepting, CodeFields
  <2> QED BY <1>1, <2>1 DEF Delivered, sendWebhook, Page
<1>2. CASE k = "telegram"
  <2>1. PICK n : a = OkField("ok", "num", n)
    BY <1>2 DEF Accepting, CodeFields
  <2> QED BY <1>2, <2>1 DEF Delivered, sendTelegram, Ok, OkField
<1>3. CASE k = "gotify"
  <2>1. PICK n : a = OkField("id", "num", n)
    BY <1>3 DEF Accepting, CodeFields
  <2> DEFINE b == [f \in {"id"} |-> <<"num", n>>]
  <2>2. DOMAIN b = {"id"} /\ Text(b, "error") = {}
    BY OneField
  <2>3. a.status = 200 /\ a.json = TRUE /\ a.body = b
    BY <2>1 DEF Ok, OkField
  <2> HIDE DEF b
  <2> QED BY <1>3, <2>2, <2>3 DEF Delivered, channelVerdict
<1>4. CASE k \notin {"webhook", "telegram", "gotify"}
  <2>1. CASE \E g \in CodeFields(k), n \in Success(k) : a = OkField(g, "num", n)
    BY <1>4, <2>1, NumberDecides
  <2> DEFINE b == [f \in {"status", "retcode"} |->
                     IF f = "status" THEN <<"text", "ok">> ELSE <<"num", 0>>]
  <2>2. CASE k = "onebot" /\ a = Ok(b)
    <3>1. a.status = 200 /\ a.json = TRUE /\ a.body = b
      BY <2>2 DEF Ok
    <3>2. /\ DOMAIN b = {"status", "retcode"}
          /\ b["status"] = <<"text", "ok">>
          /\ b["retcode"] = <<"num", 0>>
      OBVIOUS
    <3> HIDE DEF b
    <3>3. Text(b, "status") = {"ok"}
      BY <3>2 DEF Text
    <3>4. Number(b, "retcode") = {0}
      BY <3>2 DEF Number
    <3> QED BY <2>2, <3>1, <3>3, <3>4 DEF Delivered, channelVerdict, Coded, codeOf
  <2>3. \/ \E g \in CodeFields(k), n \in Success(k) : a = OkField(g, "num", n)
        \/ k = "onebot" /\ a = Ok(b)
    BY <1>4 DEF Accepting
  <2> QED BY <2>1, <2>2, <2>3
<1> QED BY <1>1, <1>2, <1>3, <1>4

\* Of the answers that say no, and of silence, only an errcode that is no number
\* counts as delivered.
LEMMA VerdictSound ==
  ASSUME NEW k \in HttpKinds, NEW a \in NotTaken(k), Delivered(k, a)
  PROVE  TextErrcode(k, a)
<1>1. a \notin Errors \cup {NoAnswer}
  <2> SUFFICES ASSUME a \in Errors \cup {NoAnswer} PROVE FALSE
    OBVIOUS
  <2>1. a.status \in {0, 500} /\ a.body = <<>>
    <3>1. CASE a \in Errors
      <4>1. PICK j \in BOOLEAN : a = [status |-> 500, json |-> j, body |-> <<>>]
        BY <3>1 DEF Errors
      <4> QED BY <4>1
    <3>2. CASE a = NoAnswer
      BY <3>2 DEF NoAnswer
    <3> QED BY <3>1, <3>2
  <2>2. a.status \notin 200..299
    <3>1. \A n \in {0, 500} : n \notin 200..299
      OBVIOUS
    <3> QED BY ZenonT(40), <2>1, <3>1
  <2>3. "ok" \notin DOMAIN a.body
    <3>1. DOMAIN <<>> = {}
      OBVIOUS
    <3> QED BY <2>1, <3>1
  <2> QED BY <2>2, <2>3 DEF Delivered, sendWebhook, sendTelegram, channelVerdict
<1>2. a # Page \/ k = "webhook"
  BY DEF Page, Delivered, sendTelegram, channelVerdict
<1>3. a # Ok(<<>>) \/ k = "webhook"
  <2> SUFFICES ASSUME a = Ok(<<>>), k # "webhook" PROVE FALSE
    OBVIOUS
  <2>1. a.body = <<>> /\ DOMAIN a.body = {}
    BY DEF Ok
  <2>2. \A f, g : codeOf(a.body, f, g) = {}
    BY <2>1 DEF codeOf, Number
  <2> QED BY <2>1, <2>2 DEF Delivered, sendTelegram, channelVerdict, Coded, HttpKinds
<1>4. a # OkField("error", "text", "refused") \/ k # "gotify"
  <2> DEFINE b == [f \in {"error"} |-> <<"text", "refused">>]
  <2> SUFFICES ASSUME a = Ok(b), k = "gotify" PROVE FALSE
    BY DEF OkField
  <2>1. a.body = b
    BY DEF Ok
  <2>2. DOMAIN b = {"error"}
    BY OneField
  <2> QED BY <2>1, <2>2 DEF Delivered, channelVerdict
<1>5. a # OkField("status", "text", "failed") \/ k # "onebot"
  <2> DEFINE b == [f \in {"status"} |-> <<"text", "failed">>]
  <2> SUFFICES ASSUME a = Ok(b), k = "onebot" PROVE FALSE
    BY DEF OkField
  <2>1. a.body = b
    BY DEF Ok
  <2>2. b["status"] = <<"text", "failed">> /\ DOMAIN b = {"status"}
    OBVIOUS
  <2> HIDE DEF b
  <2>3. Text(b, "status") = {"failed"}
    BY <2>2 DEF Text
  <2> QED BY <2>1, <2>3 DEF Delivered, channelVerdict
<1>6. CASE k \notin {"webhook", "telegram", "gotify"}
  <2>1. PICK g \in CodeFields(k), w \in {"num", "text"}, n \in Refusals \ Success(k) :
          a = OkField(g, w, n)
    BY <1>1, <1>2, <1>3, <1>4, <1>5, <1>6 DEF NotTaken, Refusing
  <2>2. w = "text"
    BY <1>6, <2>1, NumberDecides
  <2> DEFINE b == [f \in {g} |-> <<w, n>>]
  <2>3. /\ DOMAIN b = {g}
        /\ b[g][1] = "text"
        /\ Number(b, g) = {}
        /\ \A f : f # g => Number(b, f) = {}
    BY <2>2, OneField
  <2>4. a.body = b
    BY <2>1 DEF Ok, OkField
  <2> HIDE DEF b
  <2>5. \A f, h : ~Coded(a.body, f, h, {0, 200, 1000}) /\ codeOf(a.body, f, h) = {}
    BY <2>3, <2>4 DEF codeOf, Coded
  <2>6. k \in {"dingtalk", "wecom"}
    BY <1>6, <2>5 DEF Delivered, channelVerdict, HttpKinds, Coded
  <2>7. g = "errcode"
    BY <2>6 DEF CodeFields
  <2> QED BY <2>3, <2>4, <2>6, <2>7 DEF TextErrcode
<1>7. CASE k \in {"webhook", "telegram", "gotify"}
  BY <1>1, <1>2, <1>3, <1>4, <1>7 DEF NotTaken, Refusing, CodeFields
<1> QED BY <1>6, <1>7

\* An errcode that is no number comes with status 200 in a JSON body, as a refusal only.
LEMMA TextAnswer ==
  ASSUME NEW k, NEW a, TextErrcode(k, a)
  PROVE  /\ a \in Refusing(k) => a.status = 200 /\ a.json
         /\ a \notin Accepting(k) \cup Errors \cup {Page, NoAnswer}
<1>1. a.body # <<>>
  <2>1. DOMAIN <<>> = {}
    OBVIOUS
  <2> QED BY <2>1 DEF TextErrcode
<1>2. a \notin Errors \cup {Page, NoAnswer}
  <2>1. a \notin Errors
    <3> SUFFICES ASSUME a \in Errors PROVE FALSE
      OBVIOUS
    <3>1. PICK j \in BOOLEAN : a = [status |-> 500, json |-> j, body |-> <<>>]
      BY DEF Errors
    <3> QED BY <1>1, <3>1
  <2>2. a # Page /\ a # NoAnswer
    BY <1>1 DEF Page, NoAnswer
  <2> QED BY <2>1, <2>2
<1>3. \A b : a = Ok(b) => a.status = 200 /\ a.json
  BY DEF Ok
<1>4. a \in Refusing(k) => \E b : a = Ok(b)
  <2> SUFFICES ASSUME a \in Refusing(k) PROVE \E b : a = Ok(b)
    OBVIOUS
  <2>1. \/ a = Ok(<<>>)
        \/ \E g \in CodeFields(k), w \in {"num", "text"}, n \in Refusals \ Success(k) :
             a = OkField(g, w, n)
    BY <1>2 DEF Refusing, TextErrcode
  <2> QED BY <2>1 DEF OkField
<1>5. a \notin Accepting(k)
  <2> SUFFICES ASSUME a \in Accepting(k) PROVE FALSE
    OBVIOUS
  <2>1. PICK n : a = OkField("errcode", "num", n)
    BY <1>2 DEF Accepting, CodeFields, TextErrcode
  <2>2. a.body = [f \in {"errcode"} |-> <<"num", n>>]
    BY <2>1 DEF Ok, OkField
  <2>3. a.body["errcode"][1] = "num"
    BY <2>2
  <2> QED BY <2>3 DEF TextErrcode
<1> QED BY <1>2, <1>3, <1>4, <1>5

\* Such an answer counts as delivered.
LEMMA TextDelivered ==
  ASSUME NEW k, NEW a, TextErrcode(k, a), a.status = 200, a.json
  PROVE  Delivered(k, a)
<1>1. codeOf(a.body, "errcode", "errcode") = {}
  BY DEF TextErrcode, codeOf, Number
<1>2. 200 \in 200..299
  OBVIOUS
<1> QED BY <1>1, <1>2 DEF TextErrcode, Delivered, channelVerdict

-----------------------------------------------------------------------------
(* The invariant                                                           *)

\* An acceptance never carries an errcode that is no number.
LEMMA AcceptHeard == Accept => ~TextCode'
<1> SUFFICES ASSUME Accept PROVE ~TextErrcode(source.kind, answer')
  BY DEF Accept, TextCode, TextErrcode
<1>1. answer' \in Accepting(source.kind) \cup Errors \cup {Page, NoAnswer}
  BY DEF Accept
<1> QED BY <1>1, TextAnswer

\* An attempt that failed leaves the message idle with attempts left, or dead.
LEMMA FailedIs ==
  ASSUME TypeInv, tries' \in 0..MaxAttempts
  PROVE  /\ Failed \in {"idle", "dead"}
         /\ Failed = "idle" => tries' < MaxAttempts
BY DEF Failed

\* The invariant holds before the first attempt, ...
LEMMA InitInv == Init => IInv
<1> SUFFICES ASSUME Init PROVE IInv
  OBVIOUS
<1>1. unheard \in BOOLEAN
  BY Zenon DEF Init
<1>2. TypeInv /\ Left
  BY <1>1, SendingAssumption DEF Init, TypeInv, Left
<1>3. Heard /\ NoFalseSuccess /\ Said
  BY DEF Init, Heard, NoFalseSuccess, Said
<1>4. TextHeard
  BY TextAnswer DEF Init, TextHeard, TextCode, TextErrcode
<1> QED BY <1>2, <1>3, <1>4 DEF IInv

\* ... when a request goes out or is refused for want of a target, ...
LEMMA AskInv == IInv /\ Ask => IInv'
<1> SUFFICES ASSUME IInv, Ask PROVE IInv'
  OBVIOUS
<1> USE DEF IInv
<1>1. tries' \in 0..MaxAttempts /\ tries' = tries + 1
  BY SendingAssumption DEF Ask, TypeInv, Left
<1>2. pc' \in {"asked", "idle", "dead"} /\ (pc' = "idle" => tries' < MaxAttempts)
  BY <1>1, FailedIs DEF Ask
<1>3. TypeInv' /\ Left'
  BY <1>1, <1>2 DEF Ask, TypeInv, Left
<1>4. accepted = 0 \/ unheard
  BY DEF Ask, TypeInv, Said
<1>5. Heard' /\ NoFalseSuccess' /\ Said'
  BY <1>2, <1>4 DEF Ask, Heard, NoFalseSuccess, Said
<1>6. TextHeard'
  BY DEF Ask, TextHeard, TextCode
<1> QED BY <1>3, <1>5, <1>6

\* ... when the platform takes the message, ...
LEMMA AcceptInv == IInv /\ Accept => IInv'
<1> SUFFICES ASSUME IInv, Accept PROVE IInv'
  OBVIOUS
<1> USE DEF IInv
<1>1. unheard' \in BOOLEAN
  BY Zenon DEF Accept, TypeInv
<1>2. TypeInv' /\ Left'
  BY <1>1 DEF Accept, TypeInv, Left
<1>3. Heard' /\ NoFalseSuccess'
  BY DEF Accept, TypeInv, Heard, NoFalseSuccess
<1>4. accepted = 0 \/ unheard
  BY DEF Accept, TypeInv, Said
<1>5. Said'
  BY <1>4 DEF Accept, TypeInv, Said
<1>6. TextHeard'
  BY AcceptHeard DEF TextHeard
<1> QED BY <1>2, <1>3, <1>5, <1>6

\* ... when it does not, ...
LEMMA RefuseInv == IInv /\ Refuse => IInv'
<1> SUFFICES ASSUME IInv, Refuse PROVE IInv'
  OBVIOUS
<1> USE DEF IInv
<1>1. TypeInv' /\ Left'
  BY DEF Refuse, TypeInv, Left
<1>2. Heard' /\ NoFalseSuccess'
  BY DEF Refuse, Heard, NotTaken, NoFalseSuccess
<1>3. accepted = 0 \/ unheard
  BY DEF Refuse, TypeInv, Said
<1>4. Said'
  BY <1>3 DEF Refuse, Said
<1>5. TextHeard'
  <2>1. pc' = "answered" /\ answer' \in Refusing(source.kind) \cup {NoAnswer}
    BY DEF Refuse
  <2>2. TextErrcode(source.kind, answer') => answer'.status = 200 /\ answer'.json
    BY <2>1, TextAnswer
  <2> QED BY <2>1, <2>2 DEF Refuse, TextHeard, TextCode, TextErrcode
<1> QED BY <1>1, <1>2, <1>4, <1>5

\* ... and when the answer is judged.
LEMMA JudgeInv == IInv /\ Judge => IInv'
<1> SUFFICES ASSUME IInv, Judge PROVE IInv'
  OBVIOUS
<1> USE DEF IInv
<1>1. source.kind \in HttpKinds
  BY SendingAssumption DEF TypeInv, Filled
<1>2. pc' \in {"sent", "idle", "dead"} /\ (pc' = "idle" => tries' < MaxAttempts)
  BY FailedIs DEF Judge, TypeInv
<1>3. TypeInv' /\ Left' /\ Heard'
  BY <1>2 DEF Judge, TypeInv, Left, Heard
<1>4. pc' = "sent" => Delivered(source.kind, answer)
  BY FailedIs DEF Judge, TypeInv
<1>5. pc' = "sent" => accepted > 0 \/ TextErrcode(source.kind, answer)
  BY <1>1, <1>4, VerdictSound DEF Judge, Heard
<1>6. NoFalseSuccess'
  BY <1>5 DEF Judge, NoFalseSuccess, TextCode, TextErrcode
<1>7. answer \in Accepting(source.kind) => pc' = "sent"
  BY <1>1, VerdictComplete DEF Judge
<1>8. Said'
  BY <1>7 DEF Judge, Said
<1>9. TextHeard'
  <2>1. TextCode <=> TextErrcode(source.kind, answer)
    BY DEF TextCode, TextErrcode
  <2>2. TextCode => pc' = "sent"
    BY <2>1, TextDelivered DEF Judge, TextHeard
  <2> QED BY <2>2 DEF Judge, TextHeard, TextCode
<1> QED BY <1>3, <1>6, <1>8, <1>9

\* The inductive invariant holds in every reachable state.
THEOREM Invariant == Spec => []IInv
<1>1. IInv /\ UNCHANGED vars => IInv'
  BY DEF vars, IInv, TypeInv, Left, Heard, NoFalseSuccess, TextCode, Said, TextHeard
<1>2. IInv /\ [Next]_vars => IInv'
  BY <1>1, AskInv, AcceptInv, RefuseInv, JudgeInv DEF Next
<1> QED BY InitInv, <1>2, PTL DEF Spec

-----------------------------------------------------------------------------
(* What follows                                                            *)

\* Whatever the kinds, the refusals and the number of attempts: what the log
\* shows as delivered was taken (attempt in engine.go on channelVerdict,
\* sendTelegram and sendWebhook), an errcode written as a string excepted.
THEOREM FalseSuccessSafe == Spec => []NoFalseSuccess
<1>1. IInv => NoFalseSuccess
  BY DEF IInv
<1> QED BY <1>1, Invariant, PTL

\* A second copy is only taken when the first answer did not come through
\* (attempt in engine.go retries on every error of the three senders).
THEOREM RepeatSafe == Spec => []RepeatJustified
<1>1. IInv => RepeatJustified
  BY DEF IInv, TypeInv, Said, RepeatJustified
<1> QED BY <1>1, Invariant, PTL

-----------------------------------------------------------------------------
(* The log                                                                 *)

\* The log never shows an attempt under way as settled.
LEMMA LogWhileAsked == pc \in {"asked", "answered"} => LogStatus \in {"pending", "failed"}
BY DEF LogStatus

\* Every step is one of Lifecycle or none; a refusal whose errcode is a text is the
\* misreading of it.
LEMMA LogStep ==
  ASSUME IInv, IInv', [Next]_vars
  PROVE  [Life!Next]_(Life!lifecycleVars)
<1> DEFINE L == [d \in {0} |-> LogStatus]
           D == IF accepted > 0 THEN {0} ELSE {}
           M == IF TextCode THEN {0} ELSE {}
<1> USE DEF Life!lifecycleVars, IInv
<1>1. CASE UNCHANGED vars
  BY <1>1 DEF vars, LogStatus, TextCode
<1>2. CASE Ask
  <2>1. tries \in Nat /\ tries' = tries + 1 /\ pc = "idle" /\ UNCHANGED <<accepted, TextCode>>
    BY <1>2 DEF Ask, TypeInv, TextCode
  <2>2. pc' \in {"asked", "idle", "dead"}
    BY <1>2 DEF Ask, Failed
  <2>3. CASE pc' = "asked"
    BY <2>1, <2>3 DEF LogStatus
  <2>4. CASE pc' # "asked"
    <3>1. LogStatus \in {"pending", "failed"}
      BY <2>1 DEF LogStatus
    <3>2. LogStatus' \in {"failed", "dead"}
      BY <2>1, <2>2, <2>4 DEF LogStatus
    <3>3. Life!Settle(0)
      BY <2>1, <3>1, <3>2 DEF Life!Settle, Life!Live
    <3> QED BY <3>3 DEF Life!Next
  <2> QED BY <2>3, <2>4
<1>3. CASE Accept
  <2>1. LogStatus \in {"pending", "failed"} /\ UNCHANGED LogStatus
    BY <1>3, LogWhileAsked DEF Accept, LogStatus
  <2>2. D' = D \cup {0}
    BY <1>3 DEF Accept, TypeInv
  <2>3. ~TextCode /\ ~TextCode'
    BY <1>3, AcceptHeard DEF Accept, TextHeard
  <2>4. Life!Deliver(0)
    BY <2>1, <2>2, <2>3 DEF Life!Deliver, Life!Live
  <2> QED BY <2>4 DEF Life!Next
<1>4. CASE Refuse
  <2>1. LogStatus \in {"pending", "failed"} /\ UNCHANGED LogStatus /\ UNCHANGED accepted
    BY <1>4, LogWhileAsked DEF Refuse, LogStatus
  <2>2. ~TextCode
    BY <1>4 DEF Refuse, TextHeard
  <2>3. CASE ~TextCode'
    BY <2>1, <2>2, <2>3
  <2>4. CASE TextCode'
    <3>1. M' = M \cup {0}
      BY <2>2, <2>4
    <3>2. Life!Misread(0)
      BY <2>1, <3>1 DEF Life!Misread, Life!Live
    <3> QED BY <3>2 DEF Life!Next
  <2> QED BY <2>3, <2>4
<1>5. CASE Judge
  <2>1. SUFFICES Life!Settle(0)
    BY DEF Life!Next
  <2>2. /\ pc = "answered" /\ pc' \in {"sent", "idle", "dead"}
        /\ UNCHANGED <<tries, accepted, TextCode>>
    BY <1>5 DEF Judge, Failed, TextCode
  <2>3. LogStatus \in {"pending", "failed"}
    BY <2>2, LogWhileAsked
  <2>4. tries > 0
    BY <2>2 DEF Left
  <2>5. LogStatus' \in {"success", "failed", "dead"} /\ (LogStatus' = "success" => pc' = "sent")
    BY <2>2, <2>4 DEF LogStatus, TypeInv
  <2>6. pc' = "sent" => accepted > 0 \/ TextCode
    BY <2>2 DEF NoFalseSuccess
  <2> QED BY <2>2, <2>3, <2>5, <2>6 DEF Life!Settle, Life!Live
<1> QED BY <1>1, <1>2, <1>3, <1>4, <1>5 DEF Next

\* The attempts over HTTP refine the life of a record that Lifecycle describes,
\* from its first attempt on (store/delivery.go on the states of a record).
THEOREM LifecycleStepsSafe == Spec => LifecycleSteps
<1>1. IInv /\ IInv' /\ [Next]_vars => [Life!Next]_(Life!lifecycleVars)
  BY LogStep
<1> QED BY <1>1, Invariant, PTL DEF Spec, LifecycleSteps

=============================================================================
