----------------------------- MODULE OtpAdmission -----------------------------
(***************************************************************************)
(* POST /voters/otp/request/ (voting.views.OTPRequestView): what a request  *)
(* passes before a text message is sent.  The throttle keyed on the phone   *)
(* number comes first (DRF checks throttles before the handler runs), then  *)
(* the number itself, the CAPTCHA, the block, the day's SMS budget and the  *)
(* SMS provider.  Throttle and SmsBudget are the two counters; a request    *)
(* carries a spelling of a number, and what both make of it.  Otp has what  *)
(* request_otp does with the challenges.                                    *)
(***************************************************************************)
EXTENDS Integers, FiniteSets

CONSTANTS
    Callers,
    Spellings,            \* what a body may say: text, and what the phone library makes of it
    OTP_ALLOWED_REGIONS,
    Window, Limit,        \* the rate otp_request_phone_short
    Day,                  \* ticks in a day
    SMS_DAILY_LIMIT,
    MaxTime,              \* bound: the clock stops here
    Absent                \* no such key, no such value

NumberTypes == {"MOBILE", "FIXED_LINE_OR_MOBILE", "FIXED_LINE", "NONE"}

ASSUME AdmissionAssumption ==
    /\ IsFiniteSet(Callers)
    /\ \A s \in Spellings : s.type \in NumberTypes
    /\ Window \in Nat \ {0} /\ Limit \in Nat \ {0}
    /\ Day \in Nat \ {0} /\ SMS_DAILY_LIMIT \in Nat \ {0}
    /\ MaxTime \in Nat
    /\ Absent \notin [count : Nat, expires : Nat]

VARIABLES
    clock,
    hits, throttling, allowed,                      \* Throttle
    spent, budgeting, reserved, warned, exhausted,  \* SmsBudget
    visit                                           \* per caller: the body, and how far it got
vars == <<clock, hits, throttling, allowed, spent, budgeting, reserved, warned, exhausted, visit>>

\* normalize_phone: E.164, or InvalidPhoneNumber.  The empty text has no number.
NormalizePhone(s) == IF s.type \in {"MOBILE", "FIXED_LINE_OR_MOBILE"} THEN s.e164 ELSE Absent

NormalizePhoneStrict(s) ==
    IF s.type = "MOBILE" /\ s.region \in OTP_ALLOWED_REGIONS THEN s.e164 ELSE Absent

\* Mutant: keyed on what was typed.
GetIdentRaw(s) == s.text

\* PhoneThrottle.get_ident: one counter per number, however it is spelled.
GetIdent(s) ==
    IF s.text = "" THEN Absent
    ELSE IF NormalizePhone(s) # Absent THEN NormalizePhone(s) ELSE s.text

Idents == {GetIdent(s) : s \in Spellings} \ {Absent}

Phone == INSTANCE Throttle WITH store <- hits, call <- throttling
Budget == INSTANCE SmsBudget WITH store <- spent, call <- budgeting, Window <- Day, Idents <- {"sms"}

Stages == {"throttle", "request_otp", "text", "answered"}
Answers == {Absent, "202", "400", "429", "500", "503"}

TypeOK ==
    /\ Phone!TypeOK /\ Budget!TypeOK
    /\ visit \in [Callers -> [raw : Spellings \cup {Absent}, stage : {"new"} \cup Stages,
                              answer : Answers, texted : BOOLEAN]]

Init ==
    /\ Phone!Init /\ Budget!Init
    /\ visit = [c \in Callers |-> [raw |-> Absent, stage |-> "new", answer |-> Absent, texted |-> FALSE]]

Stage(c, from, to) == visit[c].stage = from /\ visit' = [visit EXCEPT ![c].stage = to]

Reply(c, from, answer) ==
    /\ visit[c].stage = from
    /\ visit' = [visit EXCEPT ![c].stage = "answered", ![c].answer = answer]

throttleVars == <<hits, throttling, allowed>>
budgetVars == <<spent, budgeting, reserved, warned, exhausted>>

----------------------------------------------------------------------------
\* The request arrives, and allow_request reads the clock.  A body without a phone has no
\* identity to count: the serializer refuses it.
Arrive(c, s) ==
    /\ visit[c].stage = "new"
    /\ IF GetIdent(s) = Absent
       THEN /\ visit' = [visit EXCEPT ![c].raw = s, ![c].stage = "answered", ![c].answer = "400"]
            /\ UNCHANGED <<clock, throttleVars>>
       ELSE /\ visit' = [visit EXCEPT ![c].raw = s, ![c].stage = "throttle"]
            /\ Phone!FW!ReadClock(c, GetIdent(s)) /\ UNCHANGED allowed
    /\ UNCHANGED budgetVars

Count(c) == Phone!FW!CacheStep(c) /\ UNCHANGED <<allowed, budgetVars, visit>>

\* What verify_captcha may say of a token.  It fails closed: a token that is missing or refused
\* and a provider that cannot be reached or read all give FALSE.
VerifyCaptcha == BOOLEAN

\* The serializer, the strict check of the number and the CAPTCHA, in this order.
Post(c, from) ==
    \E human \in VerifyCaptcha :
        IF NormalizePhoneStrict(visit[c].raw) # Absent /\ human
        THEN Stage(c, from, "request_otp")
        ELSE Reply(c, from, "400")

\* check_throttles, and the handler as far as request_otp: nothing shared is read between.
CheckThrottles(c) ==
    /\ Phone!AllowRequest(c)
    /\ \/ c \in allowed' /\ Post(c, "throttle")
       \/ c \notin allowed' /\ Reply(c, "throttle", "429")
    /\ UNCHANGED budgetVars

\* Mutant: the budget is reserved before the block is looked at.
BlockedLate(c) ==
    /\ Reply(c, "text", "202")
    /\ UNCHANGED <<clock, throttleVars, budgetVars>>

\* request_otp: a blocked voter gets the same answer as everyone, and no text.
Blocked(c) ==
    /\ budgeting[c].phase = "idle"
    /\ Reply(c, "request_otp", "202")
    /\ UNCHANGED <<clock, throttleVars, budgetVars>>

ReserveStart(c) ==
    /\ visit[c].stage = "request_otp"
    /\ Budget!FW!ReadClock(c, "sms")
    /\ UNCHANGED <<throttleVars, reserved, warned, exhausted, visit>>

ReserveCount(c) ==
    /\ Budget!FW!CacheStep(c)
    /\ UNCHANGED <<throttleVars, reserved, warned, exhausted, visit>>

Reserve(c) ==
    /\ Budget!Reserve(c)
    /\ \/ c \in exhausted' /\ Reply(c, "request_otp", "503")
       \/ c \notin exhausted' /\ Stage(c, "request_otp", "text")
    /\ UNCHANGED throttleVars

\* request_otp's transaction, between the reserve and the text, fails or its worker dies: the
\* caller gets an error, and the share of the budget is gone without a text.
RequestFails(c) ==
    /\ Reply(c, "text", "500")
    /\ UNCHANGED <<clock, throttleVars, budgetVars>>

\* send_sms: the provider may accept the text or fail; the caller is told the same, and the
\* share of the budget is gone.
SendSms(c) ==
    /\ visit[c].stage = "text"
    /\ visit' = [visit EXCEPT ![c].stage = "answered", ![c].answer = "202", ![c].texted = TRUE]
    /\ UNCHANGED <<clock, throttleVars, budgetVars>>

Tick == Phone!FW!Tick /\ Budget!FW!Tick /\ UNCHANGED <<allowed, reserved, warned, exhausted, visit>>

Next ==
    \/ \E c \in Callers :
        \/ \E s \in Spellings : Arrive(c, s)
        \/ Count(c) \/ CheckThrottles(c)
        \/ Blocked(c) \/ ReserveStart(c) \/ ReserveCount(c) \/ Reserve(c)
        \/ RequestFails(c) \/ SendSms(c)
    \/ Tick

Spec == Init /\ [][Next]_vars

----------------------------------------------------------------------------
\* The 80% warning is logged by at most one of a day's requests, and when a request is turned
\* away the warning is in the log or some other request is just about to write it.
OneWarningPerDay == Budget!OneWarningPerDay

\* A phone gets no more texts from the requests of a window than the rate allows, however
\* its number is spelled.
TextsPerWindow ==
    \A c \in Callers : visit[c].texted =>
        Cardinality({d \in Callers : /\ visit[d].texted /\ visit[d].raw.e164 = visit[c].raw.e164
                                     /\ Phone!FW!OnTime(d)
                                     /\ throttling[d].now \div Window = throttling[c].now \div Window}) <= Limit

\* No more texts are sent than the day's budget allows by the requests counted on that day.
TextsPerDay ==
    \A c \in reserved : Cardinality({d \in Budget!CountedWith(c) : visit[d].texted}) <= SMS_DAILY_LIMIT

\* The budget turns a request away only when that many others took a share of the day, and
\* a share is taken only for a text that the provider is asked to send, or by a request that
\* is refused in turn or fails before its text: what was throttled, refused or blocked has
\* taken none.
ExhaustedForCause ==
    \A c \in exhausted :
        Cardinality({d \in Callers \ {c} :
            /\ budgeting[d].phase \in {"counted", "done"}
            /\ Budget!FW!Key(d) = Budget!FW!Key(c)
            /\ \/ visit[d].stage # "answered" \/ visit[d].texted
               \/ d \in exhausted \/ visit[d].answer = "500"}) >= SMS_DAILY_LIMIT
=============================================================================
