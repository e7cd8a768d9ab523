---------------------------- MODULE RivianSession ----------------------------
(***************************************************************************)
(* The GraphQL requests of one Rivian object, translated from              *)
(* src/rivian/rivian.py: log in, enrol a phone, send commands, query.  All *)
(* of them share the tokens, the lazily created aiohttp session and, when  *)
(* the application passes it again, a dictionary or a set of its own.      *)
(*                                                                         *)
(* A request suspends twice, for the response and for its body, so that a  *)
(* call is three steps; __graphql_query has cached the body when its       *)
(* caller reads it again.                                                  *)
(***************************************************************************)
EXTENDS Integers, Sequences, FiniteSetsExt

CONSTANTS
  Calls,       \* tasks of the application, each with one request at a time
  MaxTokens,   \* bound: answers that issue tokens
  ErrorLists,  \* "errors" of the answers: sequences of <<code, reason>>
  Parameters,  \* dictionaries the application makes up for a command
  Passed,      \* the property sets the application passes
  Offered      \* bound: Offered[c] are the methods the task c calls

NoReason      == "none"
NoExtensions  == <<"no_extensions", NoReason>>
NoCode        == <<"no_code", NoReason>>
PropertyNames == {"state", "both", "live"}
PropertySets  == {"own", "state_properties", "subscription_properties"}
TokenNames    == {"csrf", "app", "access", "refresh", "user", "otp"}
Keys          == {"SOC_limit", "level", "HVAC_set_temp", "none"}
ValueTypes    == {"int", "bool", "float", "text", "bool_text"}

ASSUME SessionAssumption ==
  /\ MaxTokens \in Nat
  /\ ErrorLists \subseteq Seq(STRING \X STRING) \ {<<>>}
  /\ Parameters \subseteq [key : Keys, type : ValueTypes, half : Int]
  /\ Passed \subseteq PropertySets
  /\ Offered \in [Calls -> SUBSET STRING]

VARIABLES
  session,    \* self._session: "none", "open" or "closed"
  owned,      \* self._close_session
  tokens,     \* the token attributes, by the answer that issued them
  otpNeeded,  \* self._otp_needed
  monitor,    \* self._ws_monitor is not None
  at,         \* at[c]: "idle" or the await call c is suspended at
  op,         \* op[c]: its method, for a command the kind of command
  sent,       \* sent[c]: the tokens and the body of its unanswered request
  issue,      \* issue[c]: the number of its answer, if it issues tokens
  outcome,    \* what the last call has raised or returned, until the next
              \* step, and the errors of the answer that made it raise
  params,     \* the dictionary of the application that was changed last
  props,      \* props[s]: the contents of the sets of property names
  closing,    \* close() is waiting for the monitor to be closed
  issued      \* answers that have issued tokens

call == <<at, op, sent, issue, outcome>>
vars == <<session, owned, tokens, otpNeeded, monitor, call, params, props, closing, issued>>

-----------------------------------------------------------------------------
TokenCalls   == {"create_csrf_token", "authenticate", "validate_otp"}
PhoneCalls   == {"disenroll_phone", "enroll_phone"}
CommandCalls == {"CHARGING_LIMITS", "CABIN_HVAC", "CABIN_HVAC_THIRD_ROW",
                 "CABIN_PRECONDITIONING_SET_TEMP", "OTHER_COMMAND"}
InformationQueries == {"get_drivers_and_keys", "get_user_information",
                       "get_registered_wallboxes", "get_vehicle_command_state",
                       "get_vehicle_images"}
StatusQueries == {"get_vehicle_ota_update_details", "get_live_charging_session"}
Queries == InformationQueries \cup StatusQueries
Methods == TokenCalls \cup PhoneCalls \cup CommandCalls \cup Queries \cup {"get_vehicle_state"}

(* The tokens in the headers of each method.                               *)
HeaderTokens(o) ==
  CASE o = "create_csrf_token" -> {}
    [] o \in {"authenticate", "validate_otp"} -> {"csrf", "app"}
    [] o \in PhoneCalls \cup CommandCalls \cup {"get_registered_wallboxes"} ->
         {"csrf", "app", "user"}
    [] o = "get_live_charging_session" -> {"user"}
    [] OTHER -> {"app", "user"}

(* The contents of VEHICLE_STATE_PROPERTIES and its two companions:        *)
(* activeDriverName is both a state and a subscription-only property.      *)
SubscriptionOnly == {"both", "live"}
InitialProperties ==
  [s \in PropertySets |-> CASE s = "state_properties" -> {"state", "both"}
                            [] s = "subscription_properties" -> PropertyNames
                            [] OTHER -> {}]

NoParams == [key |-> "none", type |-> "text", half |-> 0]
NoBody   == [otp |-> 0, params |-> NoParams, asked |-> {}]
NoOutcome == [what |-> "none", errors |-> <<>>]
Unsent   == [headers |-> [n \in {} |-> 0], body |-> NoBody]

Init ==
  /\ session \in {"none", "open"} /\ owned = FALSE
  /\ tokens = [n \in TokenNames |-> 0] /\ otpNeeded = FALSE
  /\ monitor = FALSE
  /\ at = [c \in Calls |-> "idle"]
  /\ op = [c \in Calls |-> "none"]
  /\ sent = [c \in Calls |-> Unsent]
  /\ issue = [c \in Calls |-> 0]
  /\ outcome = NoOutcome
  /\ params = NoParams /\ props = InitialProperties
  /\ closing = FALSE /\ issued = 0

-----------------------------------------------------------------------------
(* Errors of an answer                                                     *)

OtpErrors  == {<<"BAD_USER_INPUT", "INVALID_OTP">>, <<"UNAUTHENTICATED", "OTP_TOKEN_EXPIRED">>}
PhoneLimit == <<"CONFLICT", "ENROLL_PHONE_LIMIT_REACHED">>

ErrorCodeClass ==
  [BAD_CURRENT_PASSWORD  |-> "RivianInvalidCredentials",
   BAD_REQUEST_ERROR     |-> "RivianBadRequestError",
   DATA_ERROR            |-> "RivianDataError",
   INTERNAL_SERVER_ERROR |-> "RivianApiException",
   RATE_LIMIT            |-> "RivianApiRateLimitError",
   SESSION_MANAGER_ERROR |-> "RivianTemporarilyLockedError",
   UNAUTHENTICATED       |-> "RivianUnauthenticated"]

(* Mutant: the code is looked up before the reason.                        *)
ClassByCode(e) ==
  CASE e[1] \in DOMAIN ErrorCodeClass -> ErrorCodeClass[e[1]]
    [] e \in OtpErrors -> "RivianInvalidOTP"
    [] OTHER -> "none"

(* What one error raises; an error without extensions or of another code   *)
(* raises nothing, one whose extensions have no code a KeyError.           *)
ErrorClass(e) ==
  CASE e = NoCode -> "KeyError"
    [] e \in OtpErrors -> "RivianInvalidOTP"
    [] e = PhoneLimit -> "RivianPhoneLimitReachedError"
    [] e \notin OtpErrors /\ e[1] \in DOMAIN ErrorCodeClass -> ErrorCodeClass[e[1]]
    [] OTHER -> "none"

(* The first error that raises decides.                                    *)
ErrorRaised(errors) ==
  LET deciding == {i \in DOMAIN errors : ErrorClass(errors[i]) # "none"}
  IN  IF deciding = {} THEN "RivianApiException" ELSE ErrorClass(errors[Min(deciding)])

-----------------------------------------------------------------------------
(* A request                                                               *)

(* Mutant: the flag is set outside the test for a missing session.         *)
OwnsAnySession ==
  /\ session' = IF session = "none" THEN "open" ELSE session
  /\ owned' = TRUE

(* The session is created at the first request or subscription.            *)
CreateSession ==
  /\ session' = IF session = "none" THEN "open" ELSE session
  /\ owned' = (owned \/ session = "none")

(* The call returns or raises.                                             *)
EndsWith(c, result) ==
  /\ at' = [at EXCEPT ![c] = "idle"] /\ outcome' = result
  /\ op' = [op EXCEPT ![c] = "none"] /\ sent' = [sent EXCEPT ![c] = Unsent]
  /\ issue' = [issue EXCEPT ![c] = 0]
  /\ UNCHANGED issued

Ends(c, what) == EndsWith(c, [what |-> what, errors |-> <<>>])

(* __graphql_query up to its first suspension, with the headers of method  *)
(* o: a closed session raises RuntimeError, which is not translated.       *)
Request(c, o, body) ==
  /\ CreateSession
  /\ \/ /\ session # "closed"
        /\ at' = [at EXCEPT ![c] = "request"]
        /\ op' = [op EXCEPT ![c] = o]
        /\ sent' = [sent EXCEPT ![c] =
                      [headers |-> [n \in HeaderTokens(o) |-> tokens[n]], body |-> body]]
        /\ outcome' = NoOutcome
        /\ UNCHANGED <<issue, issued>>
     \/ session = "closed" /\ Ends(c, "RuntimeError")
  /\ UNCHANGED <<tokens, otpNeeded, monitor, closing>>

MayCall(c, o) == at[c] = "idle" /\ o \in Offered[c]

(* The log-in calls, the phone calls and the queries without properties.   *)
SimpleCall(c) ==
  /\ \E o \in TokenCalls \cup PhoneCalls \cup Queries :
       /\ MayCall(c, o)
       /\ Request(c, o, IF o = "validate_otp" THEN [NoBody EXCEPT !.otp = tokens["otp"]]
                                              ELSE NoBody)
  /\ UNCHANGED <<params, props>>

Integer(v) == v.type \in {"int", "bool"}

(* _validate_vehicle_command; values are counted in halves, for the HI of  *)
(* 63.5, and True and False are the integers 1 and 0.  The list of seats   *)
(* that CABIN_HVAC stands for lacks the third row, whose commands are sent *)
(* with any dictionary.                                                    *)
ValidParams(o, d) ==
  CASE o = "CHARGING_LIMITS" ->
         d.key = "SOC_limit" /\ Integer(d) /\ d.half \in 100 .. 200
    [] o = "CABIN_HVAC" -> d.key = "level" /\ Integer(d) /\ d.half \in 0 .. 8
    [] o = "CABIN_PRECONDITIONING_SET_TEMP" ->
         /\ d.key = "HVAC_set_temp" /\ (Integer(d) \/ d.type = "float")
         /\ d.half \in (32 .. 58) \cup {0, 127}
    [] OTHER -> TRUE

(* params["HVAC_set_temp"] = str(...) in the application's dictionary.     *)
Converted(o, d) ==
  IF o = "CABIN_PRECONDITIONING_SET_TEMP"
  THEN [d EXCEPT !.type = IF @ = "bool" THEN "bool_text" ELSE "text"]
  ELSE d

(* send_vehicle_command with a new dictionary or with a converted one      *)
(* again.  The keys may turn out to be unusable after the conversion.      *)
SendVehicleCommand(c) ==
  /\ \E o \in CommandCalls, d \in Parameters \cup {params} :
       /\ MayCall(c, o)
       /\ params' = IF ~ValidParams(o, d) \/ Converted(o, d) = d THEN params
                                                               ELSE Converted(o, d)
       /\ \/ ValidParams(o, d) /\ Request(c, o, [NoBody EXCEPT !.params = Converted(o, d)])
          \/ /\ IF ValidParams(o, d) THEN Ends(c, "raw") ELSE Ends(c, "RivianBadRequestError")
             /\ UNCHANGED <<session, owned, tokens, otpNeeded, monitor, closing>>
  /\ UNCHANGED props

(* The set s with the names the application has put in: its own holds any, *)
(* those of the library what is left of them.                              *)
Given(s, names) == IF s = "own" THEN names ELSE props[s]

(* Mutant: the filter runs on the default set too.                         *)
FilterAlways(s, names) ==
  IF Given(s, names) = {}
  THEN [props EXCEPT !["state_properties"] = @ \ SubscriptionOnly]
  ELSE [props EXCEPT ![s] = Given(s, names) \ SubscriptionOnly]

(* Subscription-only properties are taken out of the set that was passed,  *)
(* not out of the default that an empty set stands for.                    *)
FilterProperties(s, names) == [props EXCEPT ![s] = Given(s, names) \ SubscriptionOnly]

(* get_vehicle_state with a set of the application or of the library; what *)
(* is left of it, nothing included, is what the query asks for.            *)
GetVehicleState(c) ==
  /\ MayCall(c, "get_vehicle_state")
  /\ \E s \in Passed, names \in SUBSET PropertyNames :
       /\ props' = FilterProperties(s, names)
       /\ Request(c, "get_vehicle_state",
            [NoBody EXCEPT !.asked = IF Given(s, names) = {} THEN props'["state_properties"]
                                                             ELSE props'[s]])
  /\ UNCHANGED params

-----------------------------------------------------------------------------
(* Its answer                                                              *)

AnswerFrame == UNCHANGED <<session, owned, monitor, params, props, closing>>

Raises(c, what) == Ends(c, what) /\ UNCHANGED <<tokens, otpNeeded>>

(* Mutant: an answer is numbered when it is sent, whatever it answers.     *)
ResponseNumbered(c) ==
  /\ at[c] = "request" /\ issued < MaxTokens
  /\ at' = [at EXCEPT ![c] = "body"]
  /\ issued' = issued + 1 /\ issue' = [issue EXCEPT ![c] = issued']
  /\ sent' = [sent EXCEPT ![c] = Unsent] /\ outcome' = NoOutcome
  /\ UNCHANGED <<tokens, otpNeeded, op>> /\ AnswerFrame

(* The server has answered and the headers are in.                         *)
ResponseArrives(c) ==
  /\ at[c] = "request" /\ (op[c] \in TokenCalls => issued < MaxTokens)
  /\ at' = [at EXCEPT ![c] = "body"]
  /\ issued' = IF op[c] \in TokenCalls THEN issued + 1 ELSE issued
  /\ issue' = [issue EXCEPT ![c] = IF op[c] \in TokenCalls THEN issued' ELSE 0]
  /\ sent' = [sent EXCEPT ![c] = Unsent] /\ outcome' = NoOutcome
  /\ UNCHANGED <<tokens, otpNeeded, op>> /\ AnswerFrame

(* Mutant: a request has no timeout.                                       *)
NoTimeout(c) == at[c] = "request" /\ FALSE /\ Raises(c, "none")

(* request_timeout is over, or the connection fails.                       *)
RequestRaises(c) ==
  /\ at[c] = "request"
  /\ Raises(c, "RivianApiException")
  /\ AnswerFrame

(* The body cannot be read, is no JSON, or takes longer than aiohttp       *)
(* allows; request_timeout does not cover it and nothing is translated.    *)
BodyRaises(c) ==
  /\ at[c] = "body"
  /\ Raises(c, "raw")
  /\ AnswerFrame

(* Mutant: the attribute of the user session token is forgotten.           *)
StoreTwo(c) ==
  CASE op[c] \in {"authenticate", "validate_otp"} ->
         [tokens EXCEPT !["access"] = issue[c], !["refresh"] = issue[c]]
    [] OTHER -> [tokens EXCEPT !["csrf"] = issue[c], !["app"] = issue[c]]

(* Mutant: the csrf token is stored before the app session token is read.  *)
StoreCsrfOnly(c) ==
  CASE op[c] = "create_csrf_token" -> [tokens EXCEPT !["csrf"] = issue[c]]
    [] OTHER -> [tokens EXCEPT !["access"] = issue[c], !["refresh"] = issue[c],
                               !["user"] = issue[c]]

(* The tokens after the data of a log-in call.                             *)
Stored(c) ==
  CASE op[c] = "create_csrf_token" -> [tokens EXCEPT !["csrf"] = issue[c], !["app"] = issue[c]]
    [] OTHER -> [tokens EXCEPT !["access"] = issue[c], !["refresh"] = issue[c],
                               !["user"] = issue[c]]

ErrorsRaise(c, errors) ==
  /\ EndsWith(c, [what |-> ErrorRaised(errors), errors |-> errors])
  /\ UNCHANGED <<tokens, otpNeeded>>

ErrorsArrive(c) ==
  /\ at[c] = "body"
  /\ \E errors \in ErrorLists : ErrorsRaise(c, errors)
  /\ AnswerFrame

(* An answer without errors: a log-in call stores its tokens, or the       *)
(* challenge that authenticate may get instead.  The schema of the gateway *)
(* lets a mutation be null, and the call raises, but not the tokens of an  *)
(* object that is not.  A phone call or a command reads status and data, a *)
(* null being an error for a phone call only; a query returns the response *)
(* whatever it is.                                                         *)
DataArrives(c) ==
  /\ at[c] = "body"
  /\ \/ /\ op[c] \in TokenCalls
        /\ \/ /\ Ends(c, "success")
              /\ tokens' = Stored(c) /\ UNCHANGED otpNeeded
           \/ /\ op[c] = "authenticate" /\ Ends(c, "success")
              /\ tokens' = [tokens EXCEPT !["otp"] = issue[c]] /\ otpNeeded' = TRUE
           \/ Raises(c, "raw")
     \/ /\ op[c] \in PhoneCalls \cup CommandCalls
        /\ \/ \E r \in {"success", "no_success"} : Ends(c, r)
           \/ op[c] \in PhoneCalls /\ Ends(c, "raw")
        /\ UNCHANGED <<tokens, otpNeeded>>
     \/ /\ op[c] \in Queries \cup {"get_vehicle_state"}
        /\ Ends(c, "response") /\ UNCHANGED <<tokens, otpNeeded>>
  /\ AnswerFrame

-----------------------------------------------------------------------------
(* The session of the client                                               *)

(* _ws_connect needs the session too and creates the monitor.              *)
WsConnect ==
  /\ CreateSession /\ monitor' = TRUE /\ outcome' = NoOutcome
  /\ UNCHANGED <<tokens, otpNeeded, at, op, sent, issue, params, props, closing, issued>>

(* The second half of close(), after the await of the monitor's close().   *)
CloseSession ==
  /\ session' = IF session = "open" /\ owned THEN "closed" ELSE session
  /\ closing' = FALSE

CloseStarts ==
  /\ ~closing
  /\ \/ monitor /\ closing' = TRUE /\ UNCHANGED session
     \/ ~monitor /\ CloseSession
  /\ outcome' = NoOutcome
  /\ UNCHANGED <<owned, tokens, otpNeeded, monitor, at, op, sent, issue, params, props, issued>>

MonitorClosed ==
  /\ closing /\ CloseSession
  /\ outcome' = NoOutcome
  /\ UNCHANGED <<owned, tokens, otpNeeded, monitor, at, op, sent, issue, params, props, issued>>

Next ==
  \/ \E c \in Calls :
       \/ SimpleCall(c) \/ SendVehicleCommand(c) \/ GetVehicleState(c)
       \/ ResponseArrives(c) \/ RequestRaises(c)
       \/ BodyRaises(c) \/ ErrorsArrive(c) \/ DataArrives(c)
  \/ WsConnect \/ CloseStarts \/ MonitorClosed

Spec == Init /\ [][Next]_vars

(* request_timeout ends the wait for a response; the total timeout of an   *)
(* aiohttp session, which only a session of the client is known to have,   *)
(* ends that for the body.                                                 *)
Fairness ==
  \A c \in Calls : WF_vars(RequestRaises(c) \/ (owned /\ BodyRaises(c)))

FairSpec == Spec /\ Fairness

-----------------------------------------------------------------------------
Returned   == {"success", "no_success", "response"}
Exceptions == {"RuntimeError", "KeyError", "raw", "RivianInvalidOTP", "RivianPhoneLimitReachedError"}
              \cup {ErrorCodeClass[code] : code \in DOMAIN ErrorCodeClass}

(* Type invariant: every attribute and every call holds a value of its     *)
(* kind, and an answer has a number exactly while its body is read.        *)
SessionTypes ==
  /\ session \in {"none", "open", "closed"}
  /\ owned \in BOOLEAN /\ otpNeeded \in BOOLEAN /\ monitor \in BOOLEAN
  /\ tokens \in [TokenNames -> 0 .. MaxTokens]
  /\ closing \in BOOLEAN
  /\ issued \in 0 .. MaxTokens
CallTypes ==
  /\ at \in [Calls -> {"idle", "request", "body"}]
  /\ op \in [Calls -> Methods \cup {"none"}]
  /\ outcome.what \in {"none"} \cup Returned \cup Exceptions
  /\ outcome.errors \in ErrorLists \cup {<<>>}
  /\ issue \in [Calls -> 0 .. MaxTokens]
  /\ \A c \in Calls : issue[c] # 0 <=> at[c] = "body" /\ op[c] \in TokenCalls
TypeOK == SessionTypes /\ CallTypes

(* Whatever calls overlap, time out or fail, the tokens that one answer    *)
(* issued are replaced together and no others with them.                   *)
Tokens == INSTANCE TokenStore WITH
  Answers <- 1 .. MaxTokens,
  login <- <<tokens["access"], tokens["refresh"], tokens["user"]>>,
  anonymous <- <<tokens["csrf"], tokens["app"]>>,
  challenge <- tokens["otp"]

ImplementsTokenStore == Tokens!Spec

(* A request is sent with the csrf and app session token of one and the    *)
(* same answer, although both may be replaced while it is under way.       *)
HeadersBelongTogether ==
  \A c \in Calls : {"csrf", "app"} \subseteq DOMAIN sent[c].headers =>
    sent[c].headers["csrf"] = sent[c].headers["app"]

(* A call raises RivianUnauthenticated only when the first error that      *)
(* counts says that the login is gone: an expired one-time password is no  *)
(* reason to log in anew, and an error behind it neither.                  *)
LogoutMeansLogout ==
  outcome.what = "RivianUnauthenticated" =>
    \E i \in DOMAIN outcome.errors :
      /\ outcome.errors[i] \notin OtpErrors /\ outcome.errors[i][1] = "UNAUTHENTICATED"
      /\ \A j \in 1 .. i - 1 : ErrorClass(outcome.errors[j]) = "none"

(* close() closes the session that the client has created, at once or when *)
(* it has waited for the monitor, and no sequence of calls makes the       *)
(* session of the application one that close() closes.                     *)
OwnSessionClosed ==
  [][/\ session = "open" /\ ~owned => session' = "open" /\ ~owned'
     /\ closing /\ ~closing' /\ owned => session' = "closed"]_vars

(* As long as the application passes sets of its own, no sequence of calls *)
(* changes what the default sets ask for.                                  *)
DefaultsWhole ==
  \A s \in PropertySets \ Passed : props[s] = InitialProperties[s]

(* Every call ends: request_timeout bounds the wait for the response; that *)
(* for the body is bounded for a session of the client, by aiohttp.        *)
CallsEnd ==
  \A c \in Calls : at[c] # "idle" ~> at[c] = "idle" \/ (at[c] = "body" /\ ~owned)
=============================================================================
