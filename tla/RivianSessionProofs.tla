-------------------------- MODULE RivianSessionProofs --------------------------
(***************************************************************************)
(* Proofs about RivianSession, for every set of tasks, every number of     *)
(* answers, all lists of errors and all dictionaries.                      *)
(***************************************************************************)
EXTENDS RivianSession, IntegerLemmas

-----------------------------------------------------------------------------
(* The first error that counts                                             *)

LEMMA MinIsLeast ==
  ASSUME NEW S \in SUBSET Int, S # {}, IsFiniteSet(S)
  PROVE  Min(S) \in S /\ \A n \in S : Min(S) =< n
  BY LeastElement DEF Min

Answers == Seq(STRING \X STRING)

(* What an answer with errors raises is what its first error that counts   *)
(* raises, RivianApiException if none does.                                *)
LEMMA FirstErrorDecides ==
  ASSUME NEW errors \in Answers, ErrorRaised(errors) # "RivianApiException"
  PROVE  \E i \in DOMAIN errors :
           /\ ErrorRaised(errors) = ErrorClass(errors[i])
           /\ ErrorClass(errors[i]) # "none"
           /\ \A j \in 1 .. i - 1 : ErrorClass(errors[j]) = "none"
<1> DEFINE deciding == {i \in DOMAIN errors : ErrorClass(errors[i]) # "none"}
<1>1. DOMAIN errors = 1 .. Len(errors) /\ Len(errors) \in Nat
  BY DEF Answers
<1>2. deciding # {} /\ ErrorRaised(errors) = ErrorClass(errors[Min(deciding)])
  BY DEF ErrorRaised
<1>3. deciding \in SUBSET Int /\ IsFiniteSet(deciding)
  <2>1. IsFiniteSet(DOMAIN errors)
    BY <1>1, FS_Interval
  <2> QED
    BY <1>1, <2>1, FS_Subset
<1>4. Min(deciding) \in deciding /\ \A j \in deciding : Min(deciding) =< j
  <2> HIDE DEF deciding
  <2> QED
    BY <1>2, <1>3, MinIsLeast
<1>5. \A j \in 1 .. Min(deciding) - 1 : j \in DOMAIN errors /\ j \notin deciding
  <2> DEFINE i == Min(deciding)
  <2>1. i \in 1 .. Len(errors)
    BY <1>1, <1>4
  <2> SUFFICES ASSUME NEW j \in 1 .. i - 1
               PROVE  j \in DOMAIN errors /\ j \notin deciding
    OBVIOUS
  <2> HIDE DEF deciding, i
  <2>2. j \in 1 .. Len(errors) /\ ~(i =< j)
    BY <1>1, <2>1
  <2> QED
    BY <1>1, <1>4, <2>2 DEF i
<1> QED
  BY <1>2, <1>4, <1>5

(* Every error raises nothing or one of the exceptions.                    *)
LEMMA ErrorClassType ==
  ASSUME NEW e PROVE ErrorClass(e) \in Exceptions \cup {"none"}
  BY DEF ErrorClass, Exceptions

LEMMA ErrorRaisedType ==
  ASSUME NEW errors \in Answers PROVE ErrorRaised(errors) \in Exceptions
<1>1. "RivianApiException" \in Exceptions
  BY DEF Exceptions, ErrorCodeClass
<1> QED
  BY <1>1, FirstErrorDecides, ErrorClassType

(* Only an error that says that the login is gone raises the exception.    *)
LEMMA UnauthenticatedClass ==
  ASSUME NEW e, ErrorClass(e) = "RivianUnauthenticated"
  PROVE  e \notin OtpErrors /\ e[1] = "UNAUTHENTICATED"
  BY DEF ErrorClass, ErrorCodeClass

-----------------------------------------------------------------------------
(* The types that TypeOK does not state: what is sent, the dictionary and  *)
(* the sets of property names.                                             *)
Dictionaries == [key : Keys, type : ValueTypes, half : Int]
Bodies  == [otp : 0 .. MaxTokens, params : Dictionaries, asked : SUBSET PropertyNames]
Headers == UNION {[N -> 0 .. MaxTokens] : N \in SUBSET TokenNames}

DataTypes ==
  /\ sent \in [Calls -> [headers : Headers, body : Bodies]]
  /\ params \in Dictionaries
  /\ props \in [PropertySets -> SUBSET PropertyNames]

TypeInv == TypeOK /\ DataTypes

LEMMA HeaderNames ==
  ASSUME NEW o PROVE HeaderTokens(o) \subseteq TokenNames
  BY DEF HeaderTokens, TokenNames

LEMMA ConvertedType ==
  ASSUME NEW o, NEW d \in Dictionaries PROVE Converted(o, d) \in Dictionaries
  BY DEF Converted, Dictionaries, ValueTypes

-----------------------------------------------------------------------------
(* Effects of a step                                                       *)

(* A method is called and its request sent.                                *)
CallStarts(c, o, body) ==
  /\ at[c] = "idle"
  /\ at' = [at EXCEPT ![c] = "request"]
  /\ op' = [op EXCEPT ![c] = o]
  /\ sent' = [sent EXCEPT ![c] =
                [headers |-> [n \in HeaderTokens(o) |-> tokens[n]], body |-> body]]
  /\ outcome' = NoOutcome
  /\ UNCHANGED <<issue, issued>>

(* What a call ends with: it has returned, raised by itself, or raised     *)
(* what the errors of its answer say.                                      *)
Results ==
  {[what |-> w, errors |-> <<>>] : w \in Returned \cup (Exceptions \ {"RivianUnauthenticated"})}
  \cup {[what |-> ErrorRaised(errors), errors |-> errors] : errors \in ErrorLists}

CallsRest == UNCHANGED <<at, op, sent, issue, issued>> /\ outcome' \in {outcome, NoOutcome}

CallMoves(c) ==
  \/ \E o \in Methods, body \in Bodies : CallStarts(c, o, body)
  \/ ResponseArrives(c)
  \/ \E r \in Results : EndsWith(c, r)

(* Tokens change only where a log-in call has read an answer with data.    *)
TokensMove(c) ==
  /\ at[c] = "body" /\ op[c] \in TokenCalls /\ outcome'.what = "success"
  /\ \/ tokens' = Stored(c) /\ UNCHANGED otpNeeded
     \/ /\ op[c] = "authenticate"
        /\ tokens' = [tokens EXCEPT !["otp"] = issue[c]] /\ otpNeeded' = TRUE

TokensRest == UNCHANGED <<tokens, otpNeeded>>

SessionMoves ==
  \/ UNCHANGED <<session, owned, closing>>
  \/ CreateSession /\ UNCHANGED closing
  \/ closing' = TRUE /\ UNCHANGED <<session, owned>>
  \/ CloseSession /\ UNCHANGED owned

DataMoves ==
  /\ params' \in Dictionaries
  /\ \/ UNCHANGED props
     \/ \E s \in Passed, names \in SUBSET PropertyNames : props' = FilterProperties(s, names)

Effect ==
  /\ CallsRest \/ \E c \in Calls : CallMoves(c)
  /\ TokensRest \/ \E c \in Calls : TokensMove(c)
  /\ SessionMoves /\ DataMoves
  /\ monitor' \in BOOLEAN

(* Of the ways a request may start, Request leaves all but the body open.  *)
LEMMA RequestEffect ==
  ASSUME TypeInv, NEW c \in Calls, NEW o \in Methods, NEW body \in Bodies,
         at[c] = "idle", Request(c, o, body)
  PROVE  CallMoves(c) /\ TokensRest /\ SessionMoves /\ monitor' \in BOOLEAN
<1>1. TokensRest /\ SessionMoves /\ monitor' \in BOOLEAN
  BY DEF Request, TokensRest, SessionMoves, TypeInv, TypeOK, SessionTypes
<1>2. CASE session # "closed"
  <2>1. CallStarts(c, o, body)
    BY <1>2 DEF Request, CallStarts
  <2> QED
    BY <1>1, <2>1 DEF CallMoves
<1>3. CASE session = "closed"
  <2>1. [what |-> "RuntimeError", errors |-> <<>>] \in Results
    BY DEF Results, Exceptions
  <2> QED
    <3>1. Ends(c, "RuntimeError")
      BY <1>3 DEF Request
    <3> QED
      BY <1>1, <2>1, <3>1 DEF CallMoves, Ends
<1> QED
  BY <1>1, <1>2, <1>3

(* Whatever a call ends with is a result.                                  *)
LEMMA EndEffect ==
  ASSUME NEW c \in Calls,
         \/ \E w \in Returned \cup (Exceptions \ {"RivianUnauthenticated"}) : Ends(c, w)
         \/ \E errors \in ErrorLists :
              EndsWith(c, [what |-> ErrorRaised(errors), errors |-> errors])
  PROVE  CallMoves(c)
  BY DEF CallMoves, Results, Ends

LEMMA EndWords ==
  /\ {"raw", "RivianApiException", "RivianBadRequestError"}
       \subseteq Exceptions \ {"RivianUnauthenticated"}
  /\ {"success", "no_success", "response"} \subseteq Returned
  BY DEF Exceptions, ErrorCodeClass, Returned

(* Every step has the effects.                                             *)
LEMMA NextEffect == TypeInv /\ [Next]_vars => Effect
<1> SUFFICES ASSUME TypeInv, [Next]_vars PROVE Effect
  OBVIOUS
<1>t. params \in Dictionaries /\ monitor \in BOOLEAN /\ tokens \in [TokenNames -> 0 .. MaxTokens]
      /\ props \in [PropertySets -> SUBSET PropertyNames]
  BY DEF TypeInv, DataTypes, TypeOK, SessionTypes
<1>n. NoBody \in Bodies /\ NoParams \in Dictionaries
  BY SessionAssumption DEF NoBody, NoParams, Bodies, Dictionaries, Keys, ValueTypes
<1>r. ASSUME AnswerFrame PROVE SessionMoves /\ DataMoves /\ monitor' \in BOOLEAN
  BY <1>r, <1>t DEF AnswerFrame, SessionMoves, DataMoves
<1>1. ASSUME NEW c \in Calls, SimpleCall(c) PROVE Effect
  <2>1. PICK o \in TokenCalls \cup PhoneCalls \cup Queries :
          /\ at[c] = "idle"
          /\ Request(c, o, IF o = "validate_otp" THEN [NoBody EXCEPT !.otp = tokens["otp"]]
                                                 ELSE NoBody)
    BY <1>1 DEF SimpleCall, MayCall
  <2>2. o \in Methods
    BY DEF Methods
  <2>3. (IF o = "validate_otp" THEN [NoBody EXCEPT !.otp = tokens["otp"]] ELSE NoBody) \in Bodies
    BY <1>t, <1>n DEF Bodies, TokenNames
  <2>4. DataMoves
    BY <1>1, <1>t DEF SimpleCall, DataMoves
  <2> QED
    BY <2>1, <2>2, <2>3, <2>4, RequestEffect DEF Effect
<1>2. ASSUME NEW c \in Calls, SendVehicleCommand(c) PROVE Effect
  <2>1. PICK o \in CommandCalls, d \in Parameters \cup {params} :
          /\ at[c] = "idle"
          /\ params' = IF ~ValidParams(o, d) \/ Converted(o, d) = d THEN params
                                                                   ELSE Converted(o, d)
          /\ \/ ValidParams(o, d) /\ Request(c, o, [NoBody EXCEPT !.params = Converted(o, d)])
             \/ /\ IF ValidParams(o, d) THEN Ends(c, "raw") ELSE Ends(c, "RivianBadRequestError")
                /\ UNCHANGED <<session, owned, tokens, otpNeeded, monitor, closing>>
    BY <1>2 DEF SendVehicleCommand, MayCall
  <2>2. o \in Methods
    BY DEF Methods
  <2>3. d \in Dictionaries /\ Converted(o, d) \in Dictionaries
    BY <1>t, SessionAssumption, ConvertedType DEF Dictionaries
  <2>4. DataMoves
    BY <1>2, <1>t, <2>1, <2>3 DEF SendVehicleCommand, DataMoves
  <2>5. CASE ValidParams(o, d) /\ Request(c, o, [NoBody EXCEPT !.params = Converted(o, d)])
    <3>1. [NoBody EXCEPT !.params = Converted(o, d)] \in Bodies
      BY <1>n, <2>3 DEF Bodies
    <3> QED
      BY <2>1, <2>2, <2>3, <2>4, <2>5, <3>1, RequestEffect DEF Effect
  <2>6. CASE /\ Ends(c, "raw") \/ Ends(c, "RivianBadRequestError")
             /\ UNCHANGED <<session, owned, tokens, otpNeeded, monitor, closing>>
    <3>1. CallMoves(c)
      BY <2>6, EndEffect, EndWords
    <3> QED
      BY <1>t, <2>4, <2>6, <3>1 DEF Effect, TokensRest, SessionMoves
  <2> QED
    BY <2>1, <2>5, <2>6
<1>3. ASSUME NEW c \in Calls, GetVehicleState(c) PROVE Effect
  <2>1. PICK s \in Passed, names \in SUBSET PropertyNames :
          /\ props' = FilterProperties(s, names)
          /\ Request(c, "get_vehicle_state",
               [NoBody EXCEPT !.asked = IF Given(s, names) = {} THEN props'["state_properties"]
                                                                ELSE props'[s]])
    BY <1>3 DEF GetVehicleState
  <2>2. "get_vehicle_state" \in Methods
    BY DEF Methods
  <2>3. s \in PropertySets /\ "state_properties" \in PropertySets
    BY SessionAssumption DEF PropertySets
  <2>4. Given(s, names) \in SUBSET PropertyNames
    BY <1>t, <2>3 DEF Given
  <2>5. props' \in [PropertySets -> SUBSET PropertyNames]
    BY <1>t, <2>1, <2>3, <2>4 DEF FilterProperties
  <2>6. [NoBody EXCEPT !.asked = IF Given(s, names) = {} THEN props'["state_properties"]
                                                         ELSE props'[s]] \in Bodies
    BY <1>n, <2>3, <2>5 DEF Bodies
  <2>7. DataMoves
    BY <1>3, <1>t, <2>1 DEF GetVehicleState, DataMoves
  <2>8. at[c] = "idle"
    BY <1>3 DEF GetVehicleState, MayCall
  <2> QED
    BY <2>1, <2>2, <2>6, <2>7, <2>8, RequestEffect DEF Effect
<1>4. ASSUME NEW c \in Calls, ResponseArrives(c) PROVE Effect
  BY <1>4, <1>r DEF ResponseArrives, Effect, CallMoves, TokensRest
<1>5. ASSUME NEW c \in Calls, RequestRaises(c) \/ BodyRaises(c) PROVE Effect
  <2>1. Ends(c, "raw") \/ Ends(c, "RivianApiException")
    BY <1>5 DEF RequestRaises, BodyRaises, Raises
  <2>2. CallMoves(c)
    BY <2>1, EndEffect, EndWords
  <2> QED
    BY <1>5, <1>r, <2>2 DEF RequestRaises, BodyRaises, Raises, Effect, TokensRest
<1>6. ASSUME NEW c \in Calls, ErrorsArrive(c) PROVE Effect
  <2>1. PICK errors \in ErrorLists : ErrorsRaise(c, errors)
    BY <1>6 DEF ErrorsArrive
  <2>2. CallMoves(c)
    BY <2>1, EndEffect DEF ErrorsRaise
  <2> QED
    BY <1>6, <1>r, <2>1, <2>2 DEF ErrorsArrive, ErrorsRaise, Effect, TokensRest
<1>7. ASSUME NEW c \in Calls, DataArrives(c) PROVE Effect
  <2>1. \E w \in {"success", "raw", "no_success", "response"} : Ends(c, w)
    BY <1>7 DEF DataArrives, Raises
  <2>2. CallMoves(c)
    BY <2>1, EndEffect, EndWords
  <2>3. TokensRest \/ TokensMove(c)
    BY <1>7 DEF DataArrives, TokensRest, TokensMove, Raises, Ends, EndsWith
  <2> QED
    BY <1>7, <1>r, <2>2, <2>3 DEF DataArrives, Effect
<1>8. CASE WsConnect
  BY <1>8, <1>t DEF WsConnect, Effect, CallsRest, TokensRest, SessionMoves, DataMoves
<1>9. CASE CloseStarts
  BY <1>9, <1>t DEF CloseStarts, Effect, CallsRest, TokensRest, SessionMoves, DataMoves
<1>10. CASE MonitorClosed
  BY <1>10, <1>t DEF MonitorClosed, Effect, CallsRest, TokensRest, SessionMoves, DataMoves
<1>11. CASE UNCHANGED vars
  BY <1>11, <1>t DEF vars, call, Effect, CallsRest, TokensRest, SessionMoves, DataMoves
<1> QED
  BY <1>1, <1>2, <1>3, <1>4, <1>5, <1>6, <1>7, <1>8, <1>9, <1>10, <1>11 DEF Next

-----------------------------------------------------------------------------
(* Type correctness                                                        *)

LEMMA UnsentType == Unsent \in [headers : Headers, body : Bodies]
<1>1. [n \in {} |-> 0] \in Headers
  BY DEF Headers
<1>2. NoBody \in Bodies
  BY SessionAssumption DEF NoBody, NoParams, Bodies, Dictionaries, Keys, ValueTypes
<1> QED
  BY <1>1, <1>2 DEF Unsent

LEMMA InitTypes == Init => TypeInv
<1> SUFFICES ASSUME Init PROVE TypeInv
  OBVIOUS
<1>1. SessionTypes
  <2>1. tokens \in [TokenNames -> 0 .. MaxTokens] /\ issued \in 0 .. MaxTokens
    BY SessionAssumption DEF Init
  <2> QED
    BY <2>1 DEF Init, SessionTypes
<1>2. CallTypes
  BY SessionAssumption DEF Init, CallTypes, NoOutcome
<1>3. NoParams \in Dictionaries
  BY DEF NoParams, Dictionaries, Keys, ValueTypes
<1>4. InitialProperties \in [PropertySets -> SUBSET PropertyNames]
  BY DEF InitialProperties, PropertyNames
<1> QED
  BY <1>1, <1>2, <1>3, <1>4, UnsentType DEF Init, TypeInv, TypeOK, DataTypes

LEMMA ResultTypes ==
  ASSUME NEW r \in Results
  PROVE  r.what \in Returned \cup Exceptions /\ r.errors \in ErrorLists \cup {<<>>}
<1>1. ErrorLists \subseteq Answers
  BY SessionAssumption DEF Answers
<1> QED
  BY <1>1, ErrorRaisedType DEF Results

LEMMA NextTypes == TypeInv /\ [Next]_vars => TypeInv'
<1> SUFFICES ASSUME TypeInv, Effect PROVE TypeInv'
  BY NextEffect
<1> USE SessionAssumption
<1> DEFINE CallsTyped  == CallTypes /\ issued \in 0 .. MaxTokens
                          /\ sent \in [Calls -> [headers : Headers, body : Bodies]]
           TokensTyped == tokens \in [TokenNames -> 0 .. MaxTokens] /\ otpNeeded \in BOOLEAN
<1>1. CallsTyped'
  <2>1. CASE CallsRest
    BY <2>1 DEF CallsRest, TypeInv, TypeOK, SessionTypes, CallTypes, DataTypes, NoOutcome
  <2>2. ASSUME NEW c \in Calls, NEW o \in Methods, NEW body \in Bodies, CallStarts(c, o, body)
        PROVE  CallsTyped'
    <3>1. [n \in HeaderTokens(o) |-> tokens[n]] \in Headers
      BY HeaderNames DEF Headers, TypeInv, TypeOK, SessionTypes
    <3>2. sent' \in [Calls -> [headers : Headers, body : Bodies]]
      BY <2>2, <3>1 DEF CallStarts, TypeInv, DataTypes
    <3> QED
      BY <2>2, <3>2 DEF CallStarts, TypeInv, TypeOK, SessionTypes, CallTypes, NoOutcome
  <2>3. ASSUME NEW c \in Calls, ResponseArrives(c)
        PROVE  CallsTyped'
    <3>1. sent' \in [Calls -> [headers : Headers, body : Bodies]]
      BY <2>3, UnsentType DEF ResponseArrives, TypeInv, DataTypes
    <3> QED
      BY <2>3, <3>1 DEF ResponseArrives, TypeInv, TypeOK, SessionTypes, CallTypes, NoOutcome
  <2>4. ASSUME NEW c \in Calls, NEW r \in Results, EndsWith(c, r)
        PROVE  CallsTyped'
    <3>1. sent' \in [Calls -> [headers : Headers, body : Bodies]]
      BY <2>4, UnsentType DEF EndsWith, TypeInv, DataTypes
    <3> QED
      BY <2>4, <3>1, ResultTypes DEF EndsWith, TypeInv, TypeOK, SessionTypes, CallTypes
  <2> QED
    BY <2>1, <2>2, <2>3, <2>4 DEF Effect, CallMoves
<1>2. TokensTyped'
  <2>1. ASSUME NEW c \in Calls, TokensMove(c)
        PROVE  TokensTyped'
    <3>1. issue[c] \in 0 .. MaxTokens
      BY DEF TypeInv, TypeOK, CallTypes
    <3> QED
      BY <2>1, <3>1 DEF TokensMove, Stored, TypeInv, TypeOK, SessionTypes, TokenNames
  <2> QED
    BY <2>1 DEF Effect, TokensRest, TypeInv, TypeOK, SessionTypes
<1>3. session' \in {"none", "open", "closed"} /\ owned' \in BOOLEAN /\ closing' \in BOOLEAN
  BY DEF Effect, SessionMoves, CreateSession, CloseSession, TypeInv, TypeOK, SessionTypes
<1>4. params' \in Dictionaries /\ props' \in [PropertySets -> SUBSET PropertyNames]
  <2>1. ASSUME NEW s \in Passed, NEW names \in SUBSET PropertyNames
        PROVE  FilterProperties(s, names) \in [PropertySets -> SUBSET PropertyNames]
    BY DEF FilterProperties, Given, TypeInv, DataTypes
  <2> QED
    BY <2>1 DEF Effect, DataMoves, TypeInv, DataTypes
<1> QED
  BY <1>1, <1>2, <1>3, <1>4 DEF Effect, TypeInv, TypeOK, SessionTypes, DataTypes

LEMMA TypeInvariance == Spec => []TypeInv
  BY InitTypes, NextTypes, PTL DEF Spec

(* Every attribute and every call keeps its type, and an answer has a      *)
(* number exactly while the body of a log-in call is read.                 *)
THEOREM SessionTypesHold == Spec => []TypeOK
<1>1. TypeInv => TypeOK
  BY DEF TypeInv
<1> QED
  BY TypeInvariance, <1>1, PTL

-----------------------------------------------------------------------------
(* Safety                                                                  *)

(* The csrf and the app session token are stored together, so that they    *)
(* belong together whenever a request picks them up, and what was picked   *)
(* up is never changed.                                                    *)
HeaderInv == tokens["csrf"] = tokens["app"] /\ HeadersBelongTogether

LEMMA NextHeaders == TypeInv /\ HeaderInv /\ [Next]_vars => HeaderInv'
<1> SUFFICES ASSUME TypeInv, HeaderInv, Effect PROVE HeaderInv'
  BY NextEffect
<1>1. tokens'["csrf"] = tokens'["app"]
  BY DEF Effect, TokensRest, TokensMove, Stored, HeaderInv, TypeInv, TypeOK, SessionTypes, TokenNames
<1>2. ASSUME NEW d \in Calls, {"csrf", "app"} \subseteq DOMAIN sent'[d].headers
      PROVE  sent'[d].headers["csrf"] = sent'[d].headers["app"]
  <2>1. CASE sent'[d] = sent[d]
    BY <1>2, <2>1 DEF HeaderInv, HeadersBelongTogether
  <2>2. CASE sent'[d] = Unsent
    BY <1>2, <2>2 DEF Unsent
  <2>3. ASSUME NEW o \in Methods, NEW body \in Bodies,
               sent'[d] = [headers |-> [n \in HeaderTokens(o) |-> tokens[n]], body |-> body]
        PROVE  sent'[d].headers["csrf"] = sent'[d].headers["app"]
    BY <1>2, <2>3 DEF HeaderInv
  <2> QED
    BY <2>1, <2>2, <2>3 DEF Effect, CallsRest, CallMoves, CallStarts, ResponseArrives, EndsWith,
      TypeInv, DataTypes
<1> QED
  BY <1>1, <1>2 DEF HeaderInv, HeadersBelongTogether

(* However log-ins and requests overlap, no request carries the csrf token *)
(* of one answer and the app session token of another.                     *)
THEOREM HeadersTogether == Spec => []HeadersBelongTogether
<1>1. Init => HeaderInv
  BY DEF Init, HeaderInv, HeadersBelongTogether, Unsent, TokenNames
<1>2. HeaderInv => HeadersBelongTogether
  BY DEF HeaderInv
<1> QED
  BY TypeInvariance, <1>1, NextHeaders, <1>2, PTL DEF Spec

(* A call that ends as if the login were gone has met an error that says   *)
(* so before any other that counts.                                        *)
LEMMA NextLogout == TypeInv /\ LogoutMeansLogout /\ [Next]_vars => LogoutMeansLogout'
<1> SUFFICES ASSUME LogoutMeansLogout, Effect, outcome'.what = "RivianUnauthenticated"
             PROVE  \E i \in DOMAIN outcome'.errors :
                      /\ outcome'.errors[i] \notin OtpErrors
                      /\ outcome'.errors[i][1] = "UNAUTHENTICATED"
                      /\ \A j \in 1 .. i - 1 : ErrorClass(outcome'.errors[j]) = "none"
  BY NextEffect DEF LogoutMeansLogout
<1>1. CASE outcome' = outcome
  BY <1>1 DEF LogoutMeansLogout
<1>2. CASE outcome' \in Results
  <2>1. PICK errors \in ErrorLists :
          outcome' = [what |-> ErrorRaised(errors), errors |-> errors]
    BY <1>2 DEF Results, Returned
  <2>2. errors \in Answers /\ ErrorRaised(errors) = "RivianUnauthenticated"
    BY <2>1, SessionAssumption DEF Answers
  <2>3. PICK i \in DOMAIN errors :
          /\ ErrorClass(errors[i]) = "RivianUnauthenticated"
          /\ \A j \in 1 .. i - 1 : ErrorClass(errors[j]) = "none"
    BY <2>2, FirstErrorDecides
  <2>4. errors[i] \notin OtpErrors /\ errors[i][1] = "UNAUTHENTICATED"
    BY <2>3, UnauthenticatedClass
  <2> QED
    BY <2>1, <2>3, <2>4
<1>3. outcome' # NoOutcome
  BY DEF NoOutcome
<1> QED
  BY <1>1, <1>2, <1>3 DEF Effect, CallsRest, CallMoves, CallStarts, ResponseArrives, EndsWith

(* RivianUnauthenticated is raised only where the first error that counts  *)
(* says that the login is gone, for every list of errors.                  *)
THEOREM LogoutIsLogout == Spec => []LogoutMeansLogout
<1>1. Init => LogoutMeansLogout
  BY DEF Init, LogoutMeansLogout, NoOutcome
<1> QED
  BY TypeInvariance, <1>1, NextLogout, PTL DEF Spec

(* What is filtered is the set that was passed, never a default behind it. *)
LEMMA NextDefaults == TypeInv /\ DefaultsWhole /\ [Next]_vars => DefaultsWhole'
<1> SUFFICES ASSUME TypeInv, DefaultsWhole, Effect, NEW d \in PropertySets \ Passed
             PROVE  props'[d] = InitialProperties[d]
  BY NextEffect DEF DefaultsWhole
<1>1. props'[d] = props[d]
  BY DEF Effect, DataMoves, FilterProperties, TypeInv, DataTypes
<1> QED
  BY <1>1 DEF DefaultsWhole

(* The default sets of property names stay whole as long as the            *)
(* application passes sets of its own.                                     *)
THEOREM DefaultsStayWhole == Spec => []DefaultsWhole
<1>1. Init => DefaultsWhole
  BY DEF Init, DefaultsWhole
<1> QED
  BY TypeInvariance, <1>1, NextDefaults, PTL DEF Spec

-----------------------------------------------------------------------------
(* Steps                                                                   *)

(* The client's flag says that the session there is, is its own.           *)
OwnedInv == owned => session # "none"

(* close() closes the session of the client and no sequence of calls makes *)
(* it close the one of the application.                                    *)
THEOREM OnlyOwnSessionClosed == Spec => OwnSessionClosed
<1>1. Init => OwnedInv
  BY DEF Init, OwnedInv
<1>2. TypeInv /\ OwnedInv /\ [Next]_vars => OwnedInv'
  BY NextEffect DEF Effect, SessionMoves, CreateSession, CloseSession, OwnedInv,
    TypeInv, TypeOK, SessionTypes
<1>3. TypeInv /\ OwnedInv /\ [Next]_vars =>
        /\ session = "open" /\ ~owned => session' = "open" /\ ~owned'
        /\ closing /\ ~closing' /\ owned => session' = "closed"
  BY NextEffect DEF Effect, SessionMoves, CreateSession, CloseSession, OwnedInv,
    TypeInv, TypeOK, SessionTypes
<1> QED
  BY TypeInvariance, <1>1, <1>2, <1>3, PTL DEF Spec, OwnSessionClosed

-----------------------------------------------------------------------------
(* Implementation of TokenStore                                            *)

(* An answer that is being read has a number the store knows.              *)
LEMMA AnswerNumbered ==
  ASSUME TypeInv, NEW c \in Calls, at[c] = "body", op[c] \in TokenCalls
  PROVE  issue[c] \in 1 .. MaxTokens
  BY SessionAssumption DEF TypeInv, TypeOK, CallTypes

LEMMA TokenStep == TypeInv /\ [Next]_vars => [Tokens!Next]_(Tokens!vars)
<1> SUFFICES ASSUME TypeInv, Effect PROVE [Tokens!Next]_(Tokens!vars)
  BY NextEffect
<1>1. CASE TokensRest
  BY <1>1 DEF TokensRest, Tokens!vars
<1>2. ASSUME NEW c \in Calls, TokensMove(c)
      PROVE  Tokens!Next
  <2>1. issue[c] \in 1 .. MaxTokens
    BY <1>2, AnswerNumbered DEF TokensMove
  <2>2. tokens \in [TokenNames -> 0 .. MaxTokens]
    BY DEF TypeInv, TypeOK, SessionTypes
  <2>3. \/ Tokens!Login(issue[c]) \/ Tokens!Anonymous(issue[c]) \/ Tokens!Challenge(issue[c])
    BY <1>2, <2>2 DEF TokensMove, Stored, TokenNames, Tokens!Login, Tokens!Anonymous, Tokens!Challenge
  <2> QED
    BY <2>1, <2>3 DEF Tokens!Next
<1> QED
  BY <1>1, <1>2 DEF Effect

(* The requests of a client implement the store: the tokens of one answer  *)
(* are replaced together, whatever calls overlap, time out or fail.        *)
THEOREM TokenStoreImplemented == Spec => ImplementsTokenStore
<1>1. Init => Tokens!Init
  BY DEF Init, Tokens!Init, TokenNames
<1> QED
  BY TypeInvariance, <1>1, TokenStep, PTL DEF Spec, ImplementsTokenStore, Tokens!Spec

=============================================================================
