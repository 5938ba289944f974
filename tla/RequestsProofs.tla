--------------------------- MODULE RequestsProofs ---------------------------
(***************************************************************************)
(* What Requests keeps for any results of the statements, any lifetimes of *)
(* a token and any length of time: a token is accepted in time only, what  *)
(* was rolled back is told to nobody, the connection is given back outside *)
(* any transaction, the status tells what became of it, and whatever was   *)
(* written, however far the handler got, is JSON.                          *)
(***************************************************************************)
EXTENDS Requests, AnswerProofs

(* Where a handler is: *)

Errors == {Error("value"), Error("lines"), Redirect}

\* the steps it has left behind have done their part, ...
Progress ==
    /\ method \in Methods /\ at \in 1 .. Len(Steps[method]) + 1
    /\ phase = "running" =>
         /\ \A j \in 1 .. at - 1 : Steps[method][j] = "lease" => leased
         /\ method = "grab_prizes" /\ at > 2 => check.verdict = "accepted"
         /\ method \in Transactional /\ at > Len(Steps[method]) => committed

\* ... a transaction is open only between its BEGIN and its end, ...
InTransaction ==
    /\ session \in {"clean", "open", "broken"} /\ leased \in BOOLEAN
    /\ session = "open" =>
         /\ leased /\ method \in Transactional
         /\ phase = "failing" \/ (phase = "running" /\ at <= Len(Steps[method]))

\* ... and once it has failed the answer is an error and nothing else.
Told == (phase \in {"failing", "over"} => sys \in Errors) /\ NothingUncommittedIsTold

\* A token that can be accepted has the claims it was made with.
Sound(t) == t.last = NoClaim \/ (t.expired = t.issued + Keep /\ t.last = t.login + Life)

Claims ==
    /\ Sound(minted) /\ Sound(token) /\ Sound(check.token)
    /\ check.verdict = "accepted" => check.token.last # NoClaim
    /\ AcceptedInTime

IInv == Progress /\ InTransaction /\ Told /\ Claims

-----------------------------------------------------------------------------
(* The steps of the handlers.                                              *)

\* Each handler, with its steps written out.
LEMMA StepsAre ==
    /\ Steps["test_msg"] = <<"message">>
    /\ Steps["test_redirect"] = <<"redirect">>
    /\ Steps["test_error"] = <<"error">>
    /\ Steps["unknown"] = <<"error">>
    /\ Steps["hello_world"] = <<"args", "lease", "count", "hello">>
    /\ Steps["test_sqltype"] = <<"lease", "count", "begin", "query", "query", "commit">>
    /\ Steps["test_sqlarray"] = <<"lease", "count", "begin", "query", "query", "commit">>
    /\ Steps["test_json"] = <<"lease", "count", "begin", "query", "commit">>
    /\ Steps["test_insert"] = <<"lease", "count", "begin", "params", "execute", "commit">>
    /\ Steps["test_array_insert"] = <<"lease", "count", "begin", "params", "query", "commit">>
    /\ Steps["test_json_insert"] = <<"lease", "count", "begin", "params", "query", "commit">>
    /\ Steps["user_login"] = <<"args", "lease", "count", "begin", "params", "query",
                               "login", "commit">>
    /\ Steps["grab_prizes"] = <<"args", "parse", "lease", "count", "begin", "params",
                                "query", "renew", "commit">>
BY DEF Steps, TwoReads, Insert

\* The steps that the database sees follow the one that gets the connection.
OnDatabase == {"count", "begin", "query", "execute", "login", "renew", "commit"}

\* In every handler: the token is parsed before it is renewed, the connection comes
\* before what is done with it, and COMMIT is the last step of a transaction.
LEMMA StepsInOrder ==
    ASSUME NEW m \in Methods
    PROVE  /\ Len(Steps[m]) \in Nat /\ Len(Steps[m]) >= 1
           /\ m = "grab_prizes" => Steps[m][2] = "parse"
           /\ m \in Transactional => Steps[m][Len(Steps[m])] = "commit"
           /\ \A i \in 1 .. Len(Steps[m]) :
                /\ Steps[m][i] = "renew" => m = "grab_prizes" /\ i > 2
                /\ Steps[m][i] = "begin" => m \in Transactional
                /\ Steps[m][i] = "commit" => m \in Transactional
                /\ Steps[m][i] \in OnDatabase =>
                     \E j \in 1 .. i - 1 : Steps[m][j] = "lease"
<1> USE DEF Transactional, Methods, OnDatabase
<1>1. CASE m = "test_msg"
  BY <1>1, StepsAre
<1>2. CASE m = "test_redirect"
  BY <1>2, StepsAre
<1>3. CASE m = "test_error"
  BY <1>3, StepsAre
<1>4. CASE m = "unknown"
  BY <1>4, StepsAre
<1>5. CASE m = "hello_world"
  BY <1>5, StepsAre
<1>6. CASE m = "test_sqltype"
  BY <1>6, StepsAre
<1>7. CASE m = "test_sqlarray"
  BY <1>7, StepsAre
<1>8. CASE m = "test_json"
  BY <1>8, StepsAre
<1>9. CASE m = "test_insert"
  BY <1>9, StepsAre
<1>10. CASE m = "test_array_insert"
  BY <1>10, StepsAre
<1>11. CASE m = "test_json_insert"
  BY <1>11, StepsAre
<1>12. CASE m = "user_login"
  BY <1>12, StepsAre
<1>13. CASE m = "grab_prizes"
  BY <1>13, StepsAre
<1> QED BY <1>1, <1>2, <1>3, <1>4, <1>5, <1>6, <1>7, <1>8,
           <1>9, <1>10, <1>11, <1>12, <1>13

\* Where a handler is that takes a step.
LEMMA AtStep ==
    ASSUME Progress, NEW name, Step(name)
    PROVE  /\ phase = "running" /\ method \in Methods
           /\ at \in 1 .. Len(Steps[method]) /\ Len(Steps[method]) \in Nat
           /\ Steps[method][at] = name
           /\ method' = method /\ now' = now /\ token' = token
           /\ at > 2 /\ method = "grab_prizes" => check.verdict = "accepted"
           /\ at = 2 /\ method = "grab_prizes" => name = "parse"
           /\ at = Len(Steps[method]) /\ method \in Transactional => name = "commit"
           /\ name = "renew" => method = "grab_prizes" /\ at > 2
           /\ name \in {"begin", "commit"} => method \in Transactional
           /\ name \in OnDatabase => leased
<1>1. method \in Methods /\ at \in 1 .. Len(Steps[method]) + 1 /\ phase = "running"
      /\ at <= Len(Steps[method]) /\ Steps[method][at] = name
  BY DEF Progress, Step
<1>2. Len(Steps[method]) \in Nat
  BY <1>1, StepsInOrder
<1>3. at \in 1 .. Len(Steps[method])
  BY <1>1, <1>2
<1>4. name \in OnDatabase => leased
  BY <1>1, <1>2, <1>3, StepsInOrder DEF Progress
<1> QED BY <1>1, <1>2, <1>3, <1>4, StepsInOrder DEF Progress, Step

\* A step of the handler keeps what is known of it, when it neither parses a token
\* nor commits, and keeps the connection that it has.
LEMMA StepProgress ==
    ASSUME Progress, NEW name, Step(name), name \notin {"parse", "commit"},
           leased => leased', name = "lease" => leased',
           check' = check, committed' = committed,
           GoesOn \/ (phase' = "failing" /\ at' = at)
    PROVE  Progress'
<1>1. CASE phase' = "failing" /\ at' = at
  BY <1>1, AtStep DEF Progress
<1>2. CASE GoesOn
  <2>1. /\ method' \in Methods /\ at' \in 1 .. Len(Steps[method']) + 1
        /\ at' = at + 1
    BY <1>2, AtStep DEF GoesOn
  <2>2. \A j \in 1 .. at' - 1 : Steps[method'][j] = "lease" => leased'
    BY <2>1, AtStep DEF Progress
  <2>3. method' = "grab_prizes" /\ at' > 2 => check'.verdict = "accepted"
    BY <2>1, AtStep
  <2>4. ~(method' \in Transactional /\ at' > Len(Steps[method']))
    BY <2>1, AtStep
  <2> QED BY <2>1, <2>2, <2>3, <2>4 DEF Progress
<1> QED BY <1>1, <1>2

\* It keeps an open transaction within its bounds.
LEMMA StepInTransaction ==
    ASSUME Progress, InTransaction, NEW name, Step(name), name # "commit",
           session' \in {session, "clean", "broken"}, leased' \in {leased, TRUE},
           GoesOn \/ (phase' = "failing" /\ at' = at)
    PROVE  InTransaction'
<1>1. session' = "open" => leased' /\ method' \in Transactional /\ session = "open"
  BY AtStep DEF InTransaction
<1>2. session' = "open" /\ GoesOn => phase' = "running" /\ at' <= Len(Steps[method'])
  BY <1>1, AtStep DEF GoesOn
<1> QED BY <1>1, <1>2 DEF InTransaction

\* What is told so far is nobody's yet, or an error.
LEMMA StepTold ==
    ASSUME phase' = "running" \/ (phase' = "failing" /\ sys' \in Errors)
    PROVE  Told'
BY DEF Told, NothingUncommittedIsTold, Answered

LEMMA Joined ==
    ASSUME NEW S, NEW s \in Seq(S), NEW t \in Seq(S)
    PROVE  s \o t \in Seq(S)
OBVIOUS

\* An error has no record set and no token in it.
LEMMA ErrorsTellNothing ==
    ASSUME NEW text \in Errors
    PROVE  {"recordset", "token"} \cap Range(Closed(text)) = {}
<1> DEFINE Quiet == {"{", "}", ",", "status", "500", "302", "error", "msg", "url", "elapsed",
                     "value", "lines"}
<1>1. Error("value") \in Seq(Quiet) /\ Error("lines") \in Seq(Quiet) /\ Redirect \in Seq(Quiet)
  BY DEF Error, Redirect
<1>2. <<>> \in Seq(Quiet) /\ <<",">> \in Seq(Quiet) /\ <<"elapsed", "value", "}">> \in Seq(Quiet)
  OBVIOUS
<1>3. text \in Seq(Quiet)
  BY <1>1 DEF Errors
<1>4. Closed(text) \in Seq(Quiet)
  <2> HIDE DEF Quiet
  <2> DEFINE comma == IF Last(text) = "," THEN <<>> ELSE <<",">>
  <2>1. comma \in Seq(Quiet)
    BY <1>2
  <2>2. text \o comma \in Seq(Quiet)
    BY <1>3, <2>1, Joined
  <2> QED BY <1>2, <2>2, Joined DEF Closed
<1>5. Range(Closed(text)) \subseteq Quiet
  <2> HIDE DEF Quiet
  <2> QED BY <1>4 DEF Range
<1> QED BY <1>5

\* Tokens as they are made: the first one of a login, and a renewed one.
LEMMA MadeSound ==
    ASSUME Claims
    PROVE  /\ Sound(Make(now, NoClaim, now))
           /\ check.token.last # NoClaim =>
                Sound(Make(check.at + Keep, check.token.last, check.token.login))
BY DEF Sound, Make

\* Only a token that can be accepted is.
LEMMA AcceptedSound ==
    ASSUME Sound(token), Verdict(token) = "accepted"
    PROVE  /\ token.last # NoClaim
           /\ now <= token.issued + Keep /\ now <= token.login + Life
<1>1. token.last # NoClaim
  BY DEF Verdict
<1>2. now <= token.expired /\ now <= token.last
  BY <1>1 DEF Verdict
<1> QED BY <1>1, <1>2 DEF Sound

-----------------------------------------------------------------------------
(* The invariant is inductive: one lemma per action that does something to  *)
(* it, and the rest.                                                       *)

LEMMA Initially == Init => IInv
<1> SUFFICES ASSUME Init PROVE IInv
  OBVIOUS
<1>1. Progress
  BY StepsInOrder DEF Init, Progress, Methods
<1>2. InTransaction /\ Told
  BY DEF Init, InTransaction, Told, NothingUncommittedIsTold, Transactional
<1>3. Claims
  BY DEF Init, Claims, Sound, NoToken, NoCheck, AcceptedInTime
<1> QED BY <1>1, <1>2, <1>3 DEF IInv

\* The steps that neither parse a token, mint one, begin, nor commit.
LEMMA PlainSteps ==
    ASSUME IInv, Reply \/ Greet \/ Prepare \/ Lease \/ Count \/ Query \/ Execute \/ StatementFails
    PROVE  IInv'
<1>1. PICK name : /\ Step(name) /\ name \notin {"parse", "commit"}
                  /\ check' = check /\ minted' = minted /\ committed' = committed
                  /\ leased => leased'
                  /\ name = "lease" => leased'
                  /\ session' \in {session, "clean", "broken"} /\ leased' \in {leased, TRUE}
                  /\ GoesOn \/ (phase' = "failing" /\ at' = at /\ sys' \in Errors)
  <2>1. CASE Reply
    BY <2>1 DEF Reply, dbVars
  <2>2. CASE Greet
    BY <2>2 DEF Greet, dbVars
  <2>3. CASE Prepare
    BY <2>3 DEF Prepare, dbVars, FailsWith, Errors
  <2>4. CASE Lease
    BY <2>4 DEF Lease
  <2>5. CASE Count
    BY <2>5 DEF Count
  <2>6. CASE Query
    BY <2>6 DEF Query, dbVars
  <2>7. CASE Execute
    BY <2>7 DEF Execute, dbVars
  <2>8. CASE StatementFails
    BY <2>8 DEF StatementFails, FailsWith, Errors
  <2> QED BY <2>1, <2>2, <2>3, <2>4, <2>5, <2>6, <2>7, <2>8
<1>2. Progress'
  BY <1>1, StepProgress DEF IInv
<1>3. InTransaction'
  BY <1>1, StepInTransaction DEF IInv
<1>4. Told'
  BY <1>1, StepTold, AtStep DEF IInv, GoesOn
<1>5. Claims'
  BY <1>1, AtStep DEF IInv, Claims, AcceptedInTime, Sound
<1> QED BY <1>2, <1>3, <1>4, <1>5 DEF IInv

LEMMA BeginKeeps == IInv /\ Begin => IInv'
<1> SUFFICES ASSUME IInv, Begin PROVE IInv'
  OBVIOUS
<1>1. Step("begin") /\ check' = check /\ minted' = minted /\ committed' = committed
      /\ leased' = leased
      /\ \/ GoesOn /\ session' = "open"
         \/ phase' = "failing" /\ at' = at /\ sys' \in Errors /\ session' = "broken"
  BY DEF Begin, FailsWith, Errors
<1>2. Progress'
  BY <1>1, StepProgress DEF IInv
<1>3. InTransaction'
  BY <1>1, AtStep DEF IInv, InTransaction, GoesOn, OnDatabase
<1>4. Told'
  BY <1>1, StepTold, AtStep DEF IInv, GoesOn
<1>5. Claims'
  BY <1>1, AtStep DEF IInv, Claims, AcceptedInTime, Sound
<1> QED BY <1>2, <1>3, <1>4, <1>5 DEF IInv

LEMMA MintKeeps == IInv /\ MintToken => IInv'
<1> SUFFICES ASSUME IInv, MintToken PROVE IInv'
  OBVIOUS
<1>1. PICK name \in {"login", "renew"} : Step(name)
  BY DEF MintToken
<1>2. GoesOn /\ check' = check /\ committed' = committed /\ leased' = leased /\ session' = session
  BY DEF MintToken, dbVars
<1>3. Progress'
  BY <1>1, <1>2, StepProgress DEF IInv
<1>4. InTransaction'
  BY <1>1, <1>2, StepInTransaction DEF IInv, InTransaction
<1>5. Told'
  BY <1>1, <1>2, StepTold, AtStep DEF IInv, GoesOn
<1>6. Sound(minted')
  <2>1. CASE Step("login") /\ minted' = Make(now, NoClaim, now)
    BY <2>1, MadeSound DEF IInv
  <2>2. CASE Step("renew") /\ minted' = Make(check.at + Keep, check.token.last, check.token.login)
    <3>1. check.verdict = "accepted"
      BY <2>2, AtStep DEF IInv
    <3> QED BY <2>2, <3>1, MadeSound DEF IInv, Claims
  <2> QED BY <2>1, <2>2 DEF MintToken
<1>7. Claims'
  BY <1>1, <1>2, <1>6, AtStep DEF IInv, Claims, AcceptedInTime, Sound
<1> QED BY <1>3, <1>4, <1>5, <1>7 DEF IInv

LEMMA ParseKeeps == IInv /\ ParseToken => IInv'
<1> SUFFICES ASSUME IInv, ParseToken PROVE IInv'
  OBVIOUS
<1>1. /\ Step("parse") /\ check' = [verdict |-> Verdict(token), at |-> now, token |-> token]
      /\ minted' = minted /\ committed' = committed /\ leased' = leased /\ session' = session
      /\ \/ GoesOn /\ check'.verdict = "accepted"
         \/ phase' = "failing" /\ at' = at /\ sys' \in Errors
  BY DEF ParseToken, FailsWith, Errors, dbVars
<1>2. Progress'
  BY <1>1, AtStep DEF IInv, Progress, GoesOn
<1>3. InTransaction'
  BY <1>1, StepInTransaction DEF IInv, InTransaction
<1>4. Told'
  BY <1>1, StepTold, AtStep DEF IInv, GoesOn
<1>5. Claims'
  BY <1>1, AtStep, AcceptedSound DEF IInv, Claims, AcceptedInTime, Sound
<1> QED BY <1>2, <1>3, <1>4, <1>5 DEF IInv

LEMMA CommitKeeps == IInv /\ Commit => IInv'
<1> SUFFICES ASSUME IInv, Commit PROVE IInv'
  OBVIOUS
<1>1. /\ Step("commit") /\ check' = check /\ minted' = minted /\ leased' = leased
      /\ session' \in {"clean", "broken"}
      /\ \/ GoesOn /\ committed'
         \/ phase' = "failing" /\ at' = at /\ sys' \in Errors
  BY DEF Commit, FailsWith, Errors
<1>2. Progress'
  BY <1>1, AtStep DEF IInv, Progress, GoesOn
<1>3. InTransaction'
  BY <1>1, AtStep DEF IInv, InTransaction
<1>4. Told'
  BY <1>1, StepTold, AtStep DEF IInv, GoesOn
<1>5. Claims'
  BY <1>1, AtStep DEF IInv, Claims, AcceptedInTime, Sound
<1> QED BY <1>2, <1>3, <1>4, <1>5 DEF IInv

LEMMA ReceiveKeeps == ASSUME IInv, NEW m \in Methods, Receive(m) PROVE IInv'
<1>1. Progress'
  BY StepsInOrder DEF Receive, Progress
<1>2. InTransaction' /\ Told'
  BY DEF IInv, Receive, InTransaction, Told, NothingUncommittedIsTold, Answered
<1>3. Claims'
  BY DEF IInv, Receive, Claims, Sound, NoToken, NoCheck, AcceptedInTime
<1> QED BY <1>1, <1>2, <1>3 DEF IInv

LEMMA CleanUpKeeps == IInv /\ CleanUp => IInv'
<1> SUFFICES ASSUME IInv, CleanUp PROVE IInv'
  OBVIOUS
<1>1. Progress'
  BY DEF IInv, CleanUp, Progress
<1>2. InTransaction'
  BY DEF IInv, CleanUp, InTransaction
<1>3. Told'
  BY DEF IInv, CleanUp, Told, Errors, NothingUncommittedIsTold, Answered
<1>4. Claims'
  BY DEF IInv, CleanUp, Claims, AcceptedInTime, Sound, tokenVars
<1> QED BY <1>1, <1>2, <1>3, <1>4 DEF IInv

LEMMA FinishKeeps == IInv /\ Finish => IInv'
<1> SUFFICES ASSUME IInv, Finish PROVE IInv'
  OBVIOUS
<1>1. Progress'
  BY DEF IInv, Finish, Progress
<1>2. InTransaction'
  <2>1. at > Len(Steps[method]) => ~(at <= Len(Steps[method]))
    BY StepsInOrder DEF IInv, Progress
  <2> QED BY <2>1 DEF IInv, Finish, InTransaction
<1>3. Told'
  <2>1. CASE phase = "over"
    BY <2>1, ErrorsTellNothing DEF IInv, Finish, Told, NothingUncommittedIsTold
  <2>2. CASE phase = "running" /\ at > Len(Steps[method])
    BY <2>2 DEF IInv, Finish, Told, NothingUncommittedIsTold, Progress
  <2> QED BY <2>1, <2>2 DEF Finish
<1>4. Claims'
  BY DEF IInv, Finish, Claims, AcceptedInTime, Sound
<1> QED BY <1>1, <1>2, <1>3, <1>4 DEF IInv

LEMMA IdleKeeps == ASSUME IInv, Tick \/ UNCHANGED vars PROVE IInv'
<1>1. UNCHANGED <<method, at, phase, sys, leased, session, committed, minted, check, token>>
  BY DEF Tick, vars, dbVars, tokenVars
<1> QED BY <1>1 DEF IInv, Progress, InTransaction, Told, NothingUncommittedIsTold, Answered,
                    Claims, AcceptedInTime, Sound

LEMMA Inductive == Spec => []IInv
<1>1. IInv /\ [Next]_vars => IInv'
  BY PlainSteps, BeginKeeps, MintKeeps, ParseKeeps, CommitKeeps, ReceiveKeeps, CleanUpKeeps,
     FinishKeeps, IdleKeeps DEF Next
<1> QED BY <1>1, Initially, PTL DEF Spec

-----------------------------------------------------------------------------
\* SE_parse_token accepts a token only within token_keep of the moment it was made,
\* and within eight hours of the login, however often it was renewed.
THEOREM TokensExpire == Spec => []AcceptedInTime
<1>1. IInv => AcceptedInTime
  BY DEF IInv, Claims
<1> QED BY <1>1, Inductive, PTL

\* The client reads no record set and no token of a transaction that was rolled
\* back, whatever the statements return and wherever the handler fails.
THEOREM OnlyCommittedIsTold == Spec => []NothingUncommittedIsTold
<1>1. IInv => NothingUncommittedIsTold
  BY DEF IInv, Told
<1> QED BY <1>1, Inductive, PTL

-----------------------------------------------------------------------------
(* The types.                                                              *)

\* What has not been said yet: tokens and times are what they should be, ...
Clocked ==
    /\ now \in Times /\ phase \in {"running", "failing", "over", "answered"}
    /\ committed \in BOOLEAN /\ odd \in BOOLEAN
    /\ minted \in Tokens \cup {NoToken} /\ token \in Tokens \cup {NoToken}
    /\ check.verdict \in {"none", "accepted", "late", "unusable"}
    /\ check.at \in Times /\ check.token \in Tokens \cup {NoToken}
\* ... and the answer is a text, and never an empty one.
Typed == sys \in Texts /\ Clocked

\* What every statement returns has the shape libpq gives it.
LEMMA OneNumberIsResult == IsResult(OneNumber)
<1> DEFINE row == <<Scalar>>
<1>1. Scalar \in Cells
  BY DEF Scalar, Cells
<1>2. row \in Seq(Cells) /\ Len(row) = 1
  BY <1>1
<1> DEFINE X == Seq(Cells)
<1> HIDE DEF row, X
<1>3. <<row>> \in Seq(X) /\ \A i \in DOMAIN <<row>> : Len(<<row>>[i]) = 1
  BY <1>2 DEF X
<1>4. OneNumber = [status |-> "tuples", cols |-> 1, rows |-> <<row>>]
  BY DEF OneNumber, row
<1> QED BY <1>3, <1>4 DEF IsResult, X

LEMMA ReturnsResults == \A m \in Methods : \A r \in Returns(m) : IsResult(r)
BY OneNumberIsResult, RequestsAssumption DEF Returns

\* A token that is made is one.
LEMMA MadeTyped ==
    ASSUME NEW tm \in Nat, NEW last, NEW login \in Times, now \in Times,
           tm <= MaxTime + Keep, last = NoClaim => tm <= MaxTime
    PROVE  Make(tm, last, login) \in Tokens
BY RequestsAssumption DEF Make, Tokens, Times, NoClaim

\* The token behind an accepted one was made once.
LEMMA ClaimsTyped ==
    ASSUME Claims, Clocked, check.verdict = "accepted"
    PROVE  check.token.last # NoClaim /\ check.token.login \in Times
BY DEF Claims, Clocked, Tokens, NoToken

\* Every step leaves a text, and leaves tokens and times what they are.
LEMMA TextsKept ==
    ASSUME IInv, Typed, [Next]_vars
    PROVE  sys' \in Texts
<1>1. CASE UNCHANGED sys
  BY <1>1 DEF Typed
<1>2. CASE \E why \in {"value", "lines"} : sys' = Error(why)
  BY <1>2, TextsAre
<1>3. CASE sys' \in {Message, Redirect, Opening}
  BY <1>3, TextsAre
<1>4. CASE \E more \in Seq(Signs) : sys' = sys \o more
  <2>1. PICK more \in Seq(Signs) : sys' = sys \o more
    BY <1>4
  <2>2. sys \in Seq(Signs) /\ sys # <<>>
    BY DEF Typed, Texts
  <2> QED BY <2>1, <2>2, TextMore
<1>5. CASE Query
  <2>1. PICK r \in Returns(method) : sys' = AddRecordset(sys, r)
    BY <1>5 DEF Query
  <2>2. IsResult(r)
    BY ReturnsResults DEF IInv, Progress
  <2> QED BY <2>1, <2>2, RecordsetKeepsText DEF Typed
<1>6. CASE Finish
  BY <1>6, ClosedKeepsText DEF Finish, Typed
<1>7. CASE Reply \/ Prepare \/ ParseToken \/ Begin \/ StatementFails \/ Commit \/ CleanUp
  <2>1. UNCHANGED sys \/ (\E why \in {"value", "lines"} : sys' = Error(why))
          \/ sys' \in {Message, Redirect, Opening}
    BY <1>7 DEF Reply, Prepare, ParseToken, Begin, StatementFails, Commit, CleanUp, FailsWith
  <2> QED BY <2>1, <1>1, <1>2, <1>3
<1>8. CASE Greet \/ MintToken
  BY <1>4, <1>8, TextsAre DEF Greet, MintToken
<1>9. CASE Tick \/ Lease \/ Count \/ Execute \/ UNCHANGED vars
  BY <1>1, <1>9 DEF Tick, Lease, Count, Execute, vars
<1>10. CASE \E m \in Methods : Receive(m)
  BY <1>3, <1>10 DEF Receive
<1> QED BY <1>5, <1>6, <1>7, <1>8, <1>9, <1>10 DEF Next

LEMMA ClockedKept ==
    ASSUME IInv, Typed, [Next]_vars
    PROVE  Clocked'
<1>0. Clocked
  BY DEF Typed
<1>1. CASE UNCHANGED <<now, committed, odd, minted, token, check>>
           /\ phase' \in {"running", "failing", "over", "answered"}
  BY <1>0, <1>1 DEF Clocked
<1>2. CASE Tick \/ UNCHANGED vars
  <2>1. now' \in Times
    BY <1>0, <1>2, RequestsAssumption DEF Tick, vars, Times, Clocked
  <2> QED BY <1>0, <1>2, <2>1 DEF Tick, vars, dbVars, tokenVars, Clocked
<1>3. CASE Prepare \/ Lease \/ Count \/ Begin \/ Execute \/ StatementFails \/ CleanUp \/ Reply
  <2>1. /\ UNCHANGED <<now, committed, odd, minted, token, check>>
        /\ phase' \in {"running", "failing", "over", "answered"}
    BY <1>0, <1>3 DEF Prepare, Lease, Count, Begin, Execute, StatementFails, CleanUp, Reply, Step,
             GoesOn, FailsWith, dbVars, tokenVars, Clocked
  <2> QED BY <1>1, <2>1
<1>4. CASE Greet \/ Query
  <2>1. /\ UNCHANGED <<now, committed, minted, token, check>> /\ odd' \in BOOLEAN
        /\ phase' = phase
    BY <1>0, <1>4 DEF Greet, Query, Step, GoesOn, dbVars, Clocked
  <2> QED BY <1>0, <2>1 DEF Clocked
<1>5. CASE Commit
  <2>1. /\ UNCHANGED <<now, odd, minted, token, check>> /\ committed' \in BOOLEAN
        /\ phase' \in {phase, "failing"}
    BY <1>0, <1>5 DEF Commit, Step, GoesOn, FailsWith, Clocked
  <2> QED BY <1>0, <2>1 DEF Clocked
<1>6. CASE ParseToken
  <2>1. /\ UNCHANGED <<now, committed, odd, minted, token>> /\ phase' \in {phase, "failing"}
        /\ check' = [verdict |-> Verdict(token), at |-> now, token |-> token]
    BY <1>6 DEF ParseToken, Step, GoesOn, FailsWith, dbVars
  <2> QED BY <1>0, <2>1 DEF Clocked, Verdict
<1>7. CASE MintToken
  <2>1. /\ UNCHANGED <<now, committed, odd, token, check>> /\ phase' = phase
    BY <1>7 DEF MintToken, Step, GoesOn, dbVars
  <2>2. minted' \in Tokens
    <3>1. CASE Step("login") /\ minted' = Make(now, NoClaim, now)
      <4>1. now \in Times /\ now \in Nat /\ now <= MaxTime
        BY <1>0, RequestsAssumption DEF Clocked, Times
      <4> QED BY <3>1, <4>1, MadeTyped, RequestsAssumption
    <3>2. CASE Step("renew") /\ minted' = Make(check.at + Keep, check.token.last, check.token.login)
      <4>1. check.verdict = "accepted"
        BY <3>2, AtStep DEF IInv
      <4>2. check.token.last # NoClaim /\ check.token.login \in Times
        BY <1>0, <4>1, ClaimsTyped DEF IInv
      <4>3. now \in Times /\ check.at + Keep \in Nat /\ check.at + Keep <= MaxTime + Keep
        BY <1>0, RequestsAssumption DEF Clocked, Times
      <4> QED BY <3>2, <4>2, <4>3, MadeTyped
    <3> QED BY <1>7, <3>1, <3>2 DEF MintToken
  <2> QED BY <1>0, <2>1, <2>2 DEF Clocked
<1>8. CASE Finish
  <2>1. UNCHANGED <<now, committed, odd, minted, check>> /\ phase' = "answered"
        /\ token' \in {token, minted}
    BY <1>8 DEF Finish
  <2> QED BY <1>0, <2>1 DEF Clocked
<1>9. CASE \E m \in Methods : Receive(m)
  <2>1. /\ now' = now /\ token' = token /\ phase' = "running" /\ committed' = FALSE /\ odd' = FALSE
        /\ minted' = NoToken /\ check' = NoCheck
    BY <1>9 DEF Receive
  <2>2. 0 \in Times
    BY RequestsAssumption DEF Times
  <2> QED BY <1>0, <2>1, <2>2 DEF Clocked, NoCheck
<1> QED BY <1>2, <1>3, <1>4, <1>5, <1>6, <1>7, <1>8, <1>9 DEF Next

LEMMA StaysTyped == Spec => []Typed
<1>1. Init => Typed
  <2> SUFFICES ASSUME Init PROVE Typed
    OBVIOUS
  <2>1. sys \in Texts
    BY TextsAre, ClosedKeepsText DEF Init
  <2>2. 0 \in Times
    BY RequestsAssumption DEF Times
  <2> QED BY <2>1, <2>2 DEF Init, Typed, Clocked, NoCheck
<1>2. IInv /\ Typed /\ [Next]_vars => Typed'
  BY TextsKept, ClockedKept DEF Typed
<1> QED BY <1>1, <1>2, Inductive, PTL DEF Spec

\* Every variable keeps its shape, whatever the statements return: the answer is a text
\* of signs, and the claims of a token stay within two times token_keep and eight hours.
THEOREM RequestsTyped == Spec => []TypeOK
<1>1. IInv /\ Typed => TypeOK
  BY DEF IInv, Progress, InTransaction, Typed, Clocked, TypeOK, Texts
<1> QED BY <1>1, Inductive, StaysTyped, PTL

-----------------------------------------------------------------------------
(* What is written, and what became of the transaction.                    *)

\* The steps that add what is not a record set; and all that add something.
Speaking == {"message", "error", "redirect", "hello", "login", "renew"}
Adding   == Speaking \cup {"query"}

\* The handler has taken one of these steps.
Behind(names) == \E j \in 1 .. at - 1 : Steps[method][j] \in names

\* What is in the answer while the handler runs, ...
Writing ==
    phase = "running" =>
      /\ ~Behind(Adding) => sys = Opening
      /\ ~odd =>
           /\ \E status \in Statuses : Closable(status, sys)
           /\ method \in Transactional => Closable("200", sys)
           /\ Behind({"query"}) /\ ~Behind(Speaking) => RecordSets("200", sys)

\* ... and what became of the transaction when it is read.
Outcome ==
    /\ phase = "running" /\ at <= Len(Steps[method]) => ~committed
    /\ phase \in {"failing", "over"} /\ committed => session = "broken"
    /\ StatusTellsOutcome
    /\ PlainAnswerIsJson

\* In every handler: a plain answer, a greeting or a token comes last, a token behind a
\* query, and COMMIT behind all of them.
LEMMA StepsSpeak ==
    ASSUME NEW m \in Methods
    PROVE  \A i \in 1 .. Len(Steps[m]) :
             /\ Steps[m][i] \in {"message", "error", "redirect"} => m \notin Transactional
             /\ Steps[m][i] = "query" => \A j \in 1 .. i - 1 : Steps[m][j] \notin Speaking
             /\ Steps[m][i] = "hello" => \A j \in 1 .. i - 1 : Steps[m][j] \notin Adding
             /\ Steps[m][i] \in {"login", "renew"} =>
                  /\ \A j \in 1 .. i - 1 : Steps[m][j] \notin Speaking
                  /\ \E j \in 1 .. i - 1 : Steps[m][j] = "query"
             /\ Steps[m][i] = "commit" => i = Len(Steps[m])
<1> USE DEF Transactional, Methods, Speaking, Adding
<1>1. CASE m = "test_msg"
  BY <1>1, StepsAre
<1>2. CASE m = "test_redirect"
  BY <1>2, StepsAre
<1>3. CASE m = "test_error"
  BY <1>3, StepsAre
<1>4. CASE m = "unknown"
  BY <1>4, StepsAre
<1>5. CASE m = "hello_world"
  BY <1>5, StepsAre
<1>6. CASE m = "test_sqltype"
  BY <1>6, StepsAre
<1>7. CASE m = "test_sqlarray"
  BY <1>7, StepsAre
<1>8. CASE m = "test_json"
  BY <1>8, StepsAre
<1>9. CASE m = "test_insert"
  BY <1>9, StepsAre
<1>10. CASE m = "test_array_insert"
  BY <1>10, StepsAre
<1>11. CASE m = "test_json_insert"
  BY <1>11, StepsAre
<1>12. CASE m = "user_login"
  BY <1>12, StepsAre
<1>13. CASE m = "grab_prizes"
  BY <1>13, StepsAre
<1> QED BY <1>1, <1>2, <1>3, <1>4, <1>5, <1>6, <1>7, <1>8,
           <1>9, <1>10, <1>11, <1>12, <1>13

\* What a step finds in the answer.
LEMMA Finds ==
    ASSUME Progress, Writing, Outcome, NEW name, Step(name)
    PROVE  /\ ~committed
           /\ name = "hello" => sys = Opening
           /\ name = "query" /\ ~odd => sys = Opening \/ RecordSets("200", sys)
           /\ name \in {"login", "renew"} /\ ~odd => RecordSets("200", sys)
           /\ name \in {"message", "error", "redirect"} => method \notin Transactional
           /\ name = "commit" => at = Len(Steps[method])
<1>1. /\ phase = "running" /\ method \in Methods /\ at \in 1 .. Len(Steps[method])
      /\ Steps[method][at] = name /\ Len(Steps[method]) \in Nat
  BY AtStep
<1>2. ~committed
  BY <1>1 DEF Outcome
<1>3. /\ name = "hello" => ~Behind(Adding)
      /\ name \in {"query", "login", "renew"} => ~Behind(Speaking)
      /\ name \in {"login", "renew"} => Behind({"query"})
      /\ name \in {"message", "error", "redirect"} => method \notin Transactional
      /\ name = "commit" => at = Len(Steps[method])
  BY <1>1, StepsSpeak DEF Behind
<1>4. Behind(Adding) => Behind(Speaking) \/ Behind({"query"})
  BY DEF Behind, Adding
<1> QED BY <1>1, <1>2, <1>3, <1>4 DEF Writing

\* What it leaves behind when the handler goes on.
LEMMA GoesBehind ==
    ASSUME Progress, NEW name, Step(name), GoesOn, NEW names
    PROVE  Behind(names)' <=> Behind(names) \/ name \in names
<1>1. /\ method \in Methods /\ at \in 1 .. Len(Steps[method])
      /\ Steps[method][at] = name /\ Len(Steps[method]) \in Nat /\ method' = method /\ at' = at + 1
  BY AtStep DEF GoesOn
<1>2. Behind(names)' <=> \E j \in 1 .. at : Steps[method][j] \in names
  BY <1>1 DEF Behind
<1>3. 1 .. at = 1 .. at - 1 \cup {at}
  BY <1>1
<1> QED BY <1>1, <1>2, <1>3 DEF Behind

\* Every error can be closed.
LEMMA ErrorsAreClosable ==
    ASSUME NEW text \in Errors
    PROVE  Closable("500", text) \/ Closable("302", text)
BY RepliesReached DEF Errors

Tells == Writing /\ Outcome

\* A step that fails leaves an error; nothing was committed, unless the connection
\* broke.
LEMMA FailingTold ==
    ASSUME phase' = "failing", committed' => session' = "broken"
    PROVE  Tells'
BY DEF Tells, Writing, Outcome, StatusTellsOutcome, PlainAnswerIsJson, Answered

\* A step that goes on keeps the outcome open.
LEMMA OutcomeOpen ==
    ASSUME Progress, Writing, Outcome, NEW name, Step(name), GoesOn,
           name = "commit" \/ committed' = committed
    PROVE  Outcome' /\ phase' = "running" /\ method' = method
<1>1. /\ phase' = "running" /\ method' = method /\ at' = at + 1 /\ at \in 1 .. Len(Steps[method])
      /\ Len(Steps[method]) \in Nat /\ ~committed
  BY AtStep, Finds DEF GoesOn
<1>2. at' <= Len(Steps[method'])  => ~committed'
  BY <1>1, Finds
<1> QED BY <1>1, <1>2 DEF Outcome, StatusTellsOutcome, PlainAnswerIsJson, Answered

\* A step that adds nothing, one that says something, and a query.
LEMMA QuietTold ==
    ASSUME Progress, Writing, Outcome, NEW name, Step(name), GoesOn, name \notin Adding,
           UNCHANGED <<sys, odd>>, name = "commit" \/ committed' = committed
    PROVE  Tells'
<1>1. Outcome' /\ phase' = "running" /\ method' = method /\ phase = "running"
  BY OutcomeOpen, AtStep
<1>2. Behind(Adding)' <=> Behind(Adding)
  BY GoesBehind
<1>3. Behind(Speaking)' <=> Behind(Speaking)
  BY GoesBehind DEF Adding
<1>4. Behind({"query"})' <=> Behind({"query"})
  BY GoesBehind DEF Adding
<1> HIDE DEF Adding, Speaking
<1>5. Writing'
  BY <1>1, <1>2, <1>3, <1>4 DEF Writing
<1> QED BY <1>1, <1>5 DEF Tells

LEMMA SpokenTold ==
    ASSUME Progress, Writing, Outcome, NEW name, Step(name), GoesOn, name \in Speaking,
           committed' = committed,
           ~odd' => /\ \E status \in Statuses : Closable(status, sys')
                    /\ method \in Transactional => Closable("200", sys')
    PROVE  Tells'
<1>1. Outcome' /\ phase' = "running" /\ method' = method
  BY OutcomeOpen
<1>2. Behind(Adding)' /\ Behind(Speaking)'
  BY GoesBehind DEF Adding
<1>3. Writing'
  BY <1>1, <1>2 DEF Writing
<1> QED BY <1>1, <1>3 DEF Tells

LEMMA QueryTold ==
    ASSUME Progress, Writing, Outcome, Query
    PROVE  Tells'
<1> DEFINE name == "query"
<1>0. Step(name) /\ GoesOn /\ committed' = committed
  BY DEF Query, dbVars
<1>1. Outcome' /\ phase' = "running" /\ method' = method
  BY <1>0, OutcomeOpen
<1>2. Behind(Adding)'
  BY <1>0, GoesBehind DEF Adding
<1>3. ASSUME ~odd' PROVE RecordSets("200", sys')
  <2>1. PICK r \in Returns(method) : sys' = AddRecordset(sys, r) /\ odd' = (odd \/ ~Plain(r))
    BY DEF Query
  <2>2. IsResult(r) /\ Plain(r) /\ ~odd
    BY <1>3, <2>1, ReturnsResults DEF Progress
  <2>3. sys = Opening \/ RecordSets("200", sys)
    BY <1>0, <2>2, Finds
  <2> QED BY <2>1, <2>2, <2>3, RecordsetReached
<1>4. ~odd' => Closable("200", sys') /\ "200" \in Statuses
  BY <1>3, RecordSetsClosable DEF Statuses
<1>5. Writing'
  BY <1>1, <1>2, <1>3, <1>4 DEF Writing
<1> QED BY <1>1, <1>5 DEF Tells

LEMMA SpeakingTold ==
    ASSUME Progress, Writing, Outcome, Reply \/ Greet \/ MintToken
    PROVE  Tells'
<1>0. "200" \in Statuses /\ "302" \in Statuses /\ "500" \in Statuses
  BY DEF Statuses
<1>1. CASE Reply
  <2>1. PICK name \in {"message", "error", "redirect"} :
           Step(name) /\ sys' \in {Message, Error("value"), Redirect}
    BY <1>1 DEF Reply
  <2>2. GoesOn /\ committed' = committed /\ method \notin Transactional /\ name \in Speaking
    BY <1>1, <2>1, Finds DEF Reply, dbVars, Speaking
  <2>3. \E status \in Statuses : Closable(status, sys')
    BY <1>0, <2>1, RepliesReached
  <2> QED BY <2>1, <2>2, <2>3, SpokenTold
<1>2. CASE Greet
  <2> DEFINE name == "hello"
  <2>1. Step(name) /\ GoesOn /\ committed' = committed /\ name \in Speaking
    BY <1>2 DEF Greet, dbVars, Speaking
  <2>2. sys = Opening
    BY <2>1, Finds
  <2>3. ~odd' => sys' = sys \o Hello("value")
    BY <1>2 DEF Greet
  <2>4. ~odd' => Closable("200", sys')
    BY <2>2, <2>3, HelloReached
  <2> QED BY <1>0, <2>1, <2>4, SpokenTold
<1>3. CASE MintToken
  <2>1. PICK name \in {"login", "renew"} : Step(name)
    BY <1>3 DEF MintToken
  <2>2. GoesOn /\ committed' = committed /\ odd' = odd /\ sys' = sys \o Token /\ name \in Speaking
    BY <1>3, <2>1 DEF MintToken, dbVars, Speaking
  <2>3. ~odd => Closable("200", sys \o Token)
    BY <2>1, Finds, TokenReached
  <2> QED BY <1>0, <2>1, <2>2, <2>3, SpokenTold
<1> QED BY <1>1, <1>2, <1>3

LEMMA OtherStepsTold ==
    ASSUME Progress, Writing, Outcome,
           Prepare \/ ParseToken \/ Lease \/ Count \/ Begin \/ Execute \/ StatementFails \/ Commit
    PROVE  Tells'
<1>1. PICK name \in {"args", "params", "parse", "lease", "count", "begin", "execute", "commit",
                     "query", "login", "renew"} :
         /\ Step(name)
         /\ \/ phase' = "failing" /\ (committed' => committed \/ session' = "broken")
            \/ /\ GoesOn /\ UNCHANGED <<sys, odd>> /\ (name = "commit" \/ committed' = committed)
               /\ name \notin {"query", "login", "renew"}
  <2>1. CASE Prepare
    BY <2>1 DEF Prepare, FailsWith, dbVars
  <2>2. CASE ParseToken
    BY <2>2 DEF ParseToken, FailsWith, dbVars
  <2>3. CASE Lease \/ Count
    BY <2>3 DEF Lease, Count
  <2>4. CASE Begin
    BY <2>4 DEF Begin, FailsWith
  <2>5. CASE Execute
    BY <2>5 DEF Execute, dbVars
  <2>6. CASE StatementFails
    BY <2>6 DEF StatementFails, FailsWith
  <2>7. CASE Commit
    BY <2>7 DEF Commit, FailsWith
  <2> QED BY <2>1, <2>2, <2>3, <2>4, <2>5, <2>6, <2>7
<1>2. ~committed
  BY <1>1, Finds
<1>3. CASE phase' = "failing" /\ (committed' => committed \/ session' = "broken")
  BY <1>2, <1>3, FailingTold
<1>4. CASE /\ GoesOn /\ UNCHANGED <<sys, odd>> /\ (name = "commit" \/ committed' = committed)
           /\ name \notin {"query", "login", "renew"}
  <2>1. name \notin Adding
    BY <1>4 DEF Adding, Speaking
  <2> QED BY <1>1, <1>4, <2>1, QuietTold
<1> QED BY <1>1, <1>3, <1>4

\* The end is put behind what was written, and the status is what it was.
LEMMA FinishTold ==
    ASSUME IInv, Writing, Outcome, Finish
    PROVE  Tells'
<1>1. /\ phase' = "answered" /\ sys' = Closed(sys)
      /\ UNCHANGED <<method, at, session, committed, odd>>
  BY DEF Finish
<1>2. CASE phase = "over"
  <2>1. PICK status \in {"500", "302"} : Closable(status, sys)
    BY <1>2, ErrorsAreClosable DEF IInv, Told
  <2>2. Reach(status, sys', "nothing", <<>>) /\ status # "200"
    BY <1>1, <2>1, ClosedReached
  <2>3. sys'[3] # "200" /\ IsJson(LinesAside(sys'))
    BY <2>2 DEF Reach, IsJson, Json, Start, St
  <2>4. committed => session = "broken"
    BY <1>2 DEF Outcome
  <2>5. Outcome'
    BY <1>1, <2>3, <2>4 DEF Outcome, StatusTellsOutcome, PlainAnswerIsJson
  <2> QED BY <1>1, <2>5 DEF Tells, Writing
<1>3. CASE phase = "running" /\ at > Len(Steps[method])
  <2>1. method \in Transactional => committed
    BY <1>3 DEF IInv, Progress
  <2>2. ASSUME ~odd PROVE IsJson(LinesAside(sys')) /\ (method \in Transactional => sys'[3] = "200")
    <3>1. PICK status \in Statuses : /\ Closable(status, sys)
                                     /\ method \in Transactional => status = "200"
      BY <1>3, <2>2 DEF Writing, Statuses
    <3>2. Reach(status, sys', "nothing", <<>>)
      BY <1>1, <3>1, ClosedReached
    <3> QED BY <3>1, <3>2 DEF Reach, IsJson, Json, Start, St
  <2>3. Outcome'
    BY <1>1, <2>1, <2>2 DEF Outcome, StatusTellsOutcome, PlainAnswerIsJson
  <2> QED BY <1>1, <2>3 DEF Tells, Writing
<1> QED BY <1>2, <1>3 DEF Finish

LEMMA ReceiveTold ==
    ASSUME NEW m \in Methods, Receive(m)
    PROVE  Tells'
<1>1. phase' = "running" /\ sys' = Opening /\ committed' = FALSE /\ at' = 1
  BY DEF Receive
<1>2. ~Behind({"query"})'
  BY <1>1 DEF Behind
<1>3. Closable("200", Opening) /\ "200" \in Statuses
  BY OpeningReached DEF Closable, Statuses
<1>4. Writing'
  BY <1>1, <1>2, <1>3 DEF Writing
<1> QED BY <1>1, <1>4 DEF Tells, Outcome, StatusTellsOutcome, PlainAnswerIsJson, Answered

LEMMA CleanUpTold ==
    ASSUME Writing, Outcome, CleanUp
    PROVE  Tells'
<1>1. phase = "failing" /\ phase' = "over" /\ committed' = committed
      /\ (session = "broken" => session' = "broken")
  BY DEF CleanUp
<1> QED BY <1>1 DEF Tells, Writing, Outcome, StatusTellsOutcome, PlainAnswerIsJson, Answered

LEMMA IdleTold ==
    ASSUME Writing, Outcome, Tick \/ UNCHANGED vars
    PROVE  Tells'
<1>1. UNCHANGED <<method, at, phase, sys, session, committed, odd>>
  BY DEF Tick, vars, dbVars
<1> QED BY <1>1 DEF Tells, Writing, Outcome, StatusTellsOutcome, PlainAnswerIsJson, Answered, Behind

LEMMA InitiallyTold == Init => Tells
<1> SUFFICES ASSUME Init PROVE Tells
  OBVIOUS
<1>1. phase = "answered" /\ sys = Closed(Error("value")) /\ method = "unknown"
  BY DEF Init
<1>2. Reach("500", sys, "nothing", <<>>)
  BY <1>1, RepliesReached, ClosedReached
<1>3. IsJson(LinesAside(sys)) /\ method \notin Transactional
  BY <1>1, <1>2 DEF Reach, IsJson, Json, Start, St, Transactional
<1> QED BY <1>1, <1>3 DEF Tells, Writing, Outcome, StatusTellsOutcome, PlainAnswerIsJson

LEMMA StaysTold == Spec => []Tells
<1>1. IInv /\ Tells /\ [Next]_vars => Tells'
  BY QueryTold, SpeakingTold, OtherStepsTold, FinishTold, ReceiveTold, CleanUpTold, IdleTold
  DEF Next, Tells, IInv
<1> QED BY <1>1, InitiallyTold, Inductive, PTL DEF Spec

\* The status of a handler with a transaction tells what became of it: 200 only if it was
\* committed, and whenever it was, unless the connection broke during COMMIT or a result
\* could not be written as it should (odd).
THEOREM StatusIsTrue == Spec => []StatusTellsOutcome
<1>1. Tells => StatusTellsOutcome
  BY DEF Tells, Outcome
<1> QED BY <1>1, StaysTold, PTL

\* However many results, rows, cells and elements there are, and wherever the handler
\* fails, the answer is JSON when every result can be written: the commas that are
\* written too many are taken away, and no other sign is.
THEOREM PlainAnswersAreJson == Spec => []PlainAnswerIsJson
<1>1. Tells => PlainAnswerIsJson
  BY DEF Tells, Outcome
<1> QED BY <1>1, StaysTold, PTL

-----------------------------------------------------------------------------
(* The handlers keep the promise of ConnectionPool.                        *)


Has   == [c \in {"connection"} |-> IF leased THEN {"worker"} ELSE {}]
State == [c \in {"connection"} |-> session]

\* Whoever has the connection may do anything to its session.
LEMMA UseMaps ==
    ASSUME leased, leased', session' \in {"clean", "open", "broken"}
    PROVE  Lending!Next
<1>1. Lending!Use("worker", "connection")
  <2>1. /\ State' = [State EXCEPT !["connection"] = session']
        /\ Has' = Has /\ Has["connection"] = {"worker"}
    BY DEF State, Has
  <2> QED BY <2>1 DEF Lending!Use, Lending!Sessions, State, Has
<1> QED BY <1>1 DEF Lending!Next

LEMMA LeaseMaps ==
    ASSUME IInv, Lease
    PROVE  [Lending!Next]_<<Has, State>>
<1>1. leased' /\ session' = session
  BY DEF Lease
<1>2. CASE leased
  BY <1>1, <1>2 DEF Has, State
<1>3. CASE ~leased
  <2>1. session # "open"
    BY <1>3 DEF IInv, InTransaction
  <2>2. Has' = [Has EXCEPT !["connection"] = {"worker"}] /\ State' = State
    BY <1>1, <1>3 DEF Has, State
  <2>3. Has["connection"] = {} /\ State["connection"] # "open"
    BY <1>3, <2>1 DEF Has, State
  <2>4. Lending!Lend("worker", "connection")
    BY <2>2, <2>3 DEF Lending!Lend, Has, State
  <2> QED BY <2>4 DEF Lending!Next
<1> QED BY <1>2, <1>3 DEF IInv, InTransaction

LEMMA FinishMaps ==
    ASSUME IInv, Finish
    PROVE  [Lending!Next]_<<Has, State>>
<1>1. leased' = FALSE /\ session' = session /\ session # "open"
  <2>1. at > Len(Steps[method]) => ~(at <= Len(Steps[method]))
    BY StepsInOrder DEF IInv, Progress
  <2> QED BY <2>1 DEF Finish, IInv, InTransaction
<1>2. CASE ~leased
  BY <1>1, <1>2 DEF Has, State
<1>3. CASE leased
  <2>1. Has' = [Has EXCEPT !["connection"] = {}] /\ State' = State
    BY <1>1, <1>3 DEF Has, State
  <2>2. Has["connection"] = {"worker"} /\ State["connection"] # "open"
    BY <1>1, <1>3 DEF Has, State
  <2>3. Lending!GiveBack("worker", "connection")
    BY <2>1, <2>2 DEF Lending!GiveBack, Has, State
  <2> QED BY <2>3 DEF Lending!Next
<1> QED BY <1>2, <1>3 DEF IInv, InTransaction

\* The steps between: the connection stays, and its session changes only when the
\* handler has it.
LEMMA SessionMaps ==
    ASSUME IInv, IInv', leased' = leased, leased \/ session' = session
    PROVE  [Lending!Next]_<<Has, State>>
<1>1. CASE leased
  BY <1>1, UseMaps DEF IInv, InTransaction
<1>2. CASE ~leased
  BY <1>2 DEF Has, State
<1> QED BY <1>1, <1>2 DEF IInv, InTransaction

LEMMA StepMaps == IInv /\ IInv' /\ [Next]_vars => [Lending!Next]_<<Has, State>>
<1> SUFFICES ASSUME IInv, IInv', [Next]_vars PROVE [Lending!Next]_<<Has, State>>
  OBVIOUS
<1>1. CASE Lease
  BY <1>1, LeaseMaps
<1>2. CASE Finish
  BY <1>2, FinishMaps
<1>3. CASE Tick \/ Reply \/ Greet \/ Prepare \/ ParseToken \/ Query \/ Execute \/ MintToken
           \/ UNCHANGED vars \/ \E m \in Methods : Receive(m)
  <2>1. leased' = leased /\ session' = session
    BY <1>3 DEF Tick, Reply, Greet, Prepare, ParseToken, Query, Execute, MintToken, Receive,
                vars, dbVars
  <2> QED BY <2>1 DEF Has, State
<1>4. CASE Count \/ Begin \/ StatementFails \/ Commit
  <2>1. leased' = leased /\ \E name \in OnDatabase : Step(name)
    BY <1>4 DEF Count, Begin, StatementFails, Commit, OnDatabase
  <2>2. leased
    BY <2>1, AtStep DEF IInv
  <2> QED BY <2>1, <2>2, SessionMaps
<1>5. CASE CleanUp
  BY <1>5, SessionMaps DEF CleanUp
<1> QED BY <1>1, <1>2, <1>3, <1>4, <1>5 DEF Next

\* Every handler, wherever it fails, gets a connection, uses it alone, and gives it
\* back outside any transaction: the promise of ConnectionPool.
THEOREM HandlersImplementLending == Spec => LendingSpec
<1>1. Init => Lending!Init
  BY DEF Init, Lending!Init
<1>2. Spec => [][Lending!Next]_<<Has, State>>
  BY StepMaps, Inductive, PTL DEF Spec
<1> QED BY <1>1, <1>2, PTL DEF Spec, LendingSpec, Lending!Spec, Has, State
=============================================================================
