------------------------------ MODULE Requests ------------------------------
(***************************************************************************)
(* What one worker does with the requests it gets: user_process of         *)
(* se_handler.c and its handlers, step by step, with the database failing  *)
(* at any of them; the answer they write (Answer); and the token a client  *)
(* gets when it logs in and brings back later (SE_make_token and           *)
(* SE_parse_token in core/se_utils.c), while time goes by.                 *)
(***************************************************************************)
EXTENDS Answer, Integers

CONSTANTS Results,    \* what a statement may return (a set of results)
          Keep,       \* conf->token_keep
          Life,       \* eight hours, in the same unit
          MaxTime     \* bound: the last tick of the clock

ASSUME RequestsAssumption ==
    /\ Keep \in Nat \ {0} /\ Life \in Nat /\ Keep < Life /\ MaxTime \in Nat
    /\ \A r \in Results : IsResult(r)

VARIABLES now,          \* time(NULL)
          method,       \* the method requested
          at,           \* the next step of its handler
          phase,        \* is it running, failing, over, or was it answered?
          sys,          \* arg->sys
          leased,       \* arg->pg is not NULL
          session,      \* the PostgreSQL session behind the connection
          committed,    \* history: the request's transaction was committed
          odd,          \* history: what was rendered was not plain
          minted,       \* the token the request has put into its answer
          check,        \* history: what SE_parse_token said, and when
          token         \* the token the client has

dbVars    == <<leased, session, committed>>
tokenVars == <<minted, check, token>>
vars == <<now, method, at, phase, sys, dbVars, odd, tokenVars>>

-----------------------------------------------------------------------------
(* Tokens. A token has the claims "expired" and "last"; issued and login   *)
(* are a history: when it was made and when its chain of renewals began.   *)

NoClaim == -1
NoToken == [expired |-> NoClaim, last |-> NoClaim, issued |-> NoClaim, login |-> NoClaim]
NoCheck == [verdict |-> "none", at |-> 0, token |-> NoToken]
Times   == 0 .. MaxTime
Tokens  == [expired : 0 .. MaxTime + 2 * Keep, last : {NoClaim} \cup 0 .. MaxTime + Life,
            issued : Times, login : Times]

MakeLonger(tm, last, login) ==   \* mutant: the lifetime goes into "expired"
    [expired |-> tm + Keep + Life, last |-> IF last = NoClaim THEN tm + Life ELSE NoClaim,
     issued |-> now, login |-> login]

MakeWithLast(tm, last, login) ==   \* mutant: a renewed token gets its "last" again
    [expired |-> tm + Keep, last |-> IF last = NoClaim THEN tm + Life ELSE last,
     issued |-> now, login |-> login]

\* SE_make_token: the claim "last" is written when the caller has none to hand on.
Make(tm, last, login) ==
    [expired |-> tm + Keep, last |-> IF last = NoClaim THEN tm + Life ELSE NoClaim,
     issued |-> now, login |-> login]

\* SE_parse_token: every claim must be there, and neither time be over.
Verdict(t) ==
    IF t.last = NoClaim THEN "unusable"
    ELSE IF now <= t.expired /\ now <= t.last THEN "accepted" ELSE "late"

-----------------------------------------------------------------------------
(* The handlers, as the steps they take.                                   *)

Methods  == {"test_msg", "test_error", "test_redirect", "unknown", "hello_world",
             "test_sqltype", "test_sqlarray", "test_insert", "test_array_insert",
             "test_json", "test_json_insert", "user_login", "grab_prizes"}

TwoReads  == <<"lease", "count", "begin", "query", "query", "commit">>
Insert(s) == <<"lease", "count", "begin", "params", s, "commit">>

Steps ==
    [test_msg          |-> <<"message">>,
     test_redirect     |-> <<"redirect">>,
     test_error        |-> <<"error">>,
     unknown           |-> <<"error">>,
     hello_world       |-> <<"args", "lease", "count", "hello">>,
     test_sqltype      |-> TwoReads,
     test_sqlarray     |-> TwoReads,
     test_json         |-> <<"lease", "count", "begin", "query", "commit">>,
     test_insert       |-> Insert("execute"),
     test_array_insert |-> Insert("query"),
     test_json_insert  |-> Insert("query"),
     user_login        |-> <<"args", "lease", "count", "begin", "params", "query",
                             "login", "commit">>,
     grab_prizes       |-> <<"args", "parse", "lease", "count", "begin", "params",
                             "query", "renew", "commit">>]

Transactional == Methods \ {"test_msg", "test_error", "test_redirect", "unknown", "hello_world"}

\* test_users_login and grab_prizes_lock return one number, or raise an exception.
OneNumber == [status |-> "tuples", cols |-> 1, rows |-> <<<<Scalar>>>>]
Returns(m) == IF m \in {"user_login", "grab_prizes"} THEN {OneNumber} ELSE Results

-----------------------------------------------------------------------------
Init ==
    /\ now = 0 /\ method = "unknown" /\ at = 1 /\ phase = "answered"
    /\ sys = Closed(Error("value"))
    /\ leased = FALSE /\ session = "clean" /\ committed = FALSE /\ odd = FALSE
    /\ minted = NoToken /\ check = NoCheck /\ token = NoToken

Tick ==
    /\ now < MaxTime
    /\ now' = now + 1
    /\ UNCHANGED <<method, at, phase, sys, dbVars, odd, tokenVars>>

\* SE_soap_serve up to the handler. (grab_prizes brings the client's token.)
Receive(m) ==
    /\ phase = "answered"
    /\ method' = m /\ at' = 1 /\ phase' = "running" /\ sys' = Opening
    /\ committed' = FALSE /\ odd' = FALSE /\ minted' = NoToken /\ check' = NoCheck
    /\ UNCHANGED <<now, leased, session, token>>

\* A step is due, and succeeds: the handler goes on.
Step(name) ==
    /\ phase = "running" /\ at <= Len(Steps[method]) /\ Steps[method][at] = name
    /\ UNCHANGED <<now, method, token>>

GoesOn == at' = at + 1 /\ UNCHANGED phase

\* mutant: the answer is not started over
FailsBehind(text) == phase' = "failing" /\ sys' = sys \o text /\ UNCHANGED at

\* It fails: the answer starts over, and the handler goes to SE_ERROR_CLEAR.
FailsWith(text) == phase' = "failing" /\ sys' = text /\ UNCHANGED at

Reply ==
    /\ \E r \in {<<"message", Message>>, <<"error", Error("value")>>, <<"redirect", Redirect>>} :
          Step(r[1]) /\ sys' = r[2]
    /\ GoesOn
    /\ UNCHANGED <<dbVars, odd, minted, check>>

\* The name comes from the client, and is not escaped.
Greet ==
    /\ Step("hello") /\ GoesOn
    /\ \E msg \in {"value", "raw"} : sys' = sys \o Hello(msg) /\ odd' = (msg = "raw")
    /\ UNCHANGED <<dbVars, minted, check>>

\* A required argument is missing or of another type (SE_request_arg_isnotset),
\* a parameter cannot be added, or there is no memory for one of them.
Prepare ==
    /\ Step("args") \/ Step("params")
    /\ (GoesOn /\ UNCHANGED sys) \/ FailsWith(Error("value"))
    /\ UNCHANGED <<dbVars, odd, minted, check>>

\* A text that is no token at all is refused like one without its claims.
ParseToken ==
    /\ Step("parse")
    /\ check' = [verdict |-> Verdict(token), at |-> now, token |-> token]
    /\ CASE check'.verdict = "accepted" -> GoesOn /\ UNCHANGED sys
         [] check'.verdict = "late"     -> FailsWith(Redirect)
         [] OTHER                       -> FailsWith(Error("value"))
    /\ UNCHANGED <<dbVars, odd, minted>>

\* get_dbserver gives a connection, and may reset its session.
Lease ==
    /\ Step("lease") /\ GoesOn
    /\ leased' = TRUE
    /\ UNCHANGED <<sys, session, committed, odd, minted, check>>

Count ==
    /\ Step("count") /\ GoesOn
    /\ session' \in {session, "clean", "broken"}
    /\ UNCHANGED <<sys, leased, committed, odd, minted, check>>

\* SEPQ_begin
Begin ==
    /\ Step("begin")
    /\ \/ session = "clean" /\ session' = "open" /\ GoesOn /\ UNCHANGED sys
       \/ session' = "broken" /\ FailsWith(Error("lines"))
    /\ UNCHANGED <<leased, committed, odd, minted, check>>

\* A statement whose result goes into the answer.
Query ==
    /\ Step("query")
    /\ \E r \in Returns(method) :
         /\ sys' = AddRecordset(sys, r)
         /\ odd' = (odd \/ ~Plain(r))
    /\ GoesOn
    /\ UNCHANGED <<dbVars, minted, check>>

\* A statement of which only the success counts.
Execute ==
    /\ Step("execute") /\ GoesOn
    /\ UNCHANGED <<sys, dbVars, odd, minted, check>>

\* The server refuses a statement or the connection breaks; or there is no memory
\* to write its result, or the token.
StatementFails ==
    /\ \/ (Step("query") \/ Step("execute")) /\ FailsWith(Error("lines"))
          /\ session' \in {session, "broken"}
       \/ (Step("query") \/ Step("login") \/ Step("renew")) /\ FailsWith(Error("value"))
          /\ UNCHANGED session
    /\ UNCHANGED <<leased, committed, odd, minted, check>>

\* user_login calls SE_make_token with the time of day and no "last"; grab_prizes
\* with the expiry SE_parse_token has just put off, and its "last".
MintToken ==
    /\ \/ Step("login") /\ minted' = Make(now, NoClaim, now)
       \/ /\ Step("renew")
          /\ minted' = Make(check.at + Keep, check.token.last, check.token.login)
    /\ sys' = sys \o Token
    /\ GoesOn
    /\ UNCHANGED <<dbVars, odd, check>>

CommitUnchecked ==   \* mutant: the handler does not look at the result of SEPQ_commit
    /\ Step("commit")
    /\ \/ session = "open" /\ session' = "clean" /\ committed' = TRUE
       \/ session = "open" /\ session' = "clean" /\ committed' = FALSE
       \/ session' = "broken" /\ committed' \in BOOLEAN
    /\ GoesOn
    /\ UNCHANGED <<sys, leased, odd, minted, check>>

\* SEPQ_commit: done, refused by the server, or the connection breaks and nobody
\* knows which of the two.
Commit ==
    /\ Step("commit")
    /\ \/ /\ session = "open" /\ session' = "clean" /\ committed' = TRUE
          /\ GoesOn /\ UNCHANGED sys
       \/ session = "open" /\ session' = "clean" /\ committed' = FALSE /\ FailsWith(Error("lines"))
       \/ session' = "broken" /\ committed' \in BOOLEAN /\ FailsWith(Error("lines"))
    /\ UNCHANGED <<leased, odd, minted, check>>

CleanUpForgets ==   \* mutant: the handler returns without SEPQ_rollback
    /\ phase = "failing" /\ phase' = "over"
    /\ UNCHANGED <<now, method, at, sys, dbVars, odd, tokenVars>>

\* SE_ERROR_CLEAR. SEPQ_rollback returns at once when there is no connection; when
\* it fails, its error replaces the one before. hello_world has no transaction.
CleanUp ==
    /\ phase = "failing" /\ phase' = "over"
    /\ IF leased /\ method \in Transactional
       THEN \/ session' = (IF session = "broken" THEN "broken" ELSE "clean") /\ UNCHANGED sys
            \/ session' = "broken" /\ sys' = Error("lines")
       ELSE UNCHANGED <<sys, session>>
    /\ UNCHANGED <<now, method, at, leased, committed, odd, tokenVars>>

\* SE_soap_serve after the handler: the connection goes back, the answer is closed
\* and sent. The client keeps the new token, or the old one (the answer is lost).
Finish ==
    /\ phase = "over" \/ (phase = "running" /\ at > Len(Steps[method]))
    /\ phase' = "answered" /\ sys' = Closed(sys) /\ leased' = FALSE
    /\ token' \in {token} \cup {t \in {minted} : "token" \in Range(sys)}
    /\ UNCHANGED <<now, method, at, session, committed, odd, minted, check>>

Next ==
    \/ Tick \/ Reply \/ Greet \/ Prepare \/ ParseToken \/ Lease \/ Count \/ Begin \/ Query
    \/ Execute \/ StatementFails \/ MintToken \/ Commit \/ CleanUp \/ Finish
    \/ \E m \in Methods : Receive(m)

Spec == Init /\ [][Next]_vars

-----------------------------------------------------------------------------
(* Properties. *)

\* Every variable keeps its shape; the clock of a token never runs further ahead
\* than two times token_keep, or the eight hours.
TypeOK ==
    /\ now \in Times /\ method \in Methods /\ at \in 1 .. Len(Steps[method]) + 1
    /\ phase \in {"running", "failing", "over", "answered"}
    /\ sys \in Seq(Signs)
    /\ leased \in BOOLEAN /\ session \in {"clean", "open", "broken"}
    /\ committed \in BOOLEAN /\ odd \in BOOLEAN
    /\ minted \in Tokens \cup {NoToken} /\ token \in Tokens \cup {NoToken}
    /\ check.verdict \in {"none", "accepted", "late", "unusable"}
    /\ check.at \in Times /\ check.token \in Tokens \cup {NoToken}

Answered == phase = "answered"

\* Whatever fails, and however far the handler got, the answer is JSON, as long as
\* every result had rows and cells that can be written; but for the line end of a
\* message of libpq.
PlainAnswerIsJson == Answered /\ ~odd => IsJson(LinesAside(sys))

\* What the client reads was committed: it gets no record set and no token of a
\* transaction that was rolled back, although both are written before COMMIT.
NothingUncommittedIsTold ==
    Answered /\ method \in Transactional /\ {"recordset", "token"} \cap Range(sys) # {}
        => committed

\* The status tells what became of the transaction. 200 means it was committed;
\* and when it was committed the status is 200, unless the connection broke during
\* COMMIT, or a result could not be written and the error of that is in the answer.
StatusTellsOutcome ==
    Answered /\ method \in Transactional =>
        /\ sys[3] = "200" => committed
        /\ committed => sys[3] = "200" \/ session = "broken" \/ odd

\* A token is only accepted within token_keep of the moment it was made, and within
\* eight hours of the login it goes back to.
AcceptedInTime ==
    check.verdict = "accepted" =>
        /\ check.at <= check.token.issued + Keep
        /\ check.at <= check.token.login + Life

\* The handlers keep the promise every user of a connection makes.
Lending == INSTANCE ConnectionPool WITH
    Threads <- {"worker"}, Conns <- {"connection"},
    holders <- [c \in {"connection"} |-> IF leased THEN {"worker"} ELSE {}],
    session <- [c \in {"connection"} |-> session]
LendingSpec == Lending!Spec

\* An answer with record sets is JSON (doc/response.md:2), whatever the queries
\* found: one that found nothing has an empty record set (doc/response.md:52).
RecordsetIsJson == Answered /\ "recordset" \in Range(sys) => IsJson(sys)

\* A client that uses its token keeps it alive (core/se_utils.c:218): the token is
\* refused only when token_keep has passed since it was made, or eight hours since
\* the login (core/se_utils.c:219).
RefusedOnlyWhenLate ==
    check.verdict \in {"late", "unusable"} /\ check.token # NoToken =>
        \/ check.at > check.token.issued + Keep
        \/ check.at > check.token.login + Life
=============================================================================
