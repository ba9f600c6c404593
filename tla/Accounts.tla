------------------------------ MODULE Accounts ------------------------------
(***************************************************************************)
(* Accounts and sessions: handlers/auth.go, auth/auth.go, the table Users. *)
(* A session is a signed token in a cookie that the tabs of a browser      *)
(* share; the server keeps nothing of it.  Register looks a name up and    *)
(* inserts it later, so that requests of several tabs interleave, answers  *)
(* are lost and arrive late, and the process dies in between.              *)
(***************************************************************************)
EXTENDS Integers, Sequences, FiniteSetsExt

CONSTANTS
    Tabs, Browsers,
    BrowserOf,      \* the browser of each tab
    Names, Passwords,
    Guest,          \* no user in the context of a request
    Session,        \* SessionTokenDuration
    Remember,       \* RememberTokenDuration
    MaxTime         \* bound: how long the clock runs

ASSUME TabAssumption == BrowserOf \in [Tabs -> Browsers]
ASSUME GuestAssumption == Guest \notin Nat
ASSUME DurationAssumption ==
    Session \in Nat \ {0} /\ Remember \in Nat /\ Session <= Remember /\ MaxTime \in Nat

VARIABLES
    users,      \* the rows of Users, in the order of their INSERTs: [name, password]
    clock,
    request,    \* what each tab waits for
    cookie,     \* the token of each browser
    proofs      \* history: what each browser was let in for, and how long

vars == <<users, clock, request, cookie, proofs>>

Ids     == 1..Len(users)
None    == [at |-> "none"]
NoToken == [user |-> Guest]

Credentials == [name : Names, password : Passwords]
Tokens      == [user : Nat, expires : Nat, kept : BOOLEAN]

Waiting == [at : {"lookup", "insert", "check"}, form : Credentials, remember : BOOLEAN]
Answers == [at : {"welcome"}, token : Tokens] \cup [at : {"goodbye"}]

Proofs == [user : Nat, form : Credentials, until : Nat]

Init ==
    /\ users = <<>> /\ clock = 0
    /\ request = [t \in Tabs |-> None]
    /\ cookie = [b \in Browsers |-> NoToken]
    /\ proofs = [b \in Browsers |-> {}]

Step(t, r) == request' = [request EXCEPT ![t] = r]

\* GetUserByUsername.
Rows(name) == {i \in Ids : users[i].name = name}

-----------------------------------------------------------------------------
(* Register, Login, Logout *)

\* A form that is filled in.
Send(t, at, form, remember) ==
    /\ request[t] = None
    /\ Step(t, [at |-> at, form |-> form, remember |-> remember])
    /\ UNCHANGED <<users, clock, cookie, proofs>>

Lookup(t) ==
    /\ request[t].at = "lookup"
    /\ Step(t, IF Rows(request[t].form.name) # {} THEN None
               ELSE [request[t] EXCEPT !.at = "insert"])
    /\ UNCHANGED <<users, clock, cookie, proofs>>

\* setAuthCookie, for the row i of the table; the answer carries the token.
LetIn(t, i) ==
    LET r     == request[t]
        b     == BrowserOf[t]
        until == clock + (IF r.remember THEN Remember ELSE Session)
        known == {p \in proofs[b] : p.user = i}
    IN  /\ Step(t, [at |-> "welcome", token |-> [user |-> i, expires |-> until, kept |-> r.remember]])
        /\ proofs' = [proofs EXCEPT ![b] = (@ \ known) \cup
                {[user |-> i, form |-> r.form, until |-> Max({until} \cup {p.until : p \in known})]}]

\* Mutant: INSERT ... ON DUPLICATE KEY UPDATE Password_Hash.
Upsert(t) ==
    LET form == request[t].form IN
    /\ request[t].at = "insert"
    /\ IF Rows(form.name) = {} THEN users' = Append(users, form) /\ LetIn(t, Len(users) + 1)
       ELSE \E i \in Rows(form.name) : users' = [users EXCEPT ![i] = form] /\ LetIn(t, i)
    /\ UNCHANGED <<clock, cookie>>

\* CreateUser, after HashPassword: the name may have been taken meanwhile.
Insert(t) ==
    LET form == request[t].form IN
    /\ request[t].at = "insert"
    /\ IF Rows(form.name) = {} THEN users' = Append(users, form) /\ LetIn(t, Len(users) + 1)
       ELSE Step(t, None) /\ UNCHANGED <<users, proofs>>
    /\ UNCHANGED <<clock, cookie>>

\* The row is there and the answer of the database is not.
InsertLost(t) ==
    LET form == request[t].form IN
    /\ request[t].at = "insert" /\ Rows(form.name) = {}
    /\ users' = Append(users, form)
    /\ Step(t, None)
    /\ UNCHANGED <<clock, cookie, proofs>>

\* Login, CheckPasswordHash.
Check(t) ==
    LET fits == {i \in Rows(request[t].form.name) : users[i] = request[t].form} IN
    /\ request[t].at = "check"
    /\ IF fits # {} THEN \E i \in fits : LetIn(t, i)
       ELSE Step(t, None) /\ UNCHANGED proofs
    /\ UNCHANGED <<users, clock, cookie>>

Logout(t) ==
    /\ request[t] = None
    /\ Step(t, [at |-> "goodbye"])
    /\ UNCHANGED <<users, clock, cookie, proofs>>

\* The answer arrives; what the browser has in its jar is replaced.
Arrive(t) ==
    /\ request[t].at \in {"welcome", "goodbye"}
    /\ cookie' = [cookie EXCEPT ![BrowserOf[t]] =
                    IF request[t].at = "welcome" THEN request[t].token ELSE NoToken]
    /\ Step(t, None)
    /\ UNCHANGED <<users, clock, proofs>>

\* A query fails, the tab is closed or the process dies: no answer.
Cut(t) ==
    /\ request[t] # None
    /\ Step(t, None)
    /\ UNCHANGED <<users, clock, cookie, proofs>>

-----------------------------------------------------------------------------
(* AuthMiddleware *)

\* Mutant: the expiry is not required.
AnyToken(token) == token # NoToken

\* ValidateToken.
Valid(token) == token # NoToken /\ clock < token.expires

\* Whom a request of the browser is served as.
ServedAs(b) == IF Valid(cookie[b]) THEN cookie[b].user ELSE Guest

\* Time passes; the jar forgets a cookie whose Expires has passed.
Tick ==
    /\ clock < MaxTime /\ clock' = clock + 1
    /\ cookie' = [b \in Browsers |->
                    IF cookie[b] # NoToken /\ cookie[b].kept /\ cookie[b].expires <= clock'
                    THEN NoToken ELSE cookie[b]]
    /\ UNCHANGED <<users, request, proofs>>

\* The browser is closed, its tabs with it: a cookie without Expires is gone.
Close(b) ==
    /\ request' = [t \in Tabs |-> IF BrowserOf[t] = b THEN None ELSE request[t]]
    /\ cookie' = [cookie EXCEPT ![b] = IF @ # NoToken /\ @.kept THEN @ ELSE NoToken]
    /\ UNCHANGED <<users, clock, proofs>>

Next ==
    \/ \E t \in Tabs :
        \/ \E form \in Credentials : \/ Send(t, "lookup", form, FALSE)
                                     \/ \E r \in BOOLEAN : Send(t, "check", form, r)
        \/ Lookup(t) \/ Insert(t) \/ InsertLost(t) \/ Check(t) \/ Logout(t)
        \/ Arrive(t) \/ Cut(t)
    \/ Tick \/ \E b \in Browsers : Close(b)

Spec == Init /\ [][Next]_vars

-----------------------------------------------------------------------------
(* Properties *)

\* The type invariant, and: a name has one account, however many registered it
\* at once, and whoever was let in for a name and a password would be again, as
\* the same account: a registration that reported success is never another one's.
AccountsStand ==
    /\ users \in Seq(Credentials) /\ clock \in 0..MaxTime
    /\ request \in [Tabs -> {None} \cup Waiting \cup Answers]
    /\ cookie \in [Browsers -> {NoToken} \cup Tokens]
    /\ proofs \in [Browsers -> SUBSET Proofs]
    /\ \A i, j \in Ids : users[i].name = users[j].name => i = j
    /\ \A b \in Browsers : \A p \in proofs[b] : p.user \in Ids /\ users[p.user] = p.form

\* A browser is served as a user only for a password it gave for that account
\* itself, within the lifetime that came with it, whatever it did since
\* (auth.go: "Validating a token never extends its expiry").
WithinLifetime == \A b \in Browsers : ServedAs(b) # Guest =>
    \E p \in proofs[b] : p.user = ServedAs(b) /\ clock < p.until
=============================================================================
