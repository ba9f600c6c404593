--------------------------- MODULE AccountsProofs ---------------------------
(***************************************************************************)
(* Proofs about Accounts for any tabs, browsers, names, passwords and      *)
(* lifetimes.  A token in a jar, or on its way to one, is backed by what   *)
(* its browser proved when it was issued; later proofs only extend that.   *)
(***************************************************************************)
EXTENDS Accounts, TLAPS

\* What is known of a user's last proof in a browser is one record.
OneProof == \A b \in Browsers : \A p, q \in proofs[b] : p.user = q.user => p = q

\* The browser proved whose token it is, and for at least as long.
Backed(token, b) == \E p \in proofs[b] : p.user = token.user /\ token.expires <= p.until

AllBacked ==
    /\ \A b \in Browsers : cookie[b] # NoToken => Backed(cookie[b], b)
    /\ \A t \in Tabs : request[t].at = "welcome" => Backed(request[t].token, BrowserOf[t])

IInv == AccountsStand /\ OneProof /\ AllBacked

USE DEF Ids, Credentials, Tokens, Waiting, Answers, Proofs, None, NoToken

\* The later of a time and those of at most one proof.
LEMMA Later ==
    ASSUME NEW n \in Nat, NEW K \in SUBSET Proofs, \A p, q \in K : p = q
    PROVE  LET m == Max({n} \cup {p.until : p \in K})
           IN  m \in Nat /\ m >= n /\ \A p \in K : m >= p.until
<1>1. CASE K = {}
  <2>1. {n} \cup {p.until : p \in K} = {n}
    BY <1>1
  <2>2. Max({n}) = n
    BY DEF Max
  <2> QED  BY <1>1, <2>1, <2>2
<1>2. ASSUME NEW k \in K PROVE LET m == Max({n} \cup {p.until : p \in K})
                               IN  m \in Nat /\ m >= n /\ \A p \in K : m >= p.until
  <2>1. {n} \cup {p.until : p \in K} = {n, k.until} /\ k.until \in Nat
    BY <1>2
  <2>2. \E m \in {n, k.until} : \A y \in {n, k.until} : m >= y
    <3>1. CASE n >= k.until
      BY <2>1, <3>1
    <3>2. CASE k.until >= n
      BY <2>1, <3>2
    <3> QED  BY <2>1, <3>1, <3>2
  <2>3. Max({n, k.until}) \in {n, k.until} /\ \A y \in {n, k.until} : Max({n, k.until}) >= y
    BY <2>2 DEF Max
  <2> QED  BY <1>2, <2>1, <2>3
<1> QED  BY <1>1, <1>2

\* Rows that are kept keep what was proved by them.
RowsKept ==
    /\ users' \in Seq(Credentials)
    /\ \A i \in Ids : i \in 1..Len(users') /\ users'[i] = users[i]
    /\ \A i, j \in 1..Len(users') : users'[i].name = users'[j].name => i = j

LEMMA AppendKeeps ==
    ASSUME AccountsStand, NEW form \in Credentials, Rows(form.name) = {}, users' = Append(users, form)
    PROVE  RowsKept /\ Len(users) + 1 \in 1..Len(users') /\ users'[Len(users) + 1] = form
<1>1. users \in Seq(Credentials) /\ Len(users) \in Nat
  BY DEF AccountsStand
<1>2. /\ users' \in Seq(Credentials) /\ Len(users') = Len(users) + 1
      /\ users'[Len(users) + 1] = form
      /\ \A i \in Ids : users'[i] = users[i]
  BY <1>1
<1>3. \A i \in Ids : users[i].name # form.name
  BY DEF Rows
<1>4. ASSUME NEW i \in 1..Len(users'), NEW j \in 1..Len(users'), users'[i].name = users'[j].name
      PROVE  i = j
  <2>1. CASE i \in Ids /\ j \in Ids
    BY <1>2, <1>4, <2>1 DEF AccountsStand
  <2>2. CASE i \notin Ids \/ j \notin Ids
    BY <1>1, <1>2, <1>3, <1>4, <2>2
  <2> QED  BY <2>1, <2>2
<1> QED  BY <1>1, <1>2, <1>4 DEF RowsKept

LEMMA Kept ==
    ASSUME AccountsStand
    PROVE  UNCHANGED users => RowsKept
  BY DEF AccountsStand, RowsKept

\* A waiting request has a form; an answer of success has a token.
LEMMA Requests ==
    ASSUME AccountsStand, NEW t \in Tabs
    PROVE  /\ BrowserOf[t] \in Browsers
           /\ request[t].at \in {"lookup", "insert", "check"} => request[t] \in Waiting
           /\ request[t].at = "welcome" => request[t].token \in Tokens
  BY TabAssumption DEF AccountsStand

\* Letting somebody in: the new proof backs the new token and all older ones.
LEMMA LetInStep ==
    ASSUME IInv, NEW t \in Tabs, request[t].at \in {"insert", "check"},
           NEW i \in 1..Len(users'), users'[i] = request[t].form, RowsKept,
           LetIn(t, i), UNCHANGED <<clock, cookie>>
    PROVE  IInv'
<1> DEFINE r     == request[t]
           b     == BrowserOf[t]
           until == clock + (IF r.remember THEN Remember ELSE Session)
           known == {p \in proofs[b] : p.user = i}
           last  == Max({until} \cup {p.until : p \in known})
           new   == [user |-> i, form |-> r.form, until |-> last]
           token == [user |-> i, expires |-> until, kept |-> r.remember]
<1>1. AccountsStand /\ OneProof /\ AllBacked
  BY DEF IInv
<1>2. r \in Waiting /\ b \in Browsers /\ until \in Nat /\ i \in Nat
  BY <1>1, Requests, DurationAssumption DEF AccountsStand, RowsKept
<1>3. known \in SUBSET Proofs /\ \A p, q \in known : p = q
  BY <1>1, <1>2 DEF AccountsStand, OneProof
<1>4. last \in Nat /\ last >= until /\ \A p \in known : last >= p.until
  <2> HIDE DEF until, known
  <2> QED  BY <1>2, <1>3, Later
<1>5. /\ proofs' = [proofs EXCEPT ![b] = (@ \ known) \cup {new}]
      /\ request' = [request EXCEPT ![t] = [at |-> "welcome", token |-> token]]
  BY DEF LetIn, Step
<1> HIDE DEF last, known, until
<1>6. new \in Proofs /\ token \in Tokens
  BY <1>2, <1>4
<1>7. /\ proofs'[b] = (proofs[b] \ known) \cup {new}
      /\ \A c \in Browsers \ {b} : proofs'[c] = proofs[c]
  BY <1>1, <1>2, <1>5 DEF AccountsStand
<1>8. /\ request'[t] = [at |-> "welcome", token |-> token]
      /\ \A u \in Tabs \ {t} : request'[u] = request[u]
  BY <1>1, <1>5 DEF AccountsStand
<1>9. AccountsStand'
  <2> HIDE DEF new, token
  <2>1. proofs' \in [Browsers -> SUBSET Proofs]
    BY <1>1, <1>2, <1>5, <1>6 DEF AccountsStand
  <2>2. request' \in [Tabs -> {None} \cup Waiting \cup Answers]
    BY <1>1, <1>5, <1>6 DEF AccountsStand
  <2>3. new.user = i /\ new.form = users'[i]
    BY <1>5 DEF new
  <2>4. ASSUME NEW c \in Browsers, NEW p \in proofs'[c]
        PROVE  p.user \in 1..Len(users') /\ users'[p.user] = p.form
    <3>1. CASE c = b /\ p = new
      BY <2>3, <3>1
    <3>2. CASE p \in proofs[c]
      BY <1>1, <2>4, <3>2 DEF AccountsStand, RowsKept
    <3> QED  BY <1>7, <2>4, <3>1, <3>2
  <2> QED  BY <1>1, <2>1, <2>2, <2>4 DEF AccountsStand, RowsKept
<1>10. OneProof'
  BY <1>1, <1>2, <1>7 DEF OneProof, known
<1>11. \A c \in Browsers, x \in Tokens : Backed(x, c) => Backed(x, c)'
  <2>1. ASSUME NEW x \in Tokens, NEW p \in proofs[b], p.user = x.user, x.expires <= p.until
        PROVE  \E q \in proofs'[b] : q.user = x.user /\ x.expires <= q.until
    <3>1. CASE p \in known
      <4>1. new.user = x.user
        BY <2>1, <3>1 DEF known
      <4>2. p.until \in Nat /\ x.expires \in Nat /\ p.until <= new.until
        BY <1>3, <1>4, <3>1
      <4>3. x.expires <= new.until
        BY <1>4, <2>1, <4>2
      <4> QED  BY <1>7, <4>1, <4>3
    <3>2. CASE p \notin known
      BY <1>7, <2>1, <3>2
    <3> QED  BY <3>1, <3>2
  <2> QED  BY <1>2, <1>7, <2>1 DEF Backed
<1>12. \E q \in proofs'[b] : q.user = token.user /\ token.expires <= q.until
  <2>1. new \in proofs'[b]
    BY <1>7
  <2>2. new.user = token.user /\ token.expires <= new.until
    BY <1>4
  <2> HIDE DEF new, token
  <2> QED  BY <2>1, <2>2
<1>13. AllBacked'
  <2>1. ASSUME NEW c \in Browsers, cookie'[c] # NoToken PROVE Backed(cookie[c], c)'
    BY <1>1, <1>11, <2>1 DEF AllBacked, AccountsStand
  <2>2. ASSUME NEW u \in Tabs \ {t}, request'[u].at = "welcome"
        PROVE  Backed(request[u].token, BrowserOf[u])'
    BY <1>1, <1>8, <1>11, <2>2, Requests DEF AllBacked
  <2>3. Backed(request[t].token, BrowserOf[t])'
    BY <1>8, <1>12 DEF Backed
  <2> QED  BY <2>1, <2>2, <2>3 DEF AllBacked
<1> QED  BY <1>9, <1>10, <1>13 DEF IInv

\* The steps of a request that leave rows, jars and proofs alone.
LEMMA QuietSteps ==
    ASSUME IInv, NEW t \in Tabs, NEW r \in {None} \cup Waiting \cup [at : {"goodbye"}], Step(t, r),
           UNCHANGED <<clock, cookie, proofs>>, RowsKept
    PROVE  IInv'
<1>1. AccountsStand /\ OneProof /\ AllBacked
  BY DEF IInv
<1>2. request'[t] = r /\ \A u \in Tabs \ {t} : request'[u] = request[u]
  BY <1>1 DEF AccountsStand, Step
<1>3. AccountsStand'
  BY <1>1 DEF AccountsStand, Step, RowsKept
<1>4. OneProof' /\ AllBacked'
  BY <1>1, <1>2 DEF OneProof, AllBacked, Backed
<1> QED  BY <1>3, <1>4 DEF IInv

\* Register and Login, and the ways in which they end without letting anybody in.
LEMMA FormSteps ==
    ASSUME IInv, NEW t \in Tabs,
           \/ \E form \in Credentials, at \in {"lookup", "check"}, x \in BOOLEAN : Send(t, at, form, x)
           \/ Lookup(t) \/ Insert(t) \/ InsertLost(t) \/ Check(t) \/ Logout(t) \/ Cut(t)
    PROVE  IInv'
<1>1. AccountsStand /\ (UNCHANGED users => RowsKept)
  BY Kept DEF IInv
<1>2. request[t].at \in {"lookup", "insert", "check"} => request[t] \in Waiting /\ request[t].form \in Credentials
  BY <1>1, Requests
<1>3. ASSUME NEW form \in Credentials, NEW at \in {"lookup", "check"}, NEW x \in BOOLEAN, Send(t, at, form, x)
      PROVE  IInv'
  BY <1>1, <1>3, QuietSteps DEF Send
<1>4. CASE Lookup(t)
  <2>1. [request[t] EXCEPT !.at = "insert"] \in Waiting
    BY <1>2, <1>4 DEF Lookup
  <2> QED  BY <1>1, <1>4, <2>1, QuietSteps DEF Lookup
<1>5. CASE Insert(t) /\ Rows(request[t].form.name) = {}
  <2>1. /\ request[t].at = "insert" /\ users' = Append(users, request[t].form)
        /\ LetIn(t, Len(users) + 1) /\ UNCHANGED <<clock, cookie>>
    BY <1>5 DEF Insert
  <2>2. /\ RowsKept /\ Len(users) + 1 \in 1..Len(users')
        /\ users'[Len(users) + 1] = request[t].form
    BY <1>1, <1>2, <1>5, <2>1, AppendKeeps
  <2> QED  BY <2>1, <2>2, LetInStep
<1>6. CASE Insert(t) /\ Rows(request[t].form.name) # {}
  BY <1>1, <1>6, QuietSteps DEF Insert
<1>7. CASE InsertLost(t)
  BY <1>1, <1>2, <1>7, AppendKeeps, QuietSteps DEF InsertLost
<1>8. CASE Check(t)
  <2>1. CASE \E j \in Rows(request[t].form.name) : users[j] = request[t].form /\ LetIn(t, j)
    <3>1. PICK j \in Rows(request[t].form.name) : users[j] = request[t].form /\ LetIn(t, j)
      BY <2>1
    <3>2. j \in 1..Len(users') /\ users'[j] = request[t].form /\ request[t].at = "check"
      BY <1>8, <3>1 DEF Check, Rows
    <3> QED  BY <1>1, <1>8, <3>1, <3>2, LetInStep DEF Check
  <2>2. CASE Step(t, None) /\ UNCHANGED proofs
    BY <1>1, <1>8, <2>2, QuietSteps DEF Check
  <2> QED  BY <1>8, <2>1, <2>2 DEF Check
<1>9. CASE Logout(t) \/ Cut(t)
  BY <1>1, <1>9, QuietSteps DEF Logout, Cut
<1> QED  BY <1>3, <1>4, <1>5, <1>6, <1>7, <1>8, <1>9

\* Jars change with answers, with time and with browsers, and only ever to what
\* an answer brought.
LEMMA JarSteps ==
    ASSUME IInv, (\E t \in Tabs : Arrive(t)) \/ Tick \/ \E b \in Browsers : Close(b)
    PROVE  IInv'
<1>1. AccountsStand /\ OneProof /\ AllBacked
  BY DEF IInv
<1>2. ASSUME NEW t \in Tabs, Arrive(t) PROVE IInv'
  <2> USE <1>2 DEF Arrive, Step
  <2>1. BrowserOf[t] \in Browsers /\ (request[t].at = "welcome" => request[t].token \in Tokens)
    BY <1>1, Requests
  <2>2. /\ cookie'[BrowserOf[t]] = IF request[t].at = "welcome" THEN request[t].token ELSE NoToken
        /\ \A b \in Browsers \ {BrowserOf[t]} : cookie'[b] = cookie[b]
        /\ request'[t] = None /\ \A u \in Tabs \ {t} : request'[u] = request[u]
    BY <1>1, <2>1 DEF AccountsStand
  <2>3. AccountsStand'
    BY <1>1, <2>1 DEF AccountsStand
  <2>4. OneProof' /\ AllBacked'
    BY <1>1, <2>1, <2>2 DEF OneProof, AllBacked, Backed
  <2> QED  BY <2>3, <2>4 DEF IInv
<1>3. CASE Tick
  <2> USE <1>3 DEF Tick
  <2>1. \A b \in Browsers : cookie'[b] \in {cookie[b], NoToken}
    OBVIOUS
  <2>2. clock' \in 0..MaxTime
    BY <1>1, DurationAssumption DEF AccountsStand
  <2>3. AccountsStand'
    BY <1>1, <2>1, <2>2 DEF AccountsStand
  <2>4. OneProof' /\ AllBacked'
    BY <1>1, <2>1 DEF OneProof, AllBacked, Backed
  <2> QED  BY <2>3, <2>4 DEF IInv
<1>4. ASSUME NEW b \in Browsers, Close(b) PROVE IInv'
  <2> USE <1>4 DEF Close
  <2>1. \A c \in Browsers : cookie'[c] \in {cookie[c], NoToken}
    BY <1>1 DEF AccountsStand
  <2>2. \A t \in Tabs : request'[t] \in {request[t], None}
    OBVIOUS
  <2>3. AccountsStand'
    BY <1>1, <2>1, <2>2 DEF AccountsStand
  <2>4. OneProof' /\ AllBacked'
    BY <1>1, <2>1, <2>2 DEF OneProof, AllBacked, Backed
  <2> QED  BY <2>3, <2>4 DEF IInv
<1> QED  BY <1>2, <1>3, <1>4

\* The inductive invariant of accounts and sessions.
THEOREM Invariance == Spec => []IInv
<1>1. Init => IInv
  <2>1. SUFFICES ASSUME Init PROVE IInv
    OBVIOUS
  <2>2. users \in Seq(Credentials) /\ Len(users) = 0
    BY <2>1 DEF Init
  <2>3. AccountsStand
    BY <2>1, <2>2, DurationAssumption DEF Init, AccountsStand
  <2>4. OneProof /\ AllBacked
    BY <2>1 DEF Init, OneProof, AllBacked
  <2> QED  BY <2>3, <2>4 DEF IInv
<1>2. IInv /\ [Next]_vars => IInv'
  <2>1. SUFFICES ASSUME IInv, [Next]_vars PROVE IInv'
    OBVIOUS
  <2>2. CASE UNCHANGED vars
    BY <2>1, <2>2 DEF vars, IInv, AccountsStand, OneProof, AllBacked, Backed
  <2>3. CASE \E t \in Tabs : Arrive(t)
    BY <2>1, <2>3, JarSteps
  <2>4. CASE Tick \/ \E b \in Browsers : Close(b)
    BY <2>1, <2>4, JarSteps
  <2>5. ASSUME NEW t \in Tabs,
               \/ \E form \in Credentials : \/ Send(t, "lookup", form, FALSE)
                                            \/ \E x \in BOOLEAN : Send(t, "check", form, x)
               \/ Lookup(t) \/ Insert(t) \/ InsertLost(t) \/ Check(t) \/ Logout(t) \/ Cut(t)
        PROVE  IInv'
    BY <2>1, <2>5, FormSteps
  <2> QED  BY <2>1, <2>2, <2>3, <2>4, <2>5 DEF Next
<1> QED  BY <1>1, <1>2, PTL DEF Spec

\* A name has one account, which stays its first registrant's: whoever was let in
\* with a name and a password is the owner of exactly that row (Register against
\* the unique key of Users).
THEOREM AccountsStay == Spec => []AccountsStand
<1>1. IInv => AccountsStand
  BY DEF IInv
<1> QED  BY Invariance, <1>1, PTL

\* No session is served beyond what a password given in that browser allowed
\* (GenerateTokenWithDuration, ValidateToken).
THEOREM SessionsEnd == Spec => []WithinLifetime
<1>1. IInv => WithinLifetime
  <2>1. SUFFICES ASSUME IInv, NEW b \in Browsers, ServedAs(b) # Guest
                 PROVE  \E p \in proofs[b] : p.user = ServedAs(b) /\ clock < p.until
    BY DEF WithinLifetime
  <2>2. cookie[b] # NoToken /\ clock < cookie[b].expires /\ ServedAs(b) = cookie[b].user
    BY <2>1 DEF ServedAs, Valid
  <2>3. PICK p \in proofs[b] : p.user = cookie[b].user /\ cookie[b].expires <= p.until
    BY <2>1, <2>2 DEF IInv, AllBacked, Backed
  <2>4. clock \in Nat /\ cookie[b].expires \in Nat /\ p.until \in Nat
    BY <2>1, <2>2, DurationAssumption DEF IInv, AccountsStand
  <2> QED  BY <2>2, <2>3, <2>4
<1> QED  BY Invariance, <1>1, PTL
=============================================================================
