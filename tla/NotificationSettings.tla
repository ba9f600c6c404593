------------------------ MODULE NotificationSettings ------------------------
(***************************************************************************)
(* internal/notifications/service.go: one user's row of                    *)
(* Notification_Settings and the requests and workers that use it.  Users  *)
(* do not interact.  A row that does not exist is an empty one.            *)
(*                                                                         *)
(* Each method runs in transactions on that one row: SELECT ... FOR UPDATE *)
(* and every UPDATE wait while another transaction holds the row, which    *)
(* Notify and Test do for as long as a mail takes.  Any call may fail      *)
(* without effect (a stutter); a COMMIT may succeed without an answer.     *)
(***************************************************************************)
EXTENDS Integers, Sequences

CONSTANTS
    Emails,     \* addresses normalizeEmail accepts
    NoEmail,    \* the empty address
    Cooldown,   \* a minute
    Lifetime,   \* half an hour
    MaxTime,    \* bound on the clock
    MaxTokens,  \* bound on verification requests
    MaxChanges  \* bound on changes of address

ASSUME EmailAssumption == NoEmail \notin Emails
ASSUME TimeAssumption  == Cooldown \in Nat \ {0} /\ Lifetime \in Nat \ {0} /\ MaxTime \in Nat
ASSUME BoundAssumption == MaxTokens \in Nat /\ MaxChanges \in Nat

VARIABLES
    email,      \* row: Email
    enabled,    \* row: Notify_Completed and Notify_Failed, the kinds switched on
    verified,   \* row: Verified_At is set
    hash,       \* row: Verification_Hash, the token it belongs to or NoToken
    expires,    \* row: Verification_Expires_At
    lastVerification, \* row: Last_Verification_At
    lastTest,   \* row: Last_Test_At
    sending,    \* the mail being sent by the transaction that holds the row
    tests,      \* addresses of Test calls between their two transactions
    inflight,   \* verification mails on their way, by token
    received,   \* tokens that reached the address they were mailed to
    presented,  \* the token and the time of a Verify call before its UPDATE
    now,        \* the clock
    tokens,     \* history: number of tokens made; a token is its number
    addressed,  \* history: the address and the change it was valid for, by token
    changes,    \* history: number of changes of address
    used,       \* history: the tokens that verified, in order
    issuedAt,   \* history: when a verification mail was last allowed
    testedAt    \* history: when a test mail was last allowed

row     == <<email, enabled, verified, hash, expires, lastVerification, lastTest>>
calls   == <<sending, tests, inflight, presented>>
history == <<tokens, addressed, changes, used, issuedAt, testedAt>>
vars    == <<row, calls, received, now, history>>

Kinds   == {"completed", "failed"}
NoToken == 0
NoMail  == [kind |-> "none", to |-> NoEmail]
NoCall  == [token |-> NoToken, at |-> 0]
Never   == 0 - Cooldown
Times   == 0..MaxTime
Tokens  == 1..MaxTokens
Addresses == Emails \cup {NoEmail}

TypeOK ==
    /\ email \in Addresses
    /\ enabled \subseteq Kinds
    /\ verified \in BOOLEAN
    /\ hash \in Tokens \cup {NoToken}
    /\ expires \in Nat
    /\ lastVerification \in Times \cup {Never}
    /\ lastTest \in Times \cup {Never}
    /\ sending \in [kind : Kinds \cup {"test"}, to : Emails] \cup {NoMail}
    /\ tests \subseteq Emails
    /\ inflight \subseteq Tokens
    /\ received \subseteq Tokens
    /\ presented \in [token : Tokens, at : Times] \cup {NoCall}
    /\ now \in Times
    /\ tokens \in 0..MaxTokens
    /\ addressed \in [Tokens -> [to : Addresses, change : 0..MaxChanges]]
    /\ changes \in 0..MaxChanges
    /\ used \in Seq(Tokens)
    /\ issuedAt \in Times \cup {Never}
    /\ testedAt \in Times \cup {Never}

Init ==
    /\ email = NoEmail
    /\ enabled = {}
    /\ verified = FALSE
    /\ hash = NoToken
    /\ expires = 0
    /\ lastVerification = Never
    /\ lastTest = Never
    /\ sending = NoMail
    /\ tests = {}
    /\ inflight = {}
    /\ received = {}
    /\ presented = NoCall
    /\ now = 0
    /\ tokens = 0
    /\ addressed = [t \in Tokens |-> [to |-> NoEmail, change |-> 0]]
    /\ changes = 0
    /\ used = <<>>
    /\ issuedAt = Never
    /\ testedAt = Never

RowFree == sending = NoMail

-----------------------------------------------------------------------------

\* Mutant: the link survives a change of address.
SaveKeepsLink(e, kinds) ==
    /\ RowFree
    /\ email' = e
    /\ enabled' = kinds
    /\ IF e = email
       THEN UNCHANGED <<verified, changes>>
       ELSE verified' = FALSE /\ changes < MaxChanges /\ changes' = changes + 1
    /\ UNCHANGED <<hash, expires, lastVerification, lastTest, calls, received, now,
                   tokens, addressed, used, issuedAt, testedAt>>

\* Mutant: a change of address clears the whole row.
SaveClearsTimes(e, kinds) ==
    /\ RowFree
    /\ e # email /\ changes < MaxChanges
    /\ email' = e
    /\ enabled' = kinds
    /\ verified' = FALSE
    /\ hash' = NoToken
    /\ expires' = 0
    /\ lastVerification' = Never
    /\ lastTest' = Never
    /\ changes' = changes + 1
    /\ UNCHANGED <<calls, received, now, tokens, addressed, used, issuedAt, testedAt>>

\* One upsert.  Another address loses the verification and the link, and keeps
\* the times of the last mails.
Save(e, kinds) ==
    /\ RowFree
    /\ email' = e
    /\ enabled' = kinds
    /\ IF e = email
       THEN UNCHANGED <<verified, hash, expires, changes>>
       ELSE /\ changes < MaxChanges
            /\ verified' = FALSE
            /\ hash' = NoToken
            /\ expires' = 0
            /\ changes' = changes + 1
    /\ UNCHANGED <<lastVerification, lastTest, calls, received, now,
                   tokens, addressed, used, issuedAt, testedAt>>

\* The row is read and written in one transaction; the mail follows its commit
\* and carries the address that was read.
RequestVerification ==
    /\ RowFree
    /\ email # NoEmail
    /\ now - lastVerification >= Cooldown
    /\ tokens < MaxTokens
    /\ tokens' = tokens + 1
    /\ hash' = tokens'
    /\ expires' = now + Lifetime
    /\ lastVerification' = now
    /\ addressed' = [addressed EXCEPT ![tokens'] = [to |-> email, change |-> changes]]
    /\ issuedAt' = now
    /\ inflight' \in {inflight, inflight \cup {tokens'}}
    /\ UNCHANGED <<email, enabled, verified, lastTest, sending, tests, presented, received, now,
                   changes, used, testedAt>>

\* The mail service delivers, early or late, or never.
Arrive(t) ==
    /\ t \in inflight
    /\ inflight' = inflight \ {t}
    /\ received' = received \cup {t}
    /\ UNCHANGED <<row, sending, tests, presented, now, history>>

\* Verify computes the time before its UPDATE waits for the row.  Only one call
\* is followed at a time.
Present(t) ==
    /\ presented = NoCall
    /\ t \in received
    /\ presented' = [token |-> t, at |-> now]
    /\ UNCHANGED <<row, sending, tests, inflight, received, now, history>>

Confirmable == hash = presented.token /\ expires > presented.at /\ email # NoEmail

\* Mutant: the UPDATE leaves the link in the row.
VerifyKeepsLink ==
    /\ RowFree
    /\ presented # NoCall
    /\ presented' = NoCall
    /\ IF Confirmable
       THEN verified' = TRUE /\ used' = Append(used, presented.token)
       ELSE UNCHANGED <<verified, used>>
    /\ UNCHANGED <<email, enabled, hash, expires, lastVerification, lastTest, sending, tests, inflight,
                   received, now, tokens, addressed, changes, issuedAt, testedAt>>

Verify ==
    /\ RowFree
    /\ presented # NoCall
    /\ presented' = NoCall
    /\ IF Confirmable
       THEN /\ verified' = TRUE
            /\ hash' = NoToken
            /\ expires' = 0
            /\ used' = Append(used, presented.token)
       ELSE UNCHANGED <<verified, hash, expires, used>>
    /\ UNCHANGED <<email, enabled, lastVerification, lastTest, sending, tests, inflight, received, now,
                   tokens, addressed, changes, issuedAt, testedAt>>

\* Test's first transaction takes the cooldown.
TestReserve ==
    /\ RowFree
    /\ verified /\ email # NoEmail
    /\ now - lastTest >= Cooldown
    /\ lastTest' = now
    /\ testedAt' = now
    /\ tests' \in {tests, tests \cup {email}}
    /\ UNCHANGED <<email, enabled, verified, hash, expires, lastVerification, sending, inflight,
                   presented, received, now, tokens, addressed, changes, used, issuedAt>>

\* Mutant: the row is not read again.
TestSendUnchecked(e) ==
    /\ RowFree
    /\ e \in tests
    /\ tests' = tests \ {e}
    /\ sending' = [kind |-> "test", to |-> e]
    /\ UNCHANGED <<row, inflight, presented, received, now, history>>

\* Its second one reads the row again and holds it while the mail is sent.
TestSend(e) ==
    /\ RowFree
    /\ e \in tests
    /\ tests' = tests \ {e}
    /\ sending' = IF verified /\ email = e THEN [kind |-> "test", to |-> e] ELSE NoMail
    /\ UNCHANGED <<row, inflight, presented, received, now, history>>

\* Notify: a worker's mail about a finished job.
Notify(kind) ==
    /\ RowFree
    /\ verified /\ email # NoEmail
    /\ kind \in enabled
    /\ sending' = [kind |-> kind, to |-> email]
    /\ UNCHANGED <<row, tests, inflight, presented, received, now, history>>

\* sendMail returns, with or without an error, and the transaction ends.
Sent ==
    /\ sending # NoMail
    /\ sending' = NoMail
    /\ UNCHANGED <<row, tests, inflight, presented, received, now, history>>

\* The process dies: MySQL rolls its transactions back; mails handed over may
\* still arrive.
Crash ==
    /\ sending' = NoMail
    /\ tests' = {}
    /\ inflight' \in SUBSET inflight
    /\ presented' = NoCall
    /\ UNCHANGED <<row, received, now, history>>

Tick ==
    /\ now < MaxTime
    /\ now' = now + 1
    /\ UNCHANGED <<row, calls, received, history>>

Next ==
    \/ \E e \in Addresses, kinds \in SUBSET Kinds : Save(e, kinds)
    \/ RequestVerification
    \/ \E t \in Tokens : Arrive(t) \/ Present(t)
    \/ Verify
    \/ TestReserve
    \/ \E e \in Emails : TestSend(e)
    \/ \E kind \in Kinds : Notify(kind)
    \/ Sent
    \/ Crash
    \/ Tick

Spec == Init /\ [][Next]_vars

-----------------------------------------------------------------------------
(* Properties *)

LastUsed == used[Len(used)]

\* A verified address has proved itself: a link made for this very address,
\* since it was last entered, arrived there and was presented.  A link in
\* flight while the address changes, and changes back, proves nothing.
VerifiedIsProven ==
    verified => /\ used # <<>>
                /\ LastUsed \in received
                /\ addressed[LastUsed] = [to |-> email, change |-> changes]

\* At every moment of a delivery, the address it goes to is the verified one
\* and the owner wants that kind of mail (Test: "a concurrent email change
\* cannot receive an unverified test").
OnlyToVerified ==
    sending # NoMail =>
        /\ verified /\ email = sending.to
        /\ sending.kind \in enabled \cup {"test"}

\* Two verification mails, and two tests, are a cooldown apart, whatever
\* addresses were entered between them (Save: "edits cannot bypass limits").
RateLimited ==
    [][/\ tokens' # tokens => now - issuedAt >= Cooldown
       /\ lastTest' # lastTest => now - testedAt >= Cooldown]_vars

\* A link works once, and no longer once a newer one worked.
LinkSingleUse == \A i, k \in DOMAIN used : i < k => used[i] < used[k]

-----------------------------------------------------------------------------
(* Why they hold: the row's link is the newest one and belongs to the row's
   address; the row's times are the true ones. *)

LinkIsCurrent ==
    hash # NoToken =>
        /\ hash = tokens
        /\ \A i \in DOMAIN used : used[i] < hash
        /\ addressed[hash] = [to |-> email, change |-> changes]

Made ==
    /\ inflight \subseteq 1..tokens
    /\ received \subseteq 1..tokens
    /\ \A i \in DOMAIN used : used[i] \in 1..tokens
    /\ presented # NoCall => presented.token \in received

CooldownsKept == lastVerification = issuedAt /\ lastTest = testedAt

IInv ==
    /\ TypeOK /\ VerifiedIsProven /\ OnlyToVerified /\ LinkSingleUse
    /\ LinkIsCurrent /\ Made /\ CooldownsKept
=============================================================================
