------------------------- MODULE NotificationProofs -------------------------
(***************************************************************************)
(* Proofs about NotificationSettings for every set of addresses, cooldown, *)
(* lifetime and bound.  One step per action; under it the conjuncts of     *)
(* IInv that the action can disturb.                                       *)
(***************************************************************************)
EXTENDS NotificationSettings, SequenceTheorems, TLAPS

USE DEF Tokens, Times, Kinds, Addresses, NoToken, Never

\* The empty row satisfies the invariant.
LEMMA InitIInv == Init => IInv
<1>1. SUFFICES ASSUME Init PROVE IInv
  OBVIOUS
<1>2. TypeOK
  <2>1. used \in Seq(Tokens)
    BY <1>1, EmptySeq DEF Init
  <2>2. addressed \in [Tokens -> [to : Addresses, change : 0..MaxChanges]]
    BY <1>1, BoundAssumption DEF Init
  <2>3. /\ now \in Times /\ tokens \in 0..MaxTokens /\ changes \in 0..MaxChanges
        /\ expires \in Nat
    BY <1>1, TimeAssumption, BoundAssumption DEF Init
  <2>4. /\ sending \in [kind : Kinds \cup {"test"}, to : Emails] \cup {NoMail}
        /\ presented \in [token : Tokens, at : Times] \cup {NoCall}
    BY <1>1 DEF Init
  <2> QED  BY <1>1, <2>1, <2>2, <2>3, <2>4 DEF Init, TypeOK
<1>3. VerifiedIsProven /\ OnlyToVerified /\ LinkSingleUse /\ LinkIsCurrent /\ Made /\ CooldownsKept
  BY <1>1 DEF Init, VerifiedIsProven, OnlyToVerified, LinkSingleUse, LinkIsCurrent, Made, CooldownsKept
<1> QED  BY <1>2, <1>3 DEF IInv

\* Save: verification and link survive only with the address they belong to.
LEMMA SaveStep ==
    ASSUME IInv, NEW e \in Addresses, NEW kinds \in SUBSET Kinds, Save(e, kinds)
    PROVE  IInv'
<1> USE DEF Save, row, calls, history
<1>1. TypeOK /\ VerifiedIsProven /\ OnlyToVerified /\ LinkSingleUse /\ LinkIsCurrent /\ Made /\ CooldownsKept
  BY DEF IInv
<1>2. TypeOK'
  <2>1. /\ verified' \in BOOLEAN /\ hash' \in Tokens \cup {NoToken}
        /\ expires' \in Nat /\ changes' \in 0..MaxChanges
    <3>1. CASE e = email
      BY <1>1, <3>1 DEF TypeOK
    <3>2. CASE e # email
      <4>1. verified' = FALSE /\ hash' = NoToken /\ expires' = 0
        BY <3>2
      <4>2. changes < MaxChanges /\ changes' = changes + 1
        BY <3>2
      <4>3. changes' \in 0..MaxChanges
        BY <1>1, <4>2, BoundAssumption DEF TypeOK
      <4> QED  BY <4>1, <4>3
    <3> QED  BY <3>1, <3>2
  <2> QED  BY <1>1, <2>1 DEF TypeOK
<1>3. VerifiedIsProven' /\ LinkIsCurrent'
  <2>1. CASE e = email
    BY <1>1, <2>1 DEF VerifiedIsProven, LinkIsCurrent, LastUsed
  <2>2. CASE e # email
    BY <2>2 DEF VerifiedIsProven, LinkIsCurrent
  <2> QED  BY <2>1, <2>2
<1>4. OnlyToVerified' /\ LinkSingleUse' /\ Made' /\ CooldownsKept'
  BY <1>1 DEF RowFree, OnlyToVerified, LinkSingleUse, Made, CooldownsKept
<1> QED  BY <1>2, <1>3, <1>4 DEF IInv

\* RequestVerification: the new link is newer than every one that was used.
LEMMA RequestStep ==
    ASSUME IInv, RequestVerification
    PROVE  IInv'
<1> USE DEF RequestVerification
<1>1. TypeOK /\ VerifiedIsProven /\ OnlyToVerified /\ LinkSingleUse /\ LinkIsCurrent /\ Made /\ CooldownsKept
  BY DEF IInv
<1>2. tokens' = tokens + 1 /\ tokens' \in Tokens /\ tokens \in Nat
  BY <1>1, BoundAssumption DEF TypeOK
<1>3. TypeOK'
  <2>1. /\ email' \in Addresses /\ expires' \in Nat /\ hash' \in Tokens
        /\ lastVerification' \in Times /\ issuedAt' \in Times
        /\ tokens' \in 0..MaxTokens
    BY <1>1, <1>2, TimeAssumption, BoundAssumption DEF TypeOK
  <2>2. addressed' \in [Tokens -> [to : Addresses, change : 0..MaxChanges]]
    BY <1>1, <1>2 DEF TypeOK
  <2>3. inflight' \subseteq Tokens
    BY <1>1, <1>2 DEF TypeOK
  <2> QED  BY <1>1, <2>1, <2>2, <2>3 DEF TypeOK
<1>4. \A i \in DOMAIN used : used[i] \in 1..tokens /\ used[i] # tokens'
  BY <1>1, <1>2 DEF Made, TypeOK
<1>5. VerifiedIsProven'
  <2>1. SUFFICES ASSUME verified' PROVE VerifiedIsProven'
    BY DEF VerifiedIsProven
  <2>2. used # <<>> /\ Len(used) \in DOMAIN used /\ LastUsed \in Tokens
    <3>1. used \in Seq(Tokens) /\ used # <<>>
      BY <1>1, <2>1 DEF VerifiedIsProven, TypeOK
    <3>2. Len(used) \in Nat \ {0} /\ DOMAIN used = 1..Len(used) /\ used \in [1..Len(used) -> Tokens]
      BY <3>1, EmptySeq, LenProperties
    <3> QED  BY <3>1, <3>2 DEF LastUsed
  <2>3. addressed'[LastUsed] = addressed[LastUsed]
    BY <1>1, <1>2, <1>4, <2>2 DEF TypeOK, LastUsed
  <2> QED  BY <1>1, <2>1, <2>2, <2>3 DEF VerifiedIsProven, LastUsed
<1>6. LinkIsCurrent'
  BY <1>1, <1>2, <1>4 DEF LinkIsCurrent, TypeOK
<1>7. Made'
  BY <1>1, <1>2, <1>4 DEF Made, TypeOK
<1>8. OnlyToVerified' /\ LinkSingleUse' /\ CooldownsKept'
  BY <1>1 DEF RowFree, OnlyToVerified, LinkSingleUse, CooldownsKept
<1> QED  BY <1>3, <1>5, <1>6, <1>7, <1>8 DEF IInv

\* Verify: the link presented is the row's, so the row's address received it.
LEMMA VerifyStep ==
    ASSUME IInv, Verify
    PROVE  IInv'
<1>1. TypeOK /\ VerifiedIsProven /\ OnlyToVerified /\ LinkSingleUse /\ LinkIsCurrent /\ Made /\ CooldownsKept
  BY DEF IInv
<1>2. CASE ~Confirmable
  BY <1>1, <1>2 DEF Verify, IInv, TypeOK, VerifiedIsProven, LastUsed, OnlyToVerified, LinkSingleUse,
                    LinkIsCurrent, Made, CooldownsKept, NoCall
<1>3. CASE Confirmable
  <2>1. presented.token \in Tokens /\ presented.token = hash /\ presented.token \in received
    BY <1>1, <1>3 DEF Verify, Confirmable, TypeOK, Made
  <2>2. /\ used' = Append(used, hash) /\ used' # <<>>
        /\ Len(used') = Len(used) + 1 /\ used'[Len(used')] = hash
        /\ \A i \in DOMAIN used : used'[i] = used[i]
        /\ DOMAIN used' = DOMAIN used \cup {Len(used')}
        /\ DOMAIN used = 1..Len(used) /\ Len(used) \in Nat
    <3>1. used \in Seq(Tokens) /\ hash \in Tokens /\ used' = Append(used, hash)
      BY <1>1, <1>3, <2>1 DEF Verify, TypeOK
    <3>2. used' \in Seq(Tokens)
      BY <3>1, AppendProperties
    <3>3. DOMAIN used = 1..Len(used) /\ Len(used) \in Nat /\ DOMAIN used' = 1..Len(used')
      BY <3>1, <3>2, LenProperties
    <3>4. /\ used' # <<>> /\ Len(used') = Len(used) + 1
          /\ \A i \in 1..Len(used) : used'[i] = used[i]
          /\ used'[Len(used) + 1] = hash
      BY <3>1, AppendProperties
    <3> QED  BY <3>1, <3>3, <3>4
  <2>3. TypeOK'
    <3>1. used' \in Seq(Tokens)
      BY <1>1, <2>1, <2>2, AppendProperties DEF TypeOK
    <3>2. /\ verified' \in BOOLEAN /\ hash' \in Tokens \cup {NoToken} /\ expires' \in Nat
          /\ presented' = NoCall
      BY <1>3 DEF Verify
    <3> QED  BY <1>1, <3>1, <3>2 DEF Verify, TypeOK
  <2>4. VerifiedIsProven'
    BY <1>1, <1>3, <2>1, <2>2 DEF Verify, VerifiedIsProven, LastUsed, LinkIsCurrent
  <2>5. LinkSingleUse'
    <3>1. SUFFICES ASSUME NEW i \in DOMAIN used', NEW k \in DOMAIN used', i < k
                   PROVE  used'[i] < used'[k]
      BY DEF LinkSingleUse
    <3>2. i \in DOMAIN used
      BY <2>2, <3>1
    <3>3. CASE k \in DOMAIN used
      BY <1>1, <2>2, <3>1, <3>2, <3>3 DEF LinkSingleUse
    <3>4. CASE k = Len(used')
      BY <1>1, <2>1, <2>2, <3>2, <3>4 DEF LinkIsCurrent
    <3> QED  BY <2>2, <3>1, <3>3, <3>4
  <2>6. OnlyToVerified' /\ LinkIsCurrent' /\ CooldownsKept'
    BY <1>1, <1>3 DEF Verify, RowFree, OnlyToVerified, LinkIsCurrent, CooldownsKept
  <2>7. Made'
    BY <1>1, <1>3, <2>1, <2>2 DEF Verify, Made, NoCall
  <2> QED  BY <2>3, <2>4, <2>5, <2>6, <2>7 DEF IInv
<1> QED  BY <1>2, <1>3

\* The calls that leave the row's address, verification and link alone.
LEMMA OtherSteps ==
    ASSUME IInv,
           \/ \E t \in Tokens : Arrive(t) \/ Present(t)
           \/ TestReserve
           \/ \E e \in Emails : TestSend(e)
           \/ \E kind \in Kinds : Notify(kind)
           \/ Sent \/ Crash \/ Tick
    PROVE  IInv'
<1> USE DEF row, calls, history
<1>1. TypeOK /\ VerifiedIsProven /\ OnlyToVerified /\ LinkSingleUse /\ LinkIsCurrent /\ Made /\ CooldownsKept
  BY DEF IInv
<1>2. ASSUME NEW t \in Tokens, Arrive(t) PROVE IInv'
  BY <1>1, <1>2 DEF Arrive, IInv, TypeOK, VerifiedIsProven, LastUsed, OnlyToVerified, LinkSingleUse,
                    LinkIsCurrent, Made, CooldownsKept
<1>3. ASSUME NEW t \in Tokens, Present(t) PROVE IInv'
  BY <1>1, <1>3 DEF Present, IInv, TypeOK, VerifiedIsProven, LastUsed, OnlyToVerified, LinkSingleUse,
                    LinkIsCurrent, Made, CooldownsKept
<1>4. ASSUME TestReserve PROVE IInv'
  BY <1>1, <1>4 DEF TestReserve, IInv, TypeOK, VerifiedIsProven, LastUsed, OnlyToVerified, LinkSingleUse,
                    LinkIsCurrent, Made, CooldownsKept
<1>5. ASSUME NEW e \in Emails, TestSend(e) PROVE IInv'
  BY <1>1, <1>5 DEF TestSend, IInv, TypeOK, VerifiedIsProven, LastUsed, OnlyToVerified, LinkSingleUse,
                    LinkIsCurrent, Made, CooldownsKept
<1>6. ASSUME NEW kind \in Kinds, Notify(kind) PROVE IInv'
  BY <1>1, <1>6 DEF Notify, IInv, TypeOK, VerifiedIsProven, LastUsed, OnlyToVerified, LinkSingleUse,
                    LinkIsCurrent, Made, CooldownsKept
<1>7. ASSUME Sent PROVE IInv'
  BY <1>1, <1>7 DEF Sent, IInv, TypeOK, VerifiedIsProven, LastUsed, OnlyToVerified, LinkSingleUse,
                    LinkIsCurrent, Made, CooldownsKept
<1>8. ASSUME Crash PROVE IInv'
  BY <1>1, <1>8 DEF Crash, IInv, TypeOK, VerifiedIsProven, LastUsed, OnlyToVerified, LinkSingleUse,
                    LinkIsCurrent, Made, CooldownsKept
<1>9. ASSUME Tick PROVE IInv'
  BY <1>1, <1>9, TimeAssumption DEF Tick, IInv, TypeOK, VerifiedIsProven, LastUsed, OnlyToVerified,
                    LinkSingleUse, LinkIsCurrent, Made, CooldownsKept
<1> QED  BY <1>2, <1>3, <1>4, <1>5, <1>6, <1>7, <1>8, <1>9

\* A step that changes nothing keeps the invariant.
LEMMA StutterStep == IInv /\ UNCHANGED vars => IInv'
BY DEF vars, row, calls, history, IInv, TypeOK, VerifiedIsProven, LastUsed, OnlyToVerified,
       LinkSingleUse, LinkIsCurrent, Made, CooldownsKept

\* The invariant that explains the others holds in every behaviour.
THEOREM Invariance == Spec => []IInv
<1>1. IInv /\ [Next]_vars => IInv'
  BY SaveStep, RequestStep, VerifyStep, OtherSteps, StutterStep DEF Next
<1> QED  BY InitIInv, <1>1, PTL DEF Spec

\* A verified address has received, and its owner has presented, a link that was
\* made for it since it was last entered (Service.Verify against Service.Save).
THEOREM Proven == Spec => []VerifiedIsProven
<1>1. IInv => VerifiedIsProven
  BY DEF IInv
<1> QED  BY Invariance, <1>1, PTL

\* While a mail is being sent, it goes to the verified address of the row.
THEOREM SentToVerified == Spec => []OnlyToVerified
<1>1. IInv => OnlyToVerified
  BY DEF IInv
<1> QED  BY Invariance, <1>1, PTL

\* No link works twice, nor after a newer one worked.
THEOREM SingleUse == Spec => []LinkSingleUse
<1>1. IInv => LinkSingleUse
  BY DEF IInv
<1> QED  BY Invariance, <1>1, PTL

\* Verification mails, and tests, are a cooldown apart whatever Save did between.
THEOREM Cooldowns == Spec => RateLimited
<1>1. IInv /\ [Next]_vars =>
        [/\ tokens' # tokens => now - issuedAt >= Cooldown
         /\ lastTest' # lastTest => now - testedAt >= Cooldown]_vars
  <2>1. SUFFICES ASSUME IInv, Next
                 PROVE  /\ tokens' # tokens => now - issuedAt >= Cooldown
                        /\ lastTest' # lastTest => now - testedAt >= Cooldown
    OBVIOUS
  <2>2. lastVerification = issuedAt /\ lastTest = testedAt
    BY <2>1 DEF IInv, CooldownsKept
  <2>3. CASE RequestVerification
    BY <2>2, <2>3 DEF RequestVerification
  <2>4. CASE TestReserve
    BY <2>2, <2>4 DEF TestReserve
  <2>5. CASE Next /\ ~RequestVerification /\ ~TestReserve
    BY <2>5 DEF Next, Save, Arrive, Present, Verify, TestSend, Notify, Sent, Crash, Tick,
                row, calls, history
  <2> QED  BY <2>1, <2>3, <2>4, <2>5
<1> QED  BY Invariance, <1>1, PTL DEF Spec, RateLimited
=============================================================================
