---------------------------- MODULE AccessProofs ----------------------------
(***************************************************************************)
(* Proofs about Access, for any number of calls, cookies, passwords and    *)
(* scopes, and any limits and bounds.                                      *)
(***************************************************************************)
EXTENDS Access, TLAPS, FiniteSetTheorems

\* What happened before there was a password: nothing.
Fresh ==
    /\ wanted = None /\ ~overtaken
    /\ \A c \in Calls : ~Verified(c) /\ ~At(c, "update")
    /\ \A k \in Cookies : ~session[k].live

\* Only the very first hash is weak, so all rehashes under way write one password.
OneRehash ==
    /\ \A c, d \in Calls : At(c, "rehash") /\ At(d, "rehash") => call[c].with = call[d].with
    /\ \A c \in Calls : At(c, "rehash") =>
          /\ hash.weak => call[c].with = hash.password
          /\ overtaken => call[c].with # wanted
    /\ hash.weak => ~overtaken

\* A login past its verification has the password last chosen, or is known to be late.
Presented ==
    /\ \A c \in Calls : Verified(c) \/ call[c].pc \in {"verify", "update"} =>
          call[c].with \in Passwords
    /\ ~overtaken => \A c \in Calls : Verified(c) =>
          call[c].with = wanted \/ call[c].stale

Steady ==
    /\ hash.password = None => Fresh
    /\ OneRehash
    /\ Presented
    /\ PasswordChangeHolds

\* Calls that have a failure still to count, and calls that are trying a password.
Owing(s) == {c \in Calls : At(c, "record") /\ s \in call[c].todo}
Trying == {c \in Calls : At(c, "verify")}

Counted ==
    \A s \in Scopes :
        /\ tries[s] <= failures[s] + lost[s] + Cardinality(Owing(s))
        /\ tries[s] + Cardinality(Trying) < MaxAttempts + Cardinality(Calls) + lost[s]

-----------------------------------------------------------------------------
(* Type correctness *)

\* A session keeps its type when only its time or its mark changes.
LEMMA SessionTyped ==
    ASSUME TypeOK, NEW k, NEW n \in 0 .. Ttl
    PROVE  [session EXCEPT ![k].left = n] \in [Cookies -> Session]
BY DEF TypeOK, Session

\* A call keeps its type wherever it goes on to.
LEMMA CallTyped ==
    ASSUME TypeOK, NEW c \in Calls, NEW pc \in Pcs
    PROVE  [call EXCEPT ![c].pc = pc] \in [Calls -> Call]
BY DEF TypeOK, Call

LEMMA IdleTyped == Idle \in Call
BY DEF Idle, Call, Pcs

\* A call keeps its type when it has counted a failure or set an expiry.
LEMMA RecordedTyped ==
    ASSUME TypeOK, NEW c \in Calls,
           NEW todo \in SUBSET Scopes, NEW toArm \in SUBSET Scopes, Recorded(c, todo, toArm)
    PROVE  call' \in [Calls -> Call]
<1>1. [call[c] EXCEPT !.todo = todo, !.toArm = toArm] \in Call
  BY DEF TypeOK, Call
<1>. QED
  BY <1>1, IdleTyped DEF TypeOK, Recorded, Begin

LEMMA NoSessionTyped == NoSession \in Session
BY LimitsAssumption DEF NoSession, Session

LEMMA TypeInit == Init => TypeOK
<1> SUFFICES ASSUME Init PROVE TypeOK
  OBVIOUS
<1>1. [c \in Calls |-> Idle] \in [Calls -> Call]
  BY IdleTyped
<1>2. [k \in Cookies |-> NoSession] \in [Cookies -> Session]
  BY NoSessionTyped
<1>3. hash \in Hash /\ wanted \in Passwords \cup {None}
  BY DEF Init, Hash
<1>4. /\ failures \in [Scopes -> Nat] /\ armed \in [Scopes -> 0 .. Window]
      /\ tries \in [Scopes -> Nat] /\ lost \in [Scopes -> Nat]
      /\ changes \in 0 .. MaxChanges /\ faults \in 0 .. MaxFaults
  BY LimitsAssumption DEF Init
<1>. QED
  BY <1>1, <1>2, <1>3, <1>4 DEF Init, TypeOK

LEMMA TypeNext == TypeOK /\ [Next]_vars => TypeOK'
<1> SUFFICES ASSUME TypeOK, [Next]_vars PROVE TypeOK'
  OBVIOUS
<1>. USE LimitsAssumption
<1>1. ASSUME NEW c \in Calls, NEW w \in Passwords, LoginCheck(c, w) PROVE TypeOK'
  <2>1. [Idle EXCEPT !.pc = "verify", !.with = w] \in Call
    BY DEF Idle, Call, Pcs
  <2>. QED
    BY <1>1, <2>1 DEF TypeOK, LoginCheck, Begin, throttle, chosen
<1>2. ASSUME NEW c \in Calls, LoginVerify(c) PROVE TypeOK'
  <2>1. [Idle EXCEPT !.pc = "record", !.todo = Scopes] \in Call
    BY DEF Idle, Call, Pcs
  <2>2. /\ [call EXCEPT ![c].pc = "rehash"] \in [Calls -> Call]
        /\ [call EXCEPT ![c].pc = "clear"] \in [Calls -> Call]
    BY CallTyped DEF Pcs
  <2>3. call' \in [Calls -> Call]
    BY <1>2, <2>1, <2>2 DEF TypeOK, LoginVerify, Begin, Goto
  <2>. QED
    BY <1>2, <2>3 DEF TypeOK, LoginVerify, throttle, chosen
<1>3. ASSUME NEW c \in Calls, NEW s \in Scopes, Increment(c, s) PROVE TypeOK'
  <2>1. call' \in [Calls -> Call]
    <3>1. call[c] \in Call
      BY DEF TypeOK
    <3>2. PICK todo \in SUBSET Scopes, toArm \in SUBSET Scopes : Recorded(c, todo, toArm)
      BY <1>3, <3>1 DEF Increment, Call
    <3>. QED
      BY <3>2, RecordedTyped
  <2>. QED
    BY <1>3, <2>1 DEF TypeOK, Increment, chosen
<1>4. ASSUME NEW c \in Calls, NEW s \in Scopes, Arm(c, s) PROVE TypeOK'
  <2>1. call' \in [Calls -> Call]
    BY <1>4, IdleTyped DEF TypeOK, Arm, Recorded, Begin, Call
  <2>. QED
    BY <1>4, <2>1 DEF TypeOK, Arm, chosen
<1>5. ASSUME NEW c \in Calls, Rehash(c) PROVE TypeOK'
  <2>1. [call EXCEPT ![c].pc = "clear"] \in [Calls -> Call]
    BY CallTyped DEF Pcs
  <2>2. call[c].with \in Passwords \cup {None}
    BY DEF TypeOK, Call
  <2>. QED
    BY <1>5, <2>1, <2>2 DEF TypeOK, Rehash, Goto, throttle, Hash
<1>6. ASSUME NEW c \in Calls, ClearLoginFailures(c) PROVE TypeOK'
  <2>1. [call EXCEPT ![c].pc = "open"] \in [Calls -> Call]
    BY CallTyped DEF Pcs
  <2>. QED
    BY <1>6, <2>1 DEF TypeOK, ClearLoginFailures, Goto, chosen
<1>7. ASSUME NEW c \in Calls, NEW k \in Cookies, CreateSession(c, k) PROVE TypeOK'
  <2>1. [live |-> TRUE, left |-> Ttl, with |-> call[c].with, stale |-> call[c].stale]
          \in Session
    BY DEF TypeOK, Call, Session
  <2>. QED
    BY <1>7, <2>1, IdleTyped DEF TypeOK, CreateSession, Answer, Begin, throttle, chosen
<1>8. ASSUME NEW c \in Calls, NEW k \in Cookies, Resolve(c, k) PROVE TypeOK'
  <2>1. \A pc \in {"drop", "renew"} : [Idle EXCEPT !.pc = pc, !.cookie = k] \in Call
    BY DEF Idle, Call, Pcs
  <2>. QED
    BY <1>8, <2>1 DEF TypeOK, Resolve, Begin, throttle, chosen
<1>9. ASSUME NEW c \in Calls, RenewSession(c) PROVE TypeOK'
  <2>1. [session EXCEPT ![call[c].cookie].left = Ttl] \in [Cookies -> Session]
    <3>1. Ttl \in 0 .. Ttl
      OBVIOUS
    <3>. QED
      BY <3>1, SessionTyped
  <2>. QED
    BY <1>9, <2>1, IdleTyped DEF TypeOK, RenewSession, Answer, Begin, throttle, chosen
<1>10. ASSUME NEW c \in Calls, DropExpired(c) PROVE TypeOK'
  BY <1>10, IdleTyped, NoSessionTyped
     DEF TypeOK, DropExpired, Destroy, Answer, Begin, throttle, chosen
<1>11. ASSUME NEW k \in Cookies, Logout(k) PROVE TypeOK'
  BY <1>11, NoSessionTyped DEF TypeOK, Logout, Destroy, throttle, chosen
<1>12. ASSUME NEW c \in Calls, NEW w \in Passwords, CreateUser(c, w) PROVE TypeOK'
  <2>1. [Idle EXCEPT !.pc = "open", !.with = w] \in Call
    BY DEF Idle, Call, Pcs
  <2>. QED
    BY <1>12, <2>1 DEF TypeOK, CreateUser, Begin, throttle, Hash
<1>13. ASSUME NEW c \in Calls, NEW w \in Passwords,
              SetPassword(c, w) \/ \E k \in Cookies : ChangePassword(c, k, w)
       PROVE  TypeOK'
  <2>1. [Idle EXCEPT !.pc = "update", !.with = w] \in Call
    BY DEF Idle, Call, Pcs
  <2>2. changes < MaxChanges /\ changes' = changes + 1
    BY <1>13 DEF SetPassword, ChangePassword
  <2>3. changes' \in 0 .. MaxChanges
    BY <2>2 DEF TypeOK
  <2>. QED
    BY <1>13, <2>1, <2>3 DEF TypeOK, SetPassword, ChangePassword, Begin, throttle
<1>14. ASSUME NEW c \in Calls, UpdateHash(c) PROVE TypeOK'
  <2>1. [Idle EXCEPT !.pc = "destroy"] \in Call
    BY DEF Idle, Call, Pcs
  <2>2. call[c].with \in Passwords \cup {None}
    BY DEF TypeOK, Call
  <2>3. \A d \in Calls : call[d] \in Call /\ [call[d] EXCEPT !.stale = TRUE] \in Call
    BY DEF TypeOK, Call
  <2>. QED
    BY <1>14, <2>1, <2>2, <2>3 DEF TypeOK, UpdateHash, throttle, Hash
<1>15. ASSUME NEW c \in Calls, DestroyAllSessions(c) PROVE TypeOK'
  BY <1>15, IdleTyped, NoSessionTyped
     DEF TypeOK, DestroyAllSessions, Answer, Begin, throttle, chosen
<1>16. ASSUME NEW c \in Calls, Fails(c) PROVE TypeOK'
  <2>1. session' \in [Cookies -> Session]
    BY <1>16 DEF TypeOK, Fails, Session
  <2>2. lost' \in [Scopes -> Nat] /\ unarmed' \subseteq Scopes
    BY <1>16 DEF TypeOK, Fails, Call
  <2>3. faults' \in 0 .. MaxFaults
    BY <1>16 DEF TypeOK, Fails
  <2>. QED
    BY <1>16, <2>1, <2>2, <2>3, IdleTyped DEF TypeOK, Fails, Answer, Begin, chosen
<1>17. CASE Tick
  <2>1. session' \in [Cookies -> Session]
    <3>1. ASSUME NEW k \in Cookies, session[k].left > 0
          PROVE  [session[k] EXCEPT !.left = @ - 1] \in Session
      <4>1. session[k] \in Session
        BY DEF TypeOK
      <4>. QED
        BY <3>1, <4>1 DEF Session
    <3>. QED
      BY <1>17, <3>1 DEF TypeOK, Tick
  <2>2. armed' \in [Scopes -> 0 .. Window]
    BY <1>17 DEF TypeOK, Tick
  <2>. QED
    BY <1>17, <2>1, <2>2 DEF TypeOK, Tick, chosen
<1>18. CASE UNCHANGED vars
  BY <1>18 DEF TypeOK, vars, throttle, chosen
<1>. QED
  BY <1>1, <1>2, <1>3, <1>4, <1>5, <1>6, <1>7, <1>8, <1>9, <1>10, <1>11, <1>12, <1>13,
     <1>14, <1>15, <1>16, <1>17, <1>18 DEF Next, Starts, Proceeds

\* Type correctness; no session is given more than its term, no change exceeds its
\* bound (lib/auth/session.ts:101-106).
THEOREM AccessTypeCorrect == Spec => []TypeOK
BY TypeInit, TypeNext, PTL DEF Spec

-----------------------------------------------------------------------------
(* Changing the password *)

\* What a call that only moves on, or ends, leaves: the others and every password.
LEMMA SteadyKept ==
    ASSUME TypeOK, Steady, UNCHANGED <<hash, wanted, overtaken>>,
           \A c \in Calls : \/ call'[c] = call[c]
                            \/ call'[c].pc \notin {"rehash", "verify", "update", "clear", "open"}
                               /\ ~At(c, "destroy")
                            \/ /\ call'[c].pc \in {"clear", "open"}
                               /\ Verified(c)
                               /\ call'[c].with = call[c].with
                               /\ call'[c].stale = call[c].stale,
           \A k \in Cookies : session'[k].live =>
              /\ session[k].live
              /\ session'[k].with = session[k].with /\ session'[k].stale = session[k].stale
    PROVE  Steady'
<1>1. Fresh => Fresh'
  BY DEF Fresh, Verified, At
<1>2. OneRehash'
  BY DEF Steady, OneRehash, At
<1>3. Presented'
  BY DEF Steady, Presented, Verified, At
<1>4. PasswordChangeHolds'
  <2>1. \A c \in Calls : At(c, "destroy") => At(c, "destroy")'
    BY DEF At, Verified
  <2>. QED
    BY <2>1 DEF Steady, PasswordChangeHolds
<1>. QED
  BY <1>1, <1>2, <1>3, <1>4 DEF Steady

LEMMA SteadyInit == Init => Steady
<1> SUFFICES ASSUME Init PROVE Steady
  OBVIOUS
<1>1. \A c \in Calls : call[c].pc = "idle"
  BY DEF Init, Idle
<1>2. \A k \in Cookies : ~session[k].live
  BY DEF Init, NoSession
<1>. QED
  BY <1>1, <1>2 DEF Init, Steady, Fresh, OneRehash, Presented, PasswordChangeHolds, Verified, At

LEMMA SteadyNext == TypeOK /\ Steady /\ [Next]_vars => Steady'
<1> SUFFICES ASSUME TypeOK, Steady, [Next]_vars PROVE Steady'
  OBVIOUS
<1>1. ASSUME NEW c \in Calls, NEW w \in Passwords, LoginCheck(c, w) PROVE Steady'
  <2>1. /\ call'[c].pc = "verify" /\ call'[c].with = w
        /\ \A d \in Calls \ {c} : call'[d] = call[d]
        /\ UNCHANGED <<hash, session, wanted, overtaken>> /\ call[c].pc = "idle"
    BY <1>1 DEF LoginCheck, Begin, Idle, At, chosen, TypeOK
  <2>. QED
    BY <2>1 DEF Steady, Fresh, OneRehash, Presented, PasswordChangeHolds, Verified, At
<1>2. ASSUME NEW c \in Calls, LoginVerify(c) PROVE Steady'
  <2>1. /\ \A d \in Calls \ {c} : call'[d] = call[d]
        /\ UNCHANGED <<hash, session, wanted, overtaken>> /\ call[c].pc = "verify"
    BY <1>2 DEF LoginVerify, Begin, Goto, At, chosen, TypeOK
  <2>2. CASE hash.password = call[c].with
    <3>1. /\ call'[c].pc = IF hash.weak THEN "rehash" ELSE "clear"
          /\ call'[c].with = call[c].with
      BY <1>2, <2>2 DEF LoginVerify, Goto, TypeOK, Call
    <3>2. call[c].with \in Passwords /\ hash.password # None
      BY <2>1, <2>2, NoneAssumption DEF Steady, Presented
    <3>3. ~overtaken => call[c].with = wanted
      BY <2>2 DEF Steady, PasswordChangeHolds
    <3>4. OneRehash'
      BY <2>1, <2>2, <3>1 DEF Steady, OneRehash, At
    <3>5. Presented'
      BY <2>1, <3>1, <3>2, <3>3 DEF Steady, Presented, Verified, At
    <3>6. PasswordChangeHolds'
      BY <2>1, <3>1 DEF Steady, PasswordChangeHolds, At
    <3>. QED
      BY <2>1, <3>2, <3>4, <3>5, <3>6 DEF Steady
  <2>3. CASE hash.password # call[c].with
    <3>1. call'[c].pc = "record"
      BY <1>2, <2>3 DEF LoginVerify, Begin, Idle, TypeOK
    <3>. QED
      BY <2>1, <3>1, SteadyKept DEF At
  <2>. QED
    BY <2>2, <2>3
<1>3. ASSUME NEW c \in Calls, NEW s \in Scopes, Increment(c, s) \/ Arm(c, s) PROVE Steady'
  <2>1. /\ \A d \in Calls \ {c} : call'[d] = call[d]
        /\ call[c].pc = "record" /\ call'[c].pc \in {"record", "idle"}
        /\ UNCHANGED <<hash, session, wanted, overtaken>>
    <3>1. call[c].pc = "record" /\ UNCHANGED <<hash, session, wanted, overtaken>>
      BY <1>3 DEF Increment, Arm, At, chosen
    <3>2. PICK todo, toArm : Recorded(c, todo, toArm)
      BY <1>3 DEF Increment, Arm
    <3>. QED
      BY <3>1, <3>2 DEF Recorded, Begin, Idle, TypeOK, Call
  <2>. QED
    BY <2>1, SteadyKept DEF At
<1>4. ASSUME NEW c \in Calls, Rehash(c) PROVE Steady'
  <2>1. /\ \A d \in Calls \ {c} : call'[d] = call[d]
        /\ call[c].pc = "rehash" /\ call'[c].pc = "clear" /\ call'[c].with = call[c].with
        /\ call'[c].stale = call[c].stale
        /\ hash'.password = call[c].with /\ ~hash'.weak
        /\ overtaken' = (call[c].with # wanted)
        /\ UNCHANGED <<session, wanted>>
    BY <1>4 DEF Rehash, Goto, At, TypeOK, Call
  <2>2. call[c].with \in Passwords
    BY <2>1 DEF Steady, Presented, Verified, At
  <2>3. hash'.password # None
    BY <2>1, <2>2, NoneAssumption
  <2>4. overtaken => overtaken'
    BY <2>1 DEF Steady, OneRehash, At
  <2>5. OneRehash'
    <3>1. \A d \in Calls : At(d, "rehash")' => At(d, "rehash") /\ call'[d] = call[d]
      BY <2>1 DEF At
    <3>2. \A d \in Calls : At(d, "rehash") => call[d].with = call[c].with
      BY <2>1 DEF Steady, OneRehash, At
    <3>3. \A d \in Calls : At(d, "rehash")' /\ overtaken' => call'[d].with # wanted'
      BY <2>1, <3>1, <3>2
    <3>. QED
      BY <2>1, <3>1, <3>2, <3>3 DEF OneRehash
  <2>6. Presented'
    BY <2>1, <2>4 DEF Steady, Presented, Verified, At
  <2>7. PasswordChangeHolds'
    BY <2>1, <2>4 DEF Steady, PasswordChangeHolds, At
  <2>. QED
    BY <2>3, <2>5, <2>6, <2>7 DEF Steady
<1>5. ASSUME NEW c \in Calls, ClearLoginFailures(c) PROVE Steady'
  <2>1. /\ \A d \in Calls \ {c} : call'[d] = call[d]
        /\ call[c].pc = "clear" /\ call'[c].pc = "open" /\ call'[c].with = call[c].with
        /\ call'[c].stale = call[c].stale
        /\ UNCHANGED <<hash, session, wanted, overtaken>>
    BY <1>5 DEF ClearLoginFailures, Goto, At, chosen, TypeOK, Call
  <2>. QED
    BY <2>1, SteadyKept DEF At, Verified
<1>6. ASSUME NEW c \in Calls, NEW k \in Cookies, CreateSession(c, k) PROVE Steady'
  <2>1. /\ \A d \in Calls \ {c} : call'[d] = call[d]
        /\ call[c].pc = "open" /\ call'[c].pc = "idle"
        /\ \A l \in Cookies \ {k} : session'[l] = session[l]
        /\ session'[k].with = call[c].with /\ session'[k].stale = call[c].stale
        /\ UNCHANGED <<hash, wanted, overtaken>>
    BY <1>6 DEF CreateSession, Answer, Begin, Idle, At, chosen, TypeOK
  <2>2. hash.password # None
    BY <2>1 DEF Steady, Fresh, Verified, At
  <2>3. ~overtaken => call[c].with = wanted \/ call[c].stale
    BY <2>1 DEF Steady, Presented, Verified, At
  <2>4. OneRehash' /\ Presented'
    BY <2>1 DEF Steady, OneRehash, Presented, Verified, At
  <2>5. PasswordChangeHolds'
    BY <2>1, <2>3 DEF Steady, PasswordChangeHolds, At
  <2>. QED
    BY <2>1, <2>2, <2>4, <2>5 DEF Steady
<1>7. ASSUME NEW c \in Calls, NEW k \in Cookies, Resolve(c, k) PROVE Steady'
  <2>1. /\ \A d \in Calls \ {c} : call'[d] = call[d]
        /\ call[c].pc = "idle" /\ call'[c].pc \in {"drop", "renew"}
        /\ UNCHANGED <<hash, session, wanted, overtaken>>
    BY <1>7 DEF Resolve, Begin, Idle, At, chosen, TypeOK
  <2>. QED
    BY <2>1, SteadyKept DEF At
<1>8. ASSUME NEW c \in Calls, RenewSession(c) \/ DropExpired(c) PROVE Steady'
  <2>1. /\ \A d \in Calls \ {c} : call'[d] = call[d]
        /\ call[c].pc \in {"drop", "renew"} /\ call'[c].pc = "idle"
        /\ UNCHANGED <<hash, wanted, overtaken>>
    BY <1>8 DEF RenewSession, DropExpired, Answer, Begin, Idle, At, chosen, TypeOK
  <2>2. \A k \in Cookies : session'[k].live =>
              /\ session[k].live
              /\ session'[k].with = session[k].with /\ session'[k].stale = session[k].stale
    BY <1>8 DEF RenewSession, DropExpired, Destroy, NoSession, TypeOK, Session
  <2>. QED
    BY <2>1, <2>2, SteadyKept DEF At
<1>9. ASSUME NEW k \in Cookies, Logout(k) PROVE Steady'
  <2>1. UNCHANGED <<call, hash, wanted, overtaken>>
    BY <1>9 DEF Logout, chosen
  <2>2. \A l \in Cookies : session'[l].live =>
              /\ session[l].live
              /\ session'[l].with = session[l].with /\ session'[l].stale = session[l].stale
    BY <1>9 DEF Logout, Destroy, NoSession, TypeOK, Session
  <2>. QED
    BY <2>1, <2>2, SteadyKept
<1>10. ASSUME NEW c \in Calls, NEW w \in Passwords, CreateUser(c, w) PROVE Steady'
  <2>1. /\ \A d \in Calls \ {c} : call'[d] = call[d]
        /\ call'[c].pc = "open" /\ call'[c].with = w
        /\ hash.password = None /\ hash'.password = w /\ ~hash'.weak /\ wanted' = w
        /\ UNCHANGED <<session, overtaken>>
    BY <1>10 DEF CreateUser, Begin, Idle, At, TypeOK
  <2>2. Fresh
    BY <2>1 DEF Steady
  <2>3. OneRehash'
    BY <2>1, <2>2 DEF Fresh, OneRehash, Verified, At
  <2>4. Presented'
    BY <2>1, <2>2 DEF Steady, Fresh, Presented, Verified, At
  <2>5. PasswordChangeHolds'
    BY <2>1, <2>2 DEF Fresh, PasswordChangeHolds
  <2>. QED
    BY <2>1, <2>3, <2>4, <2>5, NoneAssumption DEF Steady
<1>11. ASSUME NEW c \in Calls, NEW w \in Passwords,
              SetPassword(c, w) \/ \E k \in Cookies : ChangePassword(c, k, w)
       PROVE  Steady'
  <2>1. /\ \A d \in Calls \ {c} : call'[d] = call[d]
        /\ call[c].pc = "idle" /\ call'[c].pc = "update" /\ call'[c].with = w
        /\ UNCHANGED <<hash, session, wanted, overtaken>>
    <3>1. /\ call[c].pc = "idle" /\ UNCHANGED <<hash, session, wanted, overtaken>>
          /\ Begin(c, [Idle EXCEPT !.pc = "update", !.with = w])
      BY <1>11 DEF SetPassword, ChangePassword, At
    <3>. QED
      BY <3>1 DEF Begin, Idle, TypeOK
  <2>2. hash.password # None
    BY <1>11 DEF SetPassword, ChangePassword, Steady, Fresh
  <2>. QED
    BY <2>1, <2>2 DEF Steady, OneRehash, Presented, PasswordChangeHolds, Verified, At
<1>12. ASSUME NEW c \in Calls, UpdateHash(c) PROVE Steady'
  <2>1. /\ \A d \in Calls \ {c} : /\ call'[d].pc = call[d].pc
                                  /\ call'[d].with = call[d].with
                                  /\ Verified(d) => call'[d].stale
        /\ call[c].pc = "update" /\ call'[c].pc = "destroy"
        /\ hash'.password = call[c].with /\ ~hash'.weak
        /\ wanted' = call[c].with /\ overtaken' = FALSE
        /\ UNCHANGED session
    BY <1>12 DEF UpdateHash, Idle, At, TypeOK, Call
  <2>2. call[c].with \in Passwords
    BY <2>1 DEF Steady, Presented
  <2>3. OneRehash'
    BY <2>1 DEF Steady, OneRehash, At
  <2>4. Presented'
    BY <2>1 DEF Steady, Presented, Verified, At
  <2>5. PasswordChangeHolds'
    BY <2>1 DEF PasswordChangeHolds, At
  <2>. QED
    BY <2>1, <2>2, <2>3, <2>4, <2>5, NoneAssumption DEF Steady
<1>13. ASSUME NEW c \in Calls, DestroyAllSessions(c) PROVE Steady'
  <2>1. /\ \A d \in Calls \ {c} : call'[d] = call[d]
        /\ call'[c].pc = "idle" /\ \A k \in Cookies : ~session'[k].live
        /\ UNCHANGED <<hash, wanted, overtaken>>
    BY <1>13 DEF DestroyAllSessions, Answer, Begin, Idle, NoSession, chosen, TypeOK
  <2>. QED
    BY <2>1 DEF Steady, Fresh, OneRehash, Presented, PasswordChangeHolds, Verified, At
<1>14. ASSUME NEW c \in Calls, Fails(c) PROVE Steady'
  <2>1. /\ \A d \in Calls \ {c} : call'[d] = call[d]
        /\ call'[c].pc = "idle"
        /\ UNCHANGED <<hash, wanted, overtaken>>
    BY <1>14 DEF Fails, Answer, Begin, Idle, chosen, TypeOK
  <2>2. CASE At(c, "destroy")
    <3>1. \A k \in Cookies : /\ session'[k].live = session[k].live
                             /\ session[k].live => session'[k].stale
      BY <1>14, <2>2 DEF Fails, TypeOK, Session
    <3>. QED
      BY <2>1, <3>1 DEF Steady, Fresh, OneRehash, Presented, PasswordChangeHolds, Verified, At
  <2>3. CASE ~At(c, "destroy")
    <3>1. UNCHANGED session
      BY <1>14, <2>3 DEF Fails
    <3>. QED
      BY <2>1, <2>3, <3>1, SteadyKept DEF At
  <2>. QED
    BY <2>2, <2>3
<1>15. CASE Tick
  <2>1. UNCHANGED <<call, hash, wanted, overtaken>>
    BY <1>15 DEF Tick, chosen
  <2>2. \A l \in Cookies : session'[l].live =>
              /\ session[l].live
              /\ session'[l].with = session[l].with /\ session'[l].stale = session[l].stale
    BY <1>15 DEF Tick, TypeOK, Session
  <2>. QED
    BY <2>1, <2>2, SteadyKept
<1>16. CASE UNCHANGED vars
  BY <1>16, SteadyKept DEF vars, chosen
<1>. QED
  BY <1>1, <1>2, <1>3, <1>4, <1>5, <1>6, <1>7, <1>8, <1>9, <1>10, <1>11, <1>12, <1>13,
     <1>14, <1>15, <1>16 DEF Next, Starts, Proceeds

\* After a change of the password only the logins that were under way, and a sign-out
\* cut short, leave a session or a hash of an older one (lib/auth/users.ts:102-129).
THEOREM PasswordHolds == Spec => []PasswordChangeHolds
<1>1. Steady => PasswordChangeHolds
  BY DEF Steady
<1>. QED
  BY <1>1, TypeInit, TypeNext, SteadyInit, SteadyNext, PTL DEF Spec

-----------------------------------------------------------------------------
(* Counting failures *)

\* One call leaves the set of those that owe, or try: the set loses at most one.
LEMMA OneLess ==
    ASSUME NEW S, NEW T, NEW c, IsFiniteSet(S), c \in S, T = S \ {c}
    PROVE  Cardinality(T) = Cardinality(S) - 1
BY FS_RemoveElement

LEMMA OneMore ==
    ASSUME NEW S, NEW T, NEW c, IsFiniteSet(S), c \notin S, T = S \cup {c}
    PROVE  Cardinality(T) = Cardinality(S) + 1
BY FS_AddElement

\* Sets of calls are finite, and a call that tries owes nothing yet.
LEMMA FewCalls ==
    /\ IsFiniteSet(Calls) /\ Cardinality(Calls) \in Nat
    /\ IsFiniteSet(Trying) /\ Cardinality(Trying) \in Nat
    /\ Cardinality(Trying) <= Cardinality(Calls)
    /\ \A s \in Scopes : IsFiniteSet(Owing(s)) /\ Cardinality(Owing(s)) \in Nat
    /\ \A s \in Scopes, c \in Calls : At(c, "idle") =>
          Cardinality(Owing(s)) + Cardinality(Trying) < Cardinality(Calls)
<1>1. IsFiniteSet(Calls) /\ Trying \in SUBSET Calls /\ \A s : Owing(s) \in SUBSET Calls
  BY FiniteAssumption DEF Trying, Owing
<1>2. IsFiniteSet(Trying) /\ Cardinality(Trying) <= Cardinality(Calls)
  BY <1>1, FS_Subset
<1>3. \A s \in Scopes : IsFiniteSet(Owing(s))
  BY <1>1, FS_Subset
<1>4. ASSUME NEW s \in Scopes, NEW c \in Calls, At(c, "idle")
      PROVE  Cardinality(Owing(s)) + Cardinality(Trying) < Cardinality(Calls)
  <2>1. Owing(s) \cap Trying = {} /\ c \notin Owing(s) \cup Trying
    BY <1>4 DEF Owing, Trying, At
  <2>2. /\ IsFiniteSet(Owing(s) \cup Trying)
        /\ Cardinality(Owing(s) \cup Trying)
             = Cardinality(Owing(s)) + Cardinality(Trying) - Cardinality({})
    BY <1>2, <1>3, <2>1, FS_Union
  <2>3. Cardinality((Owing(s) \cup Trying) \cup {c}) = Cardinality(Owing(s) \cup Trying) + 1
    BY <2>1, <2>2, FS_AddElement
  <2>4. (Owing(s) \cup Trying) \cup {c} \in SUBSET Calls
    BY <1>1
  <2>5. Cardinality((Owing(s) \cup Trying) \cup {c}) <= Cardinality(Calls)
    BY <1>1, <2>4, FS_Subset
  <2>6. Cardinality(Owing(s)) \in Nat /\ Cardinality(Trying) \in Nat
        /\ Cardinality(Calls) \in Nat
    BY <1>1, <1>2, <1>3, FS_CardinalityType
  <2>. QED
    BY <2>2, <2>3, <2>5, <2>6, FS_EmptySet
<1>. QED
  BY <1>1, <1>2, <1>3, <1>4, FS_CardinalityType

\* The same for the sets of the next state.
LEMMA FewCallsNext ==
    /\ Cardinality(Trying') \in Nat /\ Cardinality(Trying') <= Cardinality(Calls)
    /\ \A s \in Scopes : Cardinality(Owing(s)') \in Nat
<1>1. IsFiniteSet(Calls) /\ Trying' \in SUBSET Calls /\ \A s : Owing(s)' \in SUBSET Calls
  BY FiniteAssumption DEF Trying, Owing
<1>2. IsFiniteSet(Trying') /\ Cardinality(Trying') <= Cardinality(Calls)
  BY <1>1, FS_Subset
<1>3. \A s \in Scopes : IsFiniteSet(Owing(s)')
  BY <1>1, FS_Subset
<1>. QED
  BY <1>2, <1>3, FS_CardinalityType

\* A call that neither owes nor tries, before and after, changes no count.
LEMMA CountedKept ==
    ASSUME Counted, UNCHANGED <<failures, tries, lost>>,
           \A c \in Calls : \/ call'[c] = call[c]
                            \/ {call[c].pc, call'[c].pc} \cap {"record", "verify"} = {}
    PROVE  Counted'
<1>1. Trying' = Trying
  BY DEF Trying, At
<1>2. \A s : Owing(s)' = Owing(s)
  BY DEF Owing, At
<1>. QED
  BY <1>1, <1>2 DEF Counted

LEMMA CountedInit == Init => Counted
<1> SUFFICES ASSUME Init, NEW s \in Scopes
             PROVE  /\ tries[s] <= failures[s] + lost[s] + Cardinality(Owing(s))
                    /\ tries[s] + Cardinality(Trying)
                         < MaxAttempts + Cardinality(Calls) + lost[s]
  BY DEF Counted
<1>1. tries[s] = 0 /\ failures[s] = 0 /\ lost[s] = 0
  BY DEF Init
<1>. QED
  BY <1>1, FewCalls, LimitsAssumption

LEMMA CountedNext == TypeOK /\ Counted /\ [Next]_vars => Counted'
<1> SUFFICES ASSUME TypeOK, Counted, [Next]_vars PROVE Counted'
  OBVIOUS
<1>. USE LimitsAssumption
<1>0. /\ Cardinality(Calls) \in Nat /\ Cardinality(Trying) \in Nat
      /\ \A s \in Scopes : /\ tries[s] \in Nat /\ failures[s] \in Nat /\ lost[s] \in Nat
                           /\ Cardinality(Owing(s)) \in Nat
  BY FewCalls DEF TypeOK
<1>1. ASSUME NEW c \in Calls, NEW w \in Passwords, LoginCheck(c, w) PROVE Counted'
  <2>1. /\ \A d \in Calls \ {c} : call'[d] = call[d]
        /\ At(c, "idle") /\ call'[c].pc = "verify"
        /\ UNCHANGED <<failures, tries, lost>>
    BY <1>1 DEF LoginCheck, Begin, Idle, throttle, TypeOK
  <2>2. Trying' = Trying \cup {c} /\ c \notin Trying
    BY <2>1 DEF Trying, At
  <2>3. \A s : Owing(s)' = Owing(s)
    BY <2>1 DEF Owing, At
  <2>4. Cardinality(Trying') = Cardinality(Trying) + 1
    BY <2>2, OneMore, FewCalls
  <2>5. \A s \in Scopes : failures[s] < MaxAttempts
    BY <1>0, <1>1 DEF LoginCheck, Blocked
  <2>6. \A s \in Scopes : Cardinality(Owing(s)) + Cardinality(Trying) < Cardinality(Calls)
    BY <2>1, FewCalls
  <2>. QED
    BY <1>0, <2>1, <2>3, <2>4, <2>5, <2>6 DEF Counted
<1>2. ASSUME NEW c \in Calls, LoginVerify(c) PROVE Counted'
  <2>1. /\ \A d \in Calls \ {c} : call'[d] = call[d]
        /\ call[c].pc = "verify" /\ UNCHANGED <<failures, lost>>
    BY <1>2 DEF LoginVerify, Begin, Goto, At, TypeOK
  <2>2. call'[c].pc # "verify"
    <3>1. [Idle EXCEPT !.pc = "record", !.todo = Scopes].pc = "record"
      BY DEF Idle
    <3>2. \A pc : [call EXCEPT ![c].pc = pc][c].pc = pc
      BY DEF TypeOK, Call
    <3>3. \/ call'[c].pc = "record" \/ call'[c].pc \in {"rehash", "clear"}
      BY <1>2, <3>1, <3>2 DEF LoginVerify, Begin, Goto, TypeOK
    <3>. QED
      BY <3>3
  <2>3. Trying' = Trying \ {c} /\ c \in Trying
    BY <2>1, <2>2 DEF Trying, At
  <2>4. Cardinality(Trying') = Cardinality(Trying) - 1
    BY <2>3, OneLess, FewCalls
  <2>5. CASE hash.password = call[c].with
    <3>1. call'[c].pc # "record" /\ UNCHANGED tries
      BY <1>2, <2>5 DEF LoginVerify, Goto, TypeOK, Call
    <3>2. \A s : Owing(s)' = Owing(s)
      BY <2>1, <3>1 DEF Owing, At
    <3>. QED
      BY <1>0, <2>1, <2>4, <3>1, <3>2 DEF Counted
  <2>6. CASE hash.password # call[c].with
    <3>1. /\ call'[c].pc = "record" /\ call'[c].todo = Scopes
          /\ tries' = [s \in Scopes |-> tries[s] + 1]
      <4>1. LET n == [Idle EXCEPT !.pc = "record", !.todo = Scopes]
            IN  n.pc = "record" /\ n.todo = Scopes
        BY DEF Idle
      <4>. QED
        BY <1>2, <2>6, <4>1 DEF LoginVerify, Begin, TypeOK
    <3>2. ASSUME NEW s \in Scopes PROVE Cardinality(Owing(s)') = Cardinality(Owing(s)) + 1
      <4>1. Owing(s)' = Owing(s) \cup {c} /\ c \notin Owing(s)
        BY <2>1, <3>1 DEF Owing, At
      <4>. QED
        BY <4>1, OneMore, FewCalls
    <3>. QED
      BY <1>0, <2>1, <2>4, <3>1, <3>2 DEF Counted
  <2>. QED
    BY <2>5, <2>6
<1>3. ASSUME NEW c \in Calls, NEW s \in Scopes, Increment(c, s) PROVE Counted'
  <2>1. /\ \A d \in Calls \ {c} : call'[d] = call[d]
        /\ call[c].pc = "record" /\ s \in call[c].todo
        /\ failures' = [failures EXCEPT ![s] = @ + 1] /\ UNCHANGED <<tries, lost>>
    BY <1>3 DEF Increment, Recorded, Begin, At, TypeOK
  <2>2. PICK toArm : Recorded(c, call[c].todo \ {s}, toArm)
    BY <1>3 DEF Increment
  <2>3. /\ call'[c].pc \in {"record", "idle"}
        /\ \A q : call'[c].pc = "record" /\ q \in call'[c].todo <=> q \in call[c].todo \ {s}
    BY <2>1, <2>2 DEF Recorded, Begin, Idle, TypeOK, Call
  <2>4. Trying' = Trying
    BY <2>1, <2>3 DEF Trying, At
  <2>5. \A q \in Scopes \ {s} : Owing(q)' = Owing(q)
    BY <2>1, <2>3 DEF Owing, At
  <2>6. Owing(s)' = Owing(s) \ {c} /\ c \in Owing(s)
    BY <2>1, <2>3 DEF Owing, At
  <2>7. Cardinality(Owing(s)') = Cardinality(Owing(s)) - 1
    BY <2>6, OneLess, FewCalls
  <2>8. /\ failures'[s] = failures[s] + 1
        /\ \A q \in Scopes \ {s} : failures'[q] = failures[q]
    BY <2>1 DEF TypeOK
  <2>. QED
    BY <1>0, <2>1, <2>4, <2>5, <2>7, <2>8 DEF Counted
<1>4. ASSUME NEW c \in Calls, NEW s \in Scopes, Arm(c, s) PROVE Counted'
  <2>1. /\ \A d \in Calls \ {c} : call'[d] = call[d]
        /\ call[c].pc = "record" /\ UNCHANGED <<failures, tries, lost>>
    BY <1>4 DEF Arm, Recorded, Begin, At, TypeOK
  <2>2. PICK toArm : Recorded(c, call[c].todo, toArm)
    BY <1>4 DEF Arm
  <2>3. /\ call'[c].pc \in {"record", "idle"}
        /\ \A q : call'[c].pc = "record" /\ q \in call'[c].todo <=> q \in call[c].todo
    BY <2>1, <2>2 DEF Recorded, Begin, Idle, TypeOK, Call
  <2>4. Trying' = Trying
    BY <2>1, <2>3 DEF Trying, At
  <2>5. \A q : Owing(q)' = Owing(q)
    BY <2>1, <2>3 DEF Owing, At
  <2>. QED
    BY <2>1, <2>4, <2>5 DEF Counted
<1>5. ASSUME NEW c \in Calls, ClearLoginFailures(c) PROVE Counted'
  <2>1. \A s \in Scopes : tries'[s] = 0 /\ failures'[s] = 0 /\ lost'[s] = 0
    BY <1>5 DEF ClearLoginFailures
  <2>. QED
    BY <1>0, <2>1, FewCallsNext DEF Counted
<1>6. ASSUME NEW c \in Calls, Fails(c) PROVE Counted'
  <2>1. /\ \A d \in Calls \ {c} : call'[d] = call[d]
        /\ call'[c].pc = "idle" /\ UNCHANGED <<failures, tries>>
        /\ lost' = [s \in Scopes |-> IF s \in call[c].todo THEN lost[s] + 1 ELSE lost[s]]
    BY <1>6 DEF Fails, Answer, Begin, Idle, TypeOK
  <2>2. Trying' = Trying \ {c}
    BY <2>1 DEF Trying, At
  <2>3. Cardinality(Trying') <= Cardinality(Trying)
    <3>1. Cardinality(Trying') = IF c \in Trying THEN Cardinality(Trying) - 1
                                                ELSE Cardinality(Trying)
      BY <2>2, FewCalls, FS_RemoveElement
    <3>. QED
      BY <1>0, <3>1
  <2>4. ASSUME NEW s \in Scopes
        PROVE  lost[s] + Cardinality(Owing(s)) <= lost'[s] + Cardinality(Owing(s)')
    <3>1. Owing(s)' = Owing(s) \ {c}
      BY <2>1 DEF Owing, At
    <3>2. Cardinality(Owing(s)') = IF c \in Owing(s) THEN Cardinality(Owing(s)) - 1
                                                     ELSE Cardinality(Owing(s))
      BY <3>1, FewCalls, FS_RemoveElement
    <3>3. c \in Owing(s) => lost'[s] = lost[s] + 1
      BY <2>1 DEF Owing
    <3>4. lost'[s] \in {lost[s], lost[s] + 1}
      BY <2>1
    <3>. QED
      BY <1>0, <3>2, <3>3, <3>4
  <2>5. \A s \in Scopes : lost'[s] \in Nat /\ lost[s] <= lost'[s]
    BY <1>0, <2>1
  <2>. QED
    BY <1>0, <2>1, <2>3, <2>4, <2>5, FewCallsNext DEF Counted
<1>7. CASE Tick
  <2>1. Trying' = Trying /\ \A s : Owing(s)' = Owing(s)
    BY <1>7 DEF Tick, Trying, Owing, At
  <2>2. \A s \in Scopes :
          \/ tries'[s] = 0 /\ failures'[s] = 0 /\ lost'[s] = 0
          \/ tries'[s] = tries[s] /\ failures'[s] = failures[s] /\ lost'[s] = lost[s]
    BY <1>7 DEF Tick
  <2>3. Cardinality(Trying) < MaxAttempts + Cardinality(Calls)
    BY <1>0, FewCalls
  <2>. QED
    BY <1>0, <2>1, <2>2, <2>3 DEF Counted
<1>8. ASSUME NEW c \in Calls,
             \/ Rehash(c) \/ RenewSession(c) \/ DropExpired(c) \/ UpdateHash(c)
             \/ DestroyAllSessions(c)
             \/ \E k \in Cookies : Resolve(c, k) \/ CreateSession(c, k)
             \/ \E w \in Passwords : CreateUser(c, w) \/ SetPassword(c, w)
             \/ \E k \in Cookies, w \in Passwords : ChangePassword(c, k, w)
      PROVE  Counted'
  <2>1. UNCHANGED <<failures, tries, lost>>
    BY <1>8 DEF Rehash, RenewSession, DropExpired, UpdateHash, DestroyAllSessions, Resolve,
       CreateSession, CreateUser, SetPassword, ChangePassword, throttle
  <2>2. CASE UpdateHash(c)
    <3>1. \A d \in Calls : \/ call'[d] = call[d]
                           \/ {call[d].pc, call'[d].pc} \cap {"record", "verify"} = {}
      BY <2>2 DEF UpdateHash, Verified, At, Idle, TypeOK, Call
    <3>. QED
      BY <2>1, <3>1, CountedKept
  <2>3. CASE ~UpdateHash(c)
    <3>1. \A d \in Calls \ {c} : call'[d] = call[d]
      BY <1>8, <2>3 DEF Rehash, RenewSession, DropExpired, DestroyAllSessions, Resolve,
         CreateSession, CreateUser, SetPassword, ChangePassword, Answer, Begin, Goto, TypeOK
    <3>2. call[c].pc \notin {"record", "verify"}
      BY <1>8, <2>3 DEF Rehash, RenewSession, DropExpired, DestroyAllSessions, Resolve,
         CreateSession, CreateUser, SetPassword, ChangePassword, At
    <3>3. \/ Goto(c, "clear")
          \/ \E next \in Call : next.pc \notin {"record", "verify"} /\ Begin(c, next)
      <4>1. /\ Idle \in Call /\ Idle.pc = "idle"
        BY DEF Idle, Call, Pcs
      <4>2. CASE Rehash(c)
        BY <4>2 DEF Rehash
      <4>3. CASE \E k \in Cookies : Resolve(c, k)
        <5>1. PICK k \in Cookies, pc \in {"drop", "renew"} :
                 Begin(c, [Idle EXCEPT !.pc = pc, !.cookie = k])
          BY <4>3 DEF Resolve
        <5>2. /\ [Idle EXCEPT !.pc = pc, !.cookie = k] \in Call
              /\ [Idle EXCEPT !.pc = pc, !.cookie = k].pc = pc
          BY DEF Idle, Call, Pcs
        <5>. QED
          BY <5>1, <5>2
      <4>4. CASE \/ RenewSession(c) \/ DropExpired(c) \/ DestroyAllSessions(c)
                 \/ \E k \in Cookies : CreateSession(c, k)
        BY <4>1, <4>4 DEF RenewSession, DropExpired, DestroyAllSessions, CreateSession, Answer
      <4>5. CASE \/ \E w \in Passwords : CreateUser(c, w) \/ SetPassword(c, w)
                 \/ \E k \in Cookies, w \in Passwords : ChangePassword(c, k, w)
        <5>1. PICK w \in Passwords, pc \in {"open", "update"} :
                 Begin(c, [Idle EXCEPT !.pc = pc, !.with = w])
          BY <4>5 DEF CreateUser, SetPassword, ChangePassword
        <5>2. /\ [Idle EXCEPT !.pc = pc, !.with = w] \in Call
              /\ [Idle EXCEPT !.pc = pc, !.with = w].pc = pc
          BY DEF Idle, Call, Pcs
        <5>. QED
          BY <5>1, <5>2
      <4>. QED
        BY <1>8, <2>3, <4>2, <4>3, <4>4, <4>5
    <3>4. call'[c].pc \notin {"record", "verify"}
      <4>1. CASE Goto(c, "clear")
        BY <4>1 DEF Goto, TypeOK, Call
      <4>2. CASE \E next \in Call : next.pc \notin {"record", "verify"} /\ Begin(c, next)
        BY <4>2 DEF Begin, TypeOK
      <4>. QED
        BY <3>3, <4>1, <4>2
    <3>. QED
      BY <2>1, <3>1, <3>2, <3>4, CountedKept
  <2>. QED
    BY <2>2, <2>3
<1>9. CASE (\E k \in Cookies : Logout(k)) \/ UNCHANGED vars
  BY <1>9, CountedKept DEF Logout, vars, throttle
<1>. QED
  BY <1>1, <1>2, <1>3, <1>4, <1>5, <1>6, <1>7, <1>8, <1>9 DEF Next, Starts, Proceeds

\* The wrong passwords of one window are fewer than the limit and the calls served at a
\* time together, but for those a count was never told of (lib/auth/loginThrottle.ts:20-49).
THEOREM FailuresHold == Spec => []FailuresBounded
<1>1. TypeOK /\ Counted => FailuresBounded
  <2> SUFFICES ASSUME TypeOK, Counted, NEW s \in Scopes
               PROVE  tries[s] < MaxAttempts + Cardinality(Calls) + lost[s]
    BY DEF FailuresBounded
  <2>1. /\ tries[s] \in Nat /\ lost[s] \in Nat /\ Cardinality(Calls) \in Nat
        /\ Cardinality(Trying) \in Nat
    BY FewCalls DEF TypeOK
  <2>. QED
    BY <2>1, LimitsAssumption DEF Counted
<1>. QED
  BY <1>1, TypeInit, TypeNext, CountedInit, CountedNext, PTL DEF Spec
=============================================================================
