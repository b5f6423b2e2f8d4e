------------------------------- MODULE Access --------------------------------
(***************************************************************************)
(* Signing in: one user's password, the sessions it opens, and the count   *)
(* of failed logins that throttles them (lib/auth/users.ts, session.ts,    *)
(* loginThrottle.ts, password.ts, app/api/auth).  The password lives in    *)
(* Postgres and the counts in Redis; each action is one call to either, so *)
(* logins, changes of the password and resolved cookies interleave.        *)
(*                                                                         *)
(* Abstracted: hashing (a hash is the password it was made from, and       *)
(* whether its parameters are old), the rules on what a password looks     *)
(* like, API tokens (rows by themselves), the limit on registrations.      *)
(***************************************************************************)
EXTENDS Naturals, FiniteSets

CONSTANTS
    Calls,          \* calls served at a time
    Cookies,        \* tokens a session can have
    Passwords,
    None,           \* no password, no cookie
    Scopes,         \* what failures are counted by: "email", "ip"
    MaxAttempts,    \* MAX_ATTEMPTS
    Window,         \* WINDOW_SECONDS, in ticks
    Ttl,            \* SESSION_TTL_MS, in ticks
    Renew,          \* RENEW_WHEN_REMAINING_MS, in ticks
    MaxChanges,     \* bound: changes of the password
    MaxFaults       \* bound: calls cut short

ASSUME NoneAssumption == None \notin Passwords \cup Cookies
ASSUME LimitsAssumption ==
    /\ MaxAttempts \in Nat \ {0} /\ Window \in Nat \ {0}
    /\ Ttl \in Nat \ {0} /\ Renew \in 1 .. Ttl
    /\ MaxChanges \in Nat /\ MaxFaults \in Nat
ASSUME FiniteAssumption == IsFiniteSet(Calls)

VARIABLES
    hash,       \* the stored hash: its password, and whether needsRehash
    call,       \* calls under way
    session,    \* the rows of the sessions
    failures,   \* the counts in Redis
    armed,      \* ticks until Redis drops a count; 0 when it has no expiry
    wanted,     \* history: the password last chosen
    overtaken,  \* history: a rehash under way has put back an older password
    tries,      \* history: wrong passwords since the window began
    lost,       \* history: failures of which a count was never told
    unarmed,    \* history: counts whose expiry was never set
    changes, faults

throttle == <<failures, armed, tries, lost, unarmed>>
chosen == <<hash, wanted, overtaken, changes>>
vars == <<call, session, throttle, chosen, faults>>

-----------------------------------------------------------------------------
(* Values *)

Hash == [password : Passwords \cup {None}, weak : BOOLEAN]

\* `with` is the password it was opened with, and `stale` (history) whether the call
\* that opened it, or the sign-out that should have closed it, was cut into.
Session == [live : BOOLEAN, left : 0 .. Ttl, with : Passwords \cup {None}, stale : BOOLEAN]
NoSession == [live |-> FALSE, left |-> 0, with |-> None, stale |-> FALSE]

Pcs == {"idle", "verify", "record", "rehash", "clear", "open", "update", "destroy",
        "renew", "drop"}

\* `todo` and `toArm` are the counts still to increment, and to give an expiry.
Call == [pc : Pcs, with : Passwords \cup {None}, cookie : Cookies \cup {None},
         todo : SUBSET Scopes, toArm : SUBSET Scopes, stale : BOOLEAN]
Idle == [pc |-> "idle", with |-> None, cookie |-> None, todo |-> {}, toArm |-> {},
         stale |-> FALSE]

At(c, pc) == call[c].pc = pc
Begin(c, next) == call' = [call EXCEPT ![c] = next]
Goto(c, pc) == call' = [call EXCEPT ![c].pc = pc]
Answer(c) == Begin(c, Idle)

-----------------------------------------------------------------------------
(* Logging in *)

\* Mutant: one failure more is let through.
BlockedLate == \E s \in Scopes : failures[s] > MaxAttempts

Blocked == \E s \in Scopes : failures[s] >= MaxAttempts

\* checkLoginThrottle: a count at its limit answers 429.
LoginCheck(c, w) ==
    /\ At(c, "idle")
    /\ ~Blocked
    /\ Begin(c, [Idle EXCEPT !.pc = "verify", !.with = w])
    /\ UNCHANGED <<session, throttle, chosen, faults>>

\* The user is read and the password verified against the hash that was read.
LoginVerify(c) ==
    /\ At(c, "verify")
    /\ IF hash.password = call[c].with
       THEN /\ Goto(c, IF hash.weak THEN "rehash" ELSE "clear")
            /\ UNCHANGED tries
       ELSE /\ Begin(c, [Idle EXCEPT !.pc = "record", !.todo = Scopes])
            /\ tries' = [s \in Scopes |-> tries[s] + 1]
    /\ UNCHANGED <<session, failures, armed, lost, unarmed, chosen, faults>>

\* recordLoginFailure: both counts go up, and the first failure starts the window.
Recorded(c, todo, toArm) ==
    Begin(c, IF todo \cup toArm = {} THEN Idle
             ELSE [call[c] EXCEPT !.todo = todo, !.toArm = toArm])

\* Mutant: the window starts at the second failure.
IncrementLate(c, s) ==
    /\ At(c, "record") /\ s \in call[c].todo
    /\ failures' = [failures EXCEPT ![s] = @ + 1]
    /\ Recorded(c, call[c].todo \ {s},
                IF failures[s] = 1 THEN call[c].toArm \cup {s} ELSE call[c].toArm)
    /\ UNCHANGED <<session, armed, tries, lost, unarmed, chosen, faults>>

Increment(c, s) ==
    /\ At(c, "record") /\ s \in call[c].todo
    /\ failures' = [failures EXCEPT ![s] = @ + 1]
    /\ Recorded(c, call[c].todo \ {s},
                IF failures[s] = 0 THEN call[c].toArm \cup {s} ELSE call[c].toArm)
    /\ UNCHANGED <<session, armed, tries, lost, unarmed, chosen, faults>>

Arm(c, s) ==
    /\ At(c, "record") /\ s \in call[c].toArm
    /\ armed' = IF failures[s] > 0 THEN [armed EXCEPT ![s] = Window] ELSE armed
    /\ unarmed' = unarmed \ {s}
    /\ Recorded(c, call[c].todo, call[c].toArm \ {s})
    /\ UNCHANGED <<session, failures, tries, lost, chosen, faults>>

\* needsRehash: the password just presented is hashed again and written by id.
Rehash(c) ==
    /\ At(c, "rehash")
    /\ hash' = [password |-> call[c].with, weak |-> FALSE]
    /\ overtaken' = (call[c].with # wanted)
    /\ Goto(c, "clear")
    /\ UNCHANGED <<session, throttle, wanted, changes, faults>>

ClearLoginFailures(c) ==
    /\ At(c, "clear")
    /\ failures' = [s \in Scopes |-> 0] /\ armed' = [s \in Scopes |-> 0]
    /\ tries' = [s \in Scopes |-> 0] /\ lost' = [s \in Scopes |-> 0]
    /\ unarmed' = {}
    /\ Goto(c, "open")
    /\ UNCHANGED <<session, chosen, faults>>

\* A fresh token: none that a session or a call still holds.
Unused(k) == ~session[k].live /\ \A c \in Calls : call[c].cookie # k

CreateSession(c, k) ==
    /\ At(c, "open") /\ Unused(k)
    /\ session' = [session EXCEPT ![k] =
            [live |-> TRUE, left |-> Ttl, with |-> call[c].with, stale |-> call[c].stale]]
    /\ Answer(c)
    /\ UNCHANGED <<throttle, chosen, faults>>

-----------------------------------------------------------------------------
(* Cookies *)

Destroy(k) == session' = [session EXCEPT ![k] = NoSession]

\* resolveSessionToken: what it found decides; the write comes after.
Resolve(c, k) ==
    /\ At(c, "idle")
    /\ session[k].live /\ session[k].left < Renew
    /\ Begin(c, [Idle EXCEPT !.pc = IF session[k].left = 0 THEN "drop" ELSE "renew",
                             !.cookie = k])
    /\ UNCHANGED <<session, throttle, chosen, faults>>

\* Mutant: the new life is added to what was left.
RenewAdds(c) ==
    LET k == call[c].cookie IN
    /\ At(c, "renew")
    /\ session' = IF session[k].live THEN [session EXCEPT ![k].left = @ + Ttl] ELSE session
    /\ Answer(c)
    /\ UNCHANGED <<throttle, chosen, faults>>

RenewSession(c) ==
    LET k == call[c].cookie IN
    /\ At(c, "renew")
    /\ session' = IF session[k].live THEN [session EXCEPT ![k].left = Ttl] ELSE session
    /\ Answer(c)
    /\ UNCHANGED <<throttle, chosen, faults>>

DropExpired(c) ==
    /\ At(c, "drop")
    /\ Destroy(call[c].cookie)
    /\ Answer(c)
    /\ UNCHANGED <<throttle, chosen, faults>>

Logout(k) ==
    /\ session[k].live
    /\ Destroy(k)
    /\ UNCHANGED <<call, throttle, chosen, faults>>

-----------------------------------------------------------------------------
(* The password *)

\* createUserWithPassword: the email is unique; who registers is signed in at once.
CreateUser(c, w) ==
    /\ At(c, "idle")
    /\ hash.password = None
    /\ hash' = [password |-> w, weak |-> FALSE] /\ wanted' = w
    /\ Begin(c, [Idle EXCEPT !.pc = "open", !.with = w])
    /\ UNCHANGED <<session, throttle, overtaken, changes, faults>>

\* changePassword, by a signed-in caller who gives the current password and another.
ChangePassword(c, k, w) ==
    /\ At(c, "idle") /\ changes < MaxChanges
    /\ session[k].live /\ session[k].left > 0
    /\ w # hash.password
    /\ Begin(c, [Idle EXCEPT !.pc = "update", !.with = w])
    /\ changes' = changes + 1
    /\ UNCHANGED <<session, throttle, hash, wanted, overtaken, faults>>

\* setPassword, by the operator's script: the current one is not asked for.
SetPassword(c, w) ==
    /\ At(c, "idle") /\ changes < MaxChanges
    /\ hash.password # None
    /\ Begin(c, [Idle EXCEPT !.pc = "update", !.with = w])
    /\ changes' = changes + 1
    /\ UNCHANGED <<session, throttle, hash, wanted, overtaken, faults>>

\* The logins past their verification go on with the password they verified.
Verified(c) == call[c].pc \in {"rehash", "clear", "open"}

\* Mutant: the sessions are left as they are.
UpdateOnly(c) ==
    /\ At(c, "update")
    /\ hash' = [password |-> call[c].with, weak |-> FALSE]
    /\ wanted' = call[c].with /\ overtaken' = FALSE
    /\ call' = [d \in Calls |->
            IF d = c THEN Idle
            ELSE IF Verified(d) THEN [call[d] EXCEPT !.stale = TRUE] ELSE call[d]]
    /\ UNCHANGED <<session, throttle, changes, faults>>

UpdateHash(c) ==
    /\ At(c, "update")
    /\ hash' = [password |-> call[c].with, weak |-> FALSE]
    /\ wanted' = call[c].with /\ overtaken' = FALSE
    /\ call' = [d \in Calls |->
            IF d = c THEN [Idle EXCEPT !.pc = "destroy"]
            ELSE IF Verified(d) THEN [call[d] EXCEPT !.stale = TRUE] ELSE call[d]]
    /\ UNCHANGED <<session, throttle, changes, faults>>

DestroyAllSessions(c) ==
    /\ At(c, "destroy")
    /\ session' = [k \in Cookies |-> NoSession]
    /\ Answer(c)
    /\ UNCHANGED <<throttle, chosen, faults>>

-----------------------------------------------------------------------------
(* Failures, and time *)

\* Redis or the database refuses, or the app stops: the call ends where it is.
Fails(c) ==
    /\ ~At(c, "idle") /\ faults < MaxFaults
    /\ faults' = faults + 1
    /\ Answer(c)
    /\ lost' = [s \in Scopes |-> IF s \in call[c].todo THEN lost[s] + 1 ELSE lost[s]]
    /\ unarmed' = unarmed \cup {s \in call[c].toArm : failures[s] > 0}
    /\ session' = IF At(c, "destroy")
                  THEN [k \in Cookies |-> [session[k] EXCEPT !.stale = session[k].live]]
                  ELSE session
    /\ UNCHANGED <<failures, armed, tries, chosen>>

Expires(s) == armed[s] = 1

Tick ==
    /\ armed' = [s \in Scopes |-> IF armed[s] > 0 THEN armed[s] - 1 ELSE 0]
    /\ failures' = [s \in Scopes |-> IF Expires(s) THEN 0 ELSE failures[s]]
    /\ tries' = [s \in Scopes |-> IF Expires(s) THEN 0 ELSE tries[s]]
    /\ lost' = [s \in Scopes |-> IF Expires(s) THEN 0 ELSE lost[s]]
    /\ session' = [k \in Cookies |->
            IF session[k].left > 0 THEN [session[k] EXCEPT !.left = @ - 1] ELSE session[k]]
    /\ UNCHANGED <<call, unarmed, chosen, faults>>

-----------------------------------------------------------------------------
(* The specification *)

Init ==
    /\ hash \in [password : Passwords \cup {None}, weak : BOOLEAN]
    /\ hash.weak => hash.password # None
    /\ wanted = hash.password /\ overtaken = FALSE
    /\ call = [c \in Calls |-> Idle]
    /\ session = [k \in Cookies |-> NoSession]
    /\ failures = [s \in Scopes |-> 0] /\ armed = [s \in Scopes |-> 0]
    /\ tries = [s \in Scopes |-> 0] /\ lost = [s \in Scopes |-> 0]
    /\ unarmed = {} /\ changes = 0 /\ faults = 0

Starts(c) ==
    \/ \E w \in Passwords : LoginCheck(c, w) \/ CreateUser(c, w) \/ SetPassword(c, w)
    \/ \E k \in Cookies : Resolve(c, k) \/ \E w \in Passwords : ChangePassword(c, k, w)

Proceeds(c) ==
    \/ LoginVerify(c)
    \/ \E s \in Scopes : Increment(c, s) \/ Arm(c, s)
    \/ Rehash(c) \/ ClearLoginFailures(c)
    \/ \E k \in Cookies : CreateSession(c, k)
    \/ RenewSession(c) \/ DropExpired(c)
    \/ UpdateHash(c) \/ DestroyAllSessions(c)

Next ==
    \/ \E c \in Calls : Starts(c) \/ Proceeds(c) \/ Fails(c)
    \/ \E k \in Cookies : Logout(k)
    \/ Tick

Spec == Init /\ [][Next]_vars

\* A call that is not cut short goes on, and the clock of Redis runs.
Fairness == WF_vars(Tick) /\ \A c \in Calls : WF_vars(Proceeds(c))
FairSpec == Spec /\ Fairness

-----------------------------------------------------------------------------
(* Properties *)

\* Type correctness: a session is never given more than its term (lib/auth/session.ts:101-106).
TypeOK ==
    /\ hash \in Hash /\ wanted \in Passwords \cup {None}
    /\ call \in [Calls -> Call]
    /\ session \in [Cookies -> Session]
    /\ failures \in [Scopes -> Nat] /\ armed \in [Scopes -> 0 .. Window]
    /\ tries \in [Scopes -> Nat] /\ lost \in [Scopes -> Nat]
    /\ unarmed \subseteq Scopes /\ overtaken \in BOOLEAN
    /\ changes \in 0 .. MaxChanges /\ faults \in 0 .. MaxFaults

\* Once a new password is stored and the sign-out done, the stored hash is of that
\* password and every session was opened with it, except by a login that had verified
\* the old one before the change and goes on after it: its rehash puts the old password
\* back, its session stays (lib/auth/users.ts:102-129, app/api/auth/login/route.ts:55-75).
PasswordChangeHolds ==
    \/ overtaken
    \/ /\ hash.password = wanted
       /\ \A k \in Cookies : session[k].live =>
            \/ session[k].with = wanted \/ session[k].stale
            \/ \E c \in Calls : At(c, "destroy")

\* Between two windows, the wrong passwords that are tried stay under the limit but for
\* the calls that passed the check together, and those a count was never told of
\* (lib/auth/loginThrottle.ts:20-49).
FailuresBounded ==
    \A s \in Scopes : tries[s] < MaxAttempts + Cardinality(Calls) + lost[s]

\* A count of failures goes back to nothing, whatever the trickle of attempts, unless a
\* call stopped between counting the first one and setting the expiry (:35-49).
WindowEnds == \A s \in Scopes : failures[s] > 0 ~> (failures[s] = 0 \/ s \in unarmed)
=============================================================================
