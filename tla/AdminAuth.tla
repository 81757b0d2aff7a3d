----------------------------- MODULE AdminAuth -----------------------------
(***************************************************************************)
(* The admin password, the sessions it opens and the event streams that    *)
(* run on a session: verify_admin_password, set_admin_password and the     *)
(* session map of src/state.rs, src/login.rs, and sse_events of            *)
(* src/admin.rs.                                                           *)
(*                                                                         *)
(* A login verifies under the read lock, re-hashes a legacy credential     *)
(* under a later write lock, then makes its session.  A session token is   *)
(* random, so the login that made it stands for it.  What is saved of a    *)
(* change is in StatePersist, how often a client may try in RateLimiter.   *)
(***************************************************************************)
EXTENDS Naturals

CONSTANTS Passwords,
          Logins,   \* login requests
          Edits,    \* requests that change the password
          Streams,  \* event streams
          Nobody,
          Ttl,      \* SESSION_TTL, 12 hours
          Recheck,  \* 15 seconds: the recheck of a stream, and its idle timeout
          MaxNow    \* bound: how far the clock runs

ASSUME AuthAssumption ==
    /\ Passwords # {}
    /\ Nobody \notin Logins \cup Passwords
    /\ {Ttl, Recheck} \subseteq Nat \ {0}
    /\ MaxNow \in Nat

VARIABLES
    now,
    admin,     \* Inner.admin: the password it verifies, and whether it is legacy
    sessions,  \* App.sessions: for each login that has one, when it expires
    step,      \* how far a login has come
    given,     \* the password a login gave
    edit,      \* a change: how far it has come, the current password it gave, the new one
    phase,     \* a stream: idle, waiting for an event, with one yielded, closed
    token,     \* the session of a stream
    checked,   \* last_check of a stream
    since,     \* when a stream began to wait
    chosen,    \* history: the password that was chosen last
    stale,     \* history: logins that had verified a password that was then changed
    until      \* history: when the session of a login is over, by time or by logout

login   == <<step, given>>
stream  == <<phase, token, checked, since>>
authVars == <<now, admin, sessions, login, edit, stream, chosen, stale, until>>

Live(l) == l \in DOMAIN sessions /\ sessions[l] > now

\* Expired sessions go whenever one is looked up or made.
Kept == [l \in {k \in DOMAIN sessions : Live(k)} |-> sessions[l]]

\* A request of the console passes require_admin: a password is always set.
Gate(l) ==
    /\ Live(l)
    /\ sessions' = Kept

-----------------------------------------------------------------------------
AuthInit ==
    /\ now = 0
    /\ admin \in [pw : Passwords, legacy : BOOLEAN]
    /\ sessions = <<>>
    /\ step = [l \in Logins |-> "idle"] /\ given = [l \in Logins |-> Nobody]
    /\ edit = [e \in Edits |-> [at |-> "idle", old |-> Nobody, new |-> Nobody]]
    /\ phase = [s \in Streams |-> "idle"] /\ token = [s \in Streams |-> Nobody]
    /\ checked = [s \in Streams |-> 0] /\ since = [s \in Streams |-> 0]
    /\ chosen = admin.pw
    /\ stale = {}
    /\ until = [l \in Logins |-> 0]

\* A stream that waits yields a ping when its time is up.
Tick ==
    /\ now < MaxNow
    /\ \A s \in Streams : phase[s] = "waiting" => now < since[s] + Recheck
    /\ now' = now + 1
    /\ UNCHANGED <<admin, sessions, login, edit, stream, chosen, stale, until>>

-----------------------------------------------------------------------------
(* Logins.                                                                 *)

\* Mutant of Verify: whoever tries against a legacy credential has it re-hashed.
VerifyLegacyFirst(l) ==
    /\ step[l] = "idle"
    /\ \E p \in Passwords :
        /\ given' = [given EXCEPT ![l] = p]
        /\ step' = [step EXCEPT ![l] = IF admin.legacy THEN "legacy"
                                       ELSE IF p = admin.pw THEN "verified" ELSE "refused"]
    /\ UNCHANGED <<now, admin, sessions, edit, stream, chosen, stale, until>>

\* Under the read lock.
Verify(l) ==
    /\ step[l] = "idle"
    /\ \E p \in Passwords :
        /\ given' = [given EXCEPT ![l] = p]
        /\ step' = [step EXCEPT ![l] = IF p # admin.pw THEN "refused"
                                       ELSE IF admin.legacy THEN "legacy" ELSE "verified"]
    /\ UNCHANGED <<now, admin, sessions, edit, stream, chosen, stale, until>>

\* Under the write lock, later: whatever is there becomes the hash of what the
\* login gave.  The save follows.
Upgrade(l) ==
    /\ step[l] = "legacy"
    /\ step' = [step EXCEPT ![l] = "saving"]
    /\ admin' = [pw |-> given[l], legacy |-> FALSE]
    /\ UNCHANGED <<now, sessions, given, edit, stream, chosen, stale, until>>

\* create_session.
Open(l) ==
    /\ step[l] \in {"verified", "saving"}
    /\ step' = [step EXCEPT ![l] = "done"]
    /\ sessions' = [k \in DOMAIN Kept \cup {l} |-> IF k = l THEN now + Ttl ELSE Kept[k]]
    /\ until' = [until EXCEPT ![l] = now + Ttl]
    /\ UNCHANGED <<now, admin, given, edit, stream, chosen, stale>>

\* The client leaves while the login awaits the write lock or the save.
Leave(l) ==
    /\ step[l] \in {"legacy", "saving"}
    /\ step' = [step EXCEPT ![l] = "gone"]
    /\ UNCHANGED <<now, admin, sessions, given, edit, stream, chosen, stale, until>>

\* Not gated: a session that is over may be dropped too.
Logout(l) ==
    /\ l \in DOMAIN sessions
    /\ sessions' = [k \in DOMAIN sessions \ {l} |-> sessions[k]]
    /\ until' = [until EXCEPT ![l] = IF Live(l) THEN now ELSE sessions[l]]
    /\ UNCHANGED <<now, admin, login, edit, stream, chosen, stale>>

-----------------------------------------------------------------------------
(* Changes of the password.                                                *)

EditBegin(e) ==
    /\ edit[e].at = "idle"
    /\ \E l \in Logins : Gate(l)
    /\ \E p, q \in Passwords : edit' = [edit EXCEPT ![e] = [at |-> "gated", old |-> p, new |-> q]]
    /\ UNCHANGED <<now, admin, login, stream, chosen, stale, until>>

Ended(e, at) == edit' = [edit EXCEPT ![e] = [at |-> at, old |-> edit[e].old, new |-> edit[e].new]]

\* Mutant of EditApply: the session is enough.
EditApplyAnyway(e) ==
    /\ edit[e].at = "gated"
    /\ Ended(e, "done")
    /\ admin' = [pw |-> edit[e].new, legacy |-> FALSE]
    /\ chosen' = edit[e].new
    /\ stale' = stale \cup {l \in Logins : step[l] = "legacy"}
    /\ UNCHANGED <<now, sessions, login, stream, until>>

\* The current password is verified and replaced under one write lock.
EditApply(e) ==
    /\ edit[e].at = "gated"
    /\ edit[e].old = admin.pw
    /\ Ended(e, "done")
    /\ admin' = [pw |-> edit[e].new, legacy |-> FALSE]
    /\ chosen' = edit[e].new
    /\ stale' = stale \cup {l \in Logins : step[l] = "legacy"}
    /\ UNCHANGED <<now, sessions, login, stream, until>>

\* The current password is wrong, the new one too short, or the client leaves.
EditEnds(e) ==
    /\ edit[e].at = "gated"
    /\ Ended(e, "refused")
    /\ UNCHANGED <<now, admin, sessions, login, stream, chosen, stale, until>>

-----------------------------------------------------------------------------
(* The streams of sse_events.                                              *)

StreamOpens(s) ==
    /\ phase[s] = "idle"
    /\ phase' = [phase EXCEPT ![s] = "waiting"]
    /\ \E l \in Logins : Gate(l) /\ token' = [token EXCEPT ![s] = l]
    /\ checked' = [checked EXCEPT ![s] = now]
    /\ since' = [since EXCEPT ![s] = now]
    /\ UNCHANGED <<now, admin, login, edit, chosen, stale, until>>

\* An event comes, or the ping.
StreamYields(s) ==
    /\ phase[s] = "waiting"
    /\ phase' = [phase EXCEPT ![s] = "yielded"]
    /\ UNCHANGED <<now, admin, sessions, login, edit, token, checked, since, chosen, stale, until>>

\* Mutant of StreamLoops: the session is checked after an idle wait only.
StreamLoopsIdle(s) ==
    /\ phase[s] \in {"waiting", "yielded"}
    /\ IF now < since[s] + Recheck
       THEN /\ phase' = [phase EXCEPT ![s] = "waiting"]
            /\ UNCHANGED <<sessions, checked>>
       ELSE /\ sessions' = Kept
            /\ checked' = [checked EXCEPT ![s] = now]
            /\ phase' = [phase EXCEPT ![s] = IF Live(token[s]) THEN "waiting" ELSE "closed"]
    /\ since' = [since EXCEPT ![s] = now]
    /\ UNCHANGED <<now, admin, login, edit, token, chosen, stale, until>>

\* The client has taken the event, or the stream has lagged behind a buffer: the
\* session is checked if it is time to, and the stream waits again.
StreamLoops(s) ==
    /\ phase[s] \in {"waiting", "yielded"}
    /\ IF now < checked[s] + Recheck
       THEN /\ phase' = [phase EXCEPT ![s] = "waiting"]
            /\ UNCHANGED <<sessions, checked>>
       ELSE /\ sessions' = Kept
            /\ checked' = [checked EXCEPT ![s] = now]
            /\ phase' = [phase EXCEPT ![s] = IF Live(token[s]) THEN "waiting" ELSE "closed"]
    /\ since' = [since EXCEPT ![s] = now]
    /\ UNCHANGED <<now, admin, login, edit, token, chosen, stale, until>>

\* The console goes away.
StreamLeaves(s) ==
    /\ phase[s] \in {"waiting", "yielded"}
    /\ phase' = [phase EXCEPT ![s] = "closed"]
    /\ UNCHANGED <<now, admin, sessions, login, edit, token, checked, since, chosen, stale, until>>

-----------------------------------------------------------------------------
LoginStep(l)  == Verify(l) \/ Upgrade(l) \/ Open(l) \/ Leave(l) \/ Logout(l)
EditStep(e)   == EditBegin(e) \/ EditApply(e) \/ EditEnds(e)
StreamStep(s) == StreamOpens(s) \/ StreamYields(s) \/ StreamLoops(s) \/ StreamLeaves(s)

AuthNext ==
    \/ Tick
    \/ \E l \in Logins : LoginStep(l)
    \/ \E e \in Edits : EditStep(e)
    \/ \E s \in Streams : StreamStep(s)

AuthSpec == AuthInit /\ [][AuthNext]_authVars

-----------------------------------------------------------------------------
(* Properties.                                                             *)

\* The values of the variables.
AuthOK ==
    /\ now \in Nat
    /\ admin \in [pw : Passwords, legacy : BOOLEAN] /\ chosen \in Passwords
    /\ DOMAIN sessions \subseteq Logins /\ \A l \in DOMAIN sessions : sessions[l] = until[l]
    /\ step \in [Logins -> {"idle", "refused", "legacy", "verified", "saving", "done", "gone"}]
    /\ given \in [Logins -> Passwords \cup {Nobody}]
    /\ \A l \in Logins : step[l] # "idle" => given[l] \in Passwords
    /\ edit \in [Edits -> [at : {"idle", "gated", "done", "refused"},
                           old : Passwords \cup {Nobody}, new : Passwords \cup {Nobody}]]
    /\ \A e \in Edits : edit[e].at # "idle" => edit[e].new \in Passwords
    /\ phase \in [Streams -> {"idle", "waiting", "yielded", "closed"}]
    /\ token \in [Streams -> Logins \cup {Nobody}]
    /\ checked \in [Streams -> Nat] /\ since \in [Streams -> Nat]
    /\ stale \subseteq Logins /\ until \in [Logins -> Nat]

\* The console opens with the password that was chosen last.  One thing can undo
\* a choice: a login that verified the old password while it was legacy, and
\* re-hashes it after the change (state.rs:970).
PasswordIsChosen ==
    admin.pw = chosen \/ \E l \in stale : admin.pw = given[l] /\ step[l] \in {"saving", "done", "gone"}

\* What the credential verifies changes only by a change that gave the password
\* of before, or by such a login: never by a login that gave a wrong one, and never
\* by two changes that both gave the same password.
OnlyKnowersChange ==
    [][admin'.pw # admin.pw =>
        \/ \E e \in Edits : edit[e].at = "gated" /\ edit[e].old = admin.pw /\ edit'[e].at = "done"
        \/ \E l \in stale : step[l] = "legacy" /\ given[l] = admin'.pw]_authVars

\* A stream yields nothing later than two rechecks after its session was over,
\* however busy or slow it is.
StreamEndsSoon ==
    [][\A s \in Streams : phase[s] = "waiting" /\ phase'[s] = "yielded" =>
        now < until[token[s]] + 2 * Recheck]_authVars

-----------------------------------------------------------------------------
(* The inductive invariant.                                                *)

\* As long as the credential is legacy it was never changed; what a login read of
\* it is still true, or the login is stale.
LegacyIsFirst ==
    /\ admin.legacy => admin.pw = chosen /\ stale = {}
    /\ \A l \in Logins : step[l] = "legacy" =>
          l \in stale \/ (stale = {} /\ given[l] = admin.pw /\ admin.pw = chosen)

\* An open stream had a session when it was last checked.
StreamHadSession ==
    \A s \in Streams : phase[s] \in {"waiting", "yielded"} =>
        /\ token[s] \in Logins
        /\ checked[s] <= now /\ checked[s] <= until[token[s]]

\* A wait begins within a recheck of the check, and ends within another.
StreamWaits ==
    \A s \in Streams : phase[s] = "waiting" =>
        since[s] < checked[s] + Recheck /\ now <= since[s] + Recheck

AuthInv == AuthOK /\ LegacyIsFirst /\ PasswordIsChosen /\ StreamHadSession /\ StreamWaits
=============================================================================
