---------------------------- MODULE AuthSession ----------------------------
(***************************************************************************)
(* Accounts and login sessions of the control plane,                       *)
(* services/auth_session.py.  The HTTP server answers every request on a   *)
(* thread of its own.  sessions.json is read, changed and written back as  *)
(* one document, always inside AuthSessionService._state_lock; users.json  *)
(* is read and written back the same way, but create_user, update_user,    *)
(* delete_user and delete_role do not take the lock, so that whole         *)
(* documents of two threads can overwrite each other, also under the feet  *)
(* of a login that holds the lock.                                         *)
(*                                                                         *)
(* A read of a document and the write that ends the operation are separate *)
(* steps; what happens in between (hashing a password, asking the LDAP     *)
(* server) may take any time.  Tokens are not modelled: a request that     *)
(* presents a token of session i is a request about i, one that presents   *)
(* an unknown or an outdated token changes nothing.  The lifetimes of a    *)
(* session are functions of its two time stamps, because every operation   *)
(* that sets access_expires_at sets last_seen_at with it.                  *)
(***************************************************************************)
EXTENDS Integers, Sequences, FiniteSets

CONSTANTS
    Users,          \* account names (compared in lower case by the code)
    Threads,        \* request threads of the HTTP server
    None,           \* no thread holds the lock
    MaxSessions,    \* max_sessions_per_user, 0 for no limit
    AccessTtl,      \* access_ttl_seconds
    IdleTimeout,    \* idle_timeout_seconds
    RefreshTtl,     \* refresh_ttl_seconds
    MaxTime,        \* bound on the clock
    MaxIssued       \* bound on the sessions ever issued

ASSUME AuthSessionAssumption ==
    /\ None \notin Threads
    /\ MaxSessions \in Nat
    /\ AccessTtl \in Nat \ {0}
    /\ IdleTimeout \in Nat \ {0}
    /\ RefreshTtl \in Nat \ {0}
    /\ AccessTtl <= RefreshTtl
    /\ MaxTime \in Nat
    /\ MaxIssued \in Nat

VARIABLES
    now,            \* the server's clock
    lock,           \* the thread inside _state_lock, or None
    users,          \* auth/users.json: the state of each account
    sessions,       \* auth/sessions.json: sessions in the order of issue
    thread,         \* what each request thread is doing
    barred          \* ghost: accounts switched off whose sessions an
                    \* administrator has revoked since

vars == <<now, lock, users, sessions, thread, barred>>

-----------------------------------------------------------------------------
(* An account is absent, or local or mirrored from LDAP, enabled or not.   *)

Accounts == {"absent", "local", "local_off", "ldap", "ldap_off"}

Enabled(a) == a \in {"local", "ldap"}

\* The account with its enabled flag set to on.
Switched(a, on) ==
    IF a \in {"local", "local_off"}
    THEN IF on THEN "local" ELSE "local_off"
    ELSE IF on THEN "ldap" ELSE "ldap_off"

\* The record the LDAP login stores for an account it found as a.
Shadow(a) ==
    CASE a \in {"absent", "local", "ldap"} -> "ldap"
      [] OTHER -> "ldap_off"

Session == [user : Users, created : Nat, seen : Nat, revoked : BOOLEAN]

UserDoc == [Users -> Accounts]

SessionDoc == Seq(Session)

\* _session_expired(include_access_expiry=False); refresh_expires_at is
\* never later than absolute_expires_at.
Expired(s, t) ==
    \/ s.revoked
    \/ t > s.created + RefreshTtl
    \/ t - s.seen > IdleTimeout

\* _session_expired(include_access_expiry=True).
AccessExpired(s, t) == Expired(s, t) \/ t > s.seen + AccessTtl

Live(i) == ~ Expired(sessions[i], now)

Revoke(doc, S) ==
    [i \in DOMAIN doc |->
        IF i \in S THEN [doc[i] EXCEPT !.revoked = TRUE] ELSE doc[i]]

Touch(doc, i) == [doc EXCEPT ![i] = [@ EXCEPT !.seen = now]]

-----------------------------------------------------------------------------
(* _enforce_session_limit: sessions that have expired are revoked, and of  *)
(* the others the least recently used ones, until a new one fits.          *)

LiveOf(doc, u, t) ==
    {i \in DOMAIN doc : doc[i].user = u /\ ~ Expired(doc[i], t)}

StaleOf(doc, u, t) ==
    {i \in DOMAIN doc : doc[i].user = u /\ Expired(doc[i], t)}

BeforeReversed(doc, i, j) ==          \* mutant: reverse=True in the sort
    \/ doc[i].seen > doc[j].seen
    \/ doc[i].seen = doc[j].seen /\ doc[i].created > doc[j].created
    \/ /\ doc[i].seen = doc[j].seen
       /\ doc[i].created = doc[j].created
       /\ i < j

\* The sort key is (last_seen_at, created_at), and the sort is stable.
Before(doc, i, j) ==
    \/ doc[i].seen < doc[j].seen
    \/ doc[i].seen = doc[j].seen /\ doc[i].created < doc[j].created
    \/ /\ doc[i].seen = doc[j].seen
       /\ doc[i].created = doc[j].created
       /\ i < j

SurplusAllowsOneMore(doc, u, t) ==    \* mutant: while active > limit
    LET live == LiveOf(doc, u, t)
    IN  {i \in live :
            Cardinality({j \in live : Before(doc, j, i)})
                < Cardinality(live) - MaxSessions}

Surplus(doc, u, t) ==
    LET live == LiveOf(doc, u, t)
    IN  {i \in live :
            Cardinality({j \in live : Before(doc, j, i)})
                =< Cardinality(live) - MaxSessions}

EnforceLimit(doc, u, t) ==
    IF MaxSessions = 0 THEN doc
    ELSE Revoke(doc, StaleOf(doc, u, t) \cup Surplus(doc, u, t))

NewSession(u, t) == [user |-> u, created |-> t, seen |-> t, revoked |-> FALSE]

-----------------------------------------------------------------------------
(* What a thread carries between its steps: the operation, the next step,  *)
(* the account, the account record to persist, and the changed documents.  *)

NoDoc == [u \in Users |-> "absent"]

IdleThread ==
    [pc |-> "idle", op |-> "none", user |-> None, rec |-> "absent",
     udoc |-> NoDoc, sdoc |-> <<>>]

Ops == {"none", "update", "totp", "shadow", "mirror", "login",
        "refresh", "resolve", "logout", "revoke_user"}

Steps == {"idle", "find", "persist", "write", "issue", "store"}

ThreadState ==
    [pc : Steps, op : Ops, user : Users \cup {None}, rec : Accounts,
     udoc : UserDoc, sdoc : SessionDoc]

WithRecord(step, kind, u, a) ==
    [IdleThread EXCEPT !.pc = step, !.op = kind, !.user = u, !.rec = a]

WithUsers(kind, u, a, doc) ==
    [IdleThread EXCEPT !.pc = "write", !.op = kind, !.user = u, !.rec = a,
                       !.udoc = doc]

WithSessions(kind, u, doc) ==
    [IdleThread EXCEPT !.pc = "store", !.op = kind, !.user = u, !.sdoc = doc]

Idle(t) == thread[t].pc = "idle"

AcquireUnguarded(t) == lock' = t      \* mutant: _state_lock not taken

Acquire(t) == lock = None /\ lock' = t

ReleaseBy(t) == lock' = IF lock = t THEN None ELSE lock

TypeOK ==
    /\ now \in 0..MaxTime
    /\ lock \in Threads \cup {None}
    /\ users \in UserDoc
    /\ sessions \in SessionDoc
    /\ thread \in [Threads -> ThreadState]
    /\ barred \in [Users -> BOOLEAN]

\* The server starts with the accounts it finds, and no session is left of
\* the time before the model begins.
Init ==
    /\ now = 0
    /\ lock = None
    /\ users \in [Users -> {"absent", "local"}]
    /\ sessions = <<>>
    /\ thread = [t \in Threads |-> IdleThread]
    /\ barred = [u \in Users |-> FALSE]

Tick ==
    /\ now < MaxTime
    /\ now' = now + 1
    /\ UNCHANGED <<lock, users, sessions, thread, barred>>

-----------------------------------------------------------------------------
(* The operations on accounts.  None of these takes the lock.              *)

BeginUpdate(t, u, doc) ==
    /\ thread' = [thread EXCEPT ![t] = WithUsers("update", u, "absent", doc)]
    /\ UNCHANGED <<now, lock, users, sessions, barred>>

CreateUser(t, u) ==
    /\ Idle(t)
    /\ users[u] = "absent"
    /\ \E on \in BOOLEAN :
          BeginUpdate(t, u, [users EXCEPT ![u] = Switched("local", on)])

\* A change of role, password or tenant leaves the account state as it is.
UpdateUser(t, u) ==
    /\ Idle(t)
    /\ users[u] # "absent"
    /\ \/ BeginUpdate(t, u, users)
       \/ \E on \in BOOLEAN :
             BeginUpdate(t, u, [users EXCEPT ![u] = Switched(@, on)])

DeleteUser(t, u) ==
    /\ Idle(t)
    /\ users[u] # "absent"
    /\ BeginUpdate(t, u, [users EXCEPT ![u] = "absent"])

\* Rewrites the whole of users.json to take the deleted role from accounts.
DeleteRole(t, u) ==
    /\ Idle(t)
    /\ BeginUpdate(t, u, users)

\* enroll_totp and disable_totp: under the lock, but the record that is
\* persisted was read before the document it is persisted into.
ChangeTotp(t, u) ==
    /\ Idle(t)
    /\ users[u] # "absent"
    /\ Acquire(t)
    /\ thread' = [thread EXCEPT ![t] =
                     WithRecord("persist", "totp", u, users[u])]
    /\ UNCHANGED <<now, users, sessions, barred>>

\* _persist_user_record reads the document and puts the record into it ...
PersistLoad(t) ==
    /\ thread[t].pc = "persist"
    /\ LET th == thread[t]
       IN  thread' = [thread EXCEPT ![t] =
              WithUsers(th.op, th.user, th.rec,
                        [users EXCEPT ![th.user] = th.rec])]
    /\ UNCHANGED <<now, lock, users, sessions, barred>>

\* What the thread does after its write of users.json.
AfterWrite(th) ==
    CASE th.op = "shadow" /\ Enabled(th.rec) ->
            WithRecord("persist", "mirror", th.user, th.rec)
      [] th.op = "mirror" -> WithRecord("issue", "login", th.user, "absent")
      [] OTHER -> IdleThread

\* ... and writes it, as every operation on accounts does in the end.
WriteUsers(t) ==
    /\ thread[t].pc = "write"
    /\ users' = thread[t].udoc
    /\ barred' = [u \in Users |-> barred[u] /\ ~ Enabled(users'[u])]
    /\ thread' = [thread EXCEPT ![t] = AfterWrite(thread[t])]
    /\ IF AfterWrite(thread[t]).pc = "idle"
       THEN ReleaseBy(t)
       ELSE UNCHANGED lock
    /\ UNCHANGED <<now, sessions>>

-----------------------------------------------------------------------------
(* The operations on sessions, from the acquisition of the lock to its     *)
(* release.  A login reads the account first; an account of LDAP, or one   *)
(* that LDAP knows and users.json does not, is written back before the     *)
(* session is issued.                                                      *)

Login(t, u) ==
    /\ Idle(t)
    /\ Acquire(t)
    /\ \/ /\ users[u] = "absent"
          /\ thread' = [thread EXCEPT ![t] =
                           WithRecord("find", "shadow", u, "absent")]
       \/ /\ users[u] = "ldap"
          /\ thread' = [thread EXCEPT ![t] =
                           WithRecord("persist", "mirror", u, "ldap")]
       \/ /\ users[u] = "local"
          /\ thread' = [thread EXCEPT ![t] =
                           WithRecord("issue", "login", u, "absent")]
    /\ UNCHANGED <<now, users, sessions, barred>>

\* LDAP has accepted a name users.json did not have: it is looked up again.
FindShadow(t) ==
    /\ thread[t].pc = "find"
    /\ LET u == thread[t].user
       IN  thread' = [thread EXCEPT ![t] =
              WithRecord("persist", "shadow", u, Shadow(users[u]))]
    /\ UNCHANGED <<now, lock, users, sessions, barred>>

IssueNameless(t) ==                   \* mutant: the user name is lost
    /\ thread[t].pc = "issue"
    /\ Len(sessions) < MaxIssued
    /\ thread' = [thread EXCEPT ![t] =
          WithSessions("login", thread[t].user,
                       Append(sessions, NewSession(None, now)))]
    /\ UNCHANGED <<now, lock, users, sessions, barred>>

IssueSession(t) ==
    /\ thread[t].pc = "issue"
    /\ Len(sessions) < MaxIssued
    /\ LET u == thread[t].user
       IN  thread' = [thread EXCEPT ![t] =
              WithSessions("login", u,
                           Append(EnforceLimit(sessions, u, now),
                                  NewSession(u, now)))]
    /\ UNCHANGED <<now, lock, users, sessions, barred>>

BeginSession(t, kind, u, doc) ==
    /\ Idle(t)
    /\ Acquire(t)
    /\ thread' = [thread EXCEPT ![t] = WithSessions(kind, u, doc)]
    /\ UNCHANGED <<now, users, sessions, barred>>

RefreshUnchecked(t, i) ==             \* mutant: expiry not checked
    /\ ~ sessions[i].revoked
    /\ LET u == sessions[i].user
       IN  BeginSession(t, "refresh", u,
              IF ~ Enabled(users[u])
              THEN Revoke(sessions, {i})
              ELSE Touch(sessions, i))

RefreshSession(t, i) ==
    /\ ~ sessions[i].revoked
    /\ LET u == sessions[i].user
       IN  BeginSession(t, "refresh", u,
              IF Expired(sessions[i], now) \/ ~ Enabled(users[u])
              THEN Revoke(sessions, {i})
              ELSE Touch(sessions, i))

\* resolve_access_token: every authenticated request.  A session whose
\* access token has expired is revoked.
Resolve(t, i) ==
    /\ ~ sessions[i].revoked
    /\ BeginSession(t, "resolve", sessions[i].user,
          IF AccessExpired(sessions[i], now)
          THEN Revoke(sessions, {i})
          ELSE Touch(sessions, i))

\* revoke: the access token may be of one session, the cookie of another.
Logout(t, i, j) ==
    /\ ~ sessions[i].revoked \/ ~ sessions[j].revoked
    /\ BeginSession(t, "logout", sessions[i].user, Revoke(sessions, {i, j}))

SessionsOf(u) == {i \in DOMAIN sessions : sessions[i].user = u}

RevokeUserUnlocked(t, u) ==           \* mutant: reads before it locks
    /\ Idle(t)
    /\ thread' = [thread EXCEPT ![t] =
          WithSessions("revoke_user", u, Revoke(sessions, SessionsOf(u)))]
    /\ UNCHANGED <<now, lock, users, sessions, barred>>

RevokeUserSessions(t, u) ==
    BeginSession(t, "revoke_user", u, Revoke(sessions, SessionsOf(u)))

StoreSessions(t) ==
    /\ thread[t].pc = "store"
    /\ sessions' = thread[t].sdoc
    /\ barred' =
          [u \in Users |->
              \/ barred[u]
              \/ /\ thread[t].op = "revoke_user"
                 /\ thread[t].user = u
                 /\ ~ Enabled(users[u])]
    /\ thread' = [thread EXCEPT ![t] = IdleThread]
    /\ ReleaseBy(t)
    /\ UNCHANGED <<now, users>>

\* The request fails (wrong password or code, LDAP refuses, a file cannot
\* be written), or the process is restarted under it.
Abort(t) ==
    /\ ~ Idle(t)
    /\ thread' = [thread EXCEPT ![t] = IdleThread]
    /\ ReleaseBy(t)
    /\ UNCHANGED <<now, users, sessions, barred>>

-----------------------------------------------------------------------------

AccountStep(t) ==
    \/ \E u \in Users :
          \/ CreateUser(t, u)
          \/ UpdateUser(t, u)
          \/ DeleteUser(t, u)
          \/ DeleteRole(t, u)
          \/ ChangeTotp(t, u)
    \/ PersistLoad(t)
    \/ WriteUsers(t)

SessionStep(t) ==
    \/ \E u \in Users : Login(t, u) \/ RevokeUserSessions(t, u)
    \/ FindShadow(t)
    \/ IssueSession(t)
    \/ \E i \in DOMAIN sessions :
          \/ RefreshSession(t, i)
          \/ Resolve(t, i)
          \/ \E j \in DOMAIN sessions : Logout(t, i, j)
    \/ StoreSessions(t)

Next ==
    \/ Tick
    \/ \E t \in Threads : AccountStep(t) \/ SessionStep(t) \/ Abort(t)

Spec == Init /\ [][Next]_vars

-----------------------------------------------------------------------------
(* What must hold of the sessions file whatever the threads do.            *)

\* Once an account is switched off or deleted and the administrator then
\* revokes its sessions, no session of it is left that a request could use,
\* until the account is switched on again: no login, refresh or request that
\* was under way can bring one back.  It rests on login reading the account
\* inside the lock under which it writes the session.
BarredUserHasNoSession ==
    \A u \in Users : barred[u] =>
        \A i \in SessionsOf(u) : sessions[i].revoked

\* An account never has more usable sessions than max_sessions_per_user,
\* however many logins run at the same time.
SessionLimit ==
    MaxSessions > 0 =>
        \A u \in Users :
            Cardinality({i \in SessionsOf(u) : Live(i)}) <= MaxSessions

\* No request is served in a session after the end of its refresh lifetime,
\* although every request moves the other end of its life forward.
NoUsePastLifetime ==
    \A i \in DOMAIN sessions :
        sessions[i].seen <= sessions[i].created + RefreshTtl

\* The sessions file only ages: a login whose answer was sent stays in it, a
\* revoked session is never taken up again, no use is forgotten, and two uses
\* of a session are never further apart than the idle timeout.  Two threads
\* that wrote documents read before each other's write would break each part.
OnlyAges(s, r) ==
    /\ r.user = s.user
    /\ r.created = s.created
    /\ s.revoked => r = s
    /\ s.seen <= r.seen
    /\ r.seen <= s.seen + IdleTimeout

SessionsOnlyAge ==
    [][ /\ DOMAIN sessions \subseteq DOMAIN sessions'
        /\ \A i \in DOMAIN sessions : OnlyAges(sessions[i], sessions'[i])
      ]_sessions

\* docs/runbooks/data-retention.md:35 gives sessions a life of 15 minutes
\* (access) and 7 days (refresh), and the web console answers an expired
\* access token with a refresh and a second try (website/ui/api.js:241): a
\* request that comes with an expired access token must leave a session that
\* its refresh token can still renew.
DocRefreshOutlivesAccess ==
    \A t \in Threads :
        (thread[t].pc = "store" /\ thread[t].op = "resolve") =>
            \A i \in DOMAIN sessions :
                Live(i) => ~ thread[t].sdoc[i].revoked

\* The sessions as an abstract registry keeps them.
Registry == INSTANCE SessionRegistry

\* Although a request reads sessions.json in one step and writes it in another,
\* and time passes and other requests run in between, each login, use and
\* revocation takes effect as one indivisible operation, and a login at the
\* limit ends as few usable sessions as it must, the least recently used ones.
ImplementsRegistry == Registry!Spec

=============================================================================
