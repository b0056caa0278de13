-------------------------- MODULE AuthSessionProofs --------------------------
(***************************************************************************)
(* Proofs about AuthSession, for any number of accounts, request threads    *)
(* and sessions.  The argument: while a thread works on sessions it holds   *)
(* the lock, so the document it is about to write is an aged copy of the    *)
(* one in the file (DocOK), and a login that has passed the check of its    *)
(* account cannot be overtaken by a revocation (ThreadOK).                  *)
(***************************************************************************)
EXTENDS AuthSession, FiniteSetTheorems, TLAPS

(* new is doc with some of its sessions revoked.                            *)
RevokedIn(doc, new) ==
  /\ DOMAIN new = DOMAIN doc
  /\ \A i \in DOMAIN doc :
        /\ new[i].user = doc[i].user
        /\ new[i].created = doc[i].created
        /\ new[i].seen = doc[i].seen
        /\ doc[i].revoked => new[i] = doc[i]

(* The document a thread is about to store, and what its write will do.     *)
DocOK(doc, kind, u) ==
  /\ DOMAIN sessions \subseteq DOMAIN doc
  /\ \A i \in DOMAIN sessions : OnlyAges(sessions[i], doc[i])
  /\ \A i \in DOMAIN doc :
        doc[i].seen <= now /\ doc[i].seen <= doc[i].created + RefreshTtl
  /\ \A v \in Users :
        barred[v] \/ (kind = "revoke_user" /\ v = u) =>
          \A i \in DOMAIN doc : doc[i].user = v => doc[i].revoked

ThreadOK(t) ==
  LET th == thread[t]
  IN  /\ th.pc # "idle" => th.user \in Users
      /\ th.pc = "idle" \/ (th.pc = "write" /\ th.op = "update") \/ lock = t
      /\ th.pc = "find" => th.op = "shadow"
      /\ th.pc = "persist" => th.op \in {"totp", "shadow", "mirror"}
      /\ th.pc = "write" => th.op \in {"update", "totp", "shadow", "mirror"}
      /\ th.op = "mirror" => Enabled(th.rec)
      /\ th.pc = "write" /\ th.op # "update" => th.udoc[th.user] = th.rec
      /\ th.pc = "issue" => ~ barred[th.user]
      /\ th.pc = "store" => DocOK(th.sdoc, th.op, th.user)

(* Only accounts that are switched off are barred.                          *)
Barring == \A u \in Users : barred[u] => ~ Enabled(users[u])

(* The inductive invariant.                                                 *)
Inv ==
  /\ TypeOK
  /\ Barring
  /\ BarredUserHasNoSession
  /\ NoUsePastLifetime
  /\ \A i \in DOMAIN sessions : sessions[i].seen <= now
  /\ \A t \in Threads : ThreadOK(t)

-----------------------------------------------------------------------------
(***************************************************************************)
(* Documents.                                                              *)
(***************************************************************************)

(* Revoking sessions gives a document again, with the same sessions.        *)
LEMMA RevokeDoc ==
  ASSUME NEW doc \in SessionDoc, NEW S
  PROVE  /\ Revoke(doc, S) \in SessionDoc
         /\ RevokedIn(doc, Revoke(doc, S))
         /\ \A i \in DOMAIN doc \cap S : Revoke(doc, S)[i].revoked
<1> DEFINE new == Revoke(doc, S)
<1>1. DOMAIN new = DOMAIN doc
  BY DEF Revoke
<1>2. ASSUME NEW i \in DOMAIN doc
      PROVE  /\ new[i] \in Session
             /\ new[i].user = doc[i].user
             /\ new[i].created = doc[i].created
             /\ new[i].seen = doc[i].seen
             /\ doc[i].revoked => new[i] = doc[i]
             /\ i \in S => new[i].revoked
  <2>1. doc[i] \in Session
    BY DEF SessionDoc
  <2>2. new[i] = IF i \in S THEN [doc[i] EXCEPT !.revoked = TRUE] ELSE doc[i]
    BY DEF Revoke
  <2>3. CASE i \in S
    <3>1. new[i] = [doc[i] EXCEPT !.revoked = TRUE]
      BY <2>2, <2>3
    <3> HIDE DEF new
    <3> QED BY <2>1, <3>1 DEF Session
  <2>4. CASE i \notin S
    BY <2>1, <2>2, <2>4
  <2> QED BY <2>3, <2>4
<1>3. new \in SessionDoc
  <2>1. new = [i \in 1..Len(doc) |-> new[i]]
    BY DEF Revoke, SessionDoc
  <2>2. \A i \in 1..Len(doc) : new[i] \in Session
    BY <1>2 DEF SessionDoc
  <2>3. Len(doc) \in Nat
    BY DEF SessionDoc
  <2> HIDE DEF new
  <2>4. new \in [1..Len(doc) -> Session]
    BY <2>1, <2>2
  <2> QED BY <2>3, <2>4 DEF SessionDoc
<1> HIDE DEF new
<1>4. RevokedIn(doc, new)
  BY <1>1, <1>2 DEF RevokedIn
<1> QED BY <1>2, <1>3, <1>4 DEF new

(* So does enforcing the limit.                                             *)
LEMMA EnforceDoc ==
  ASSUME NEW doc \in SessionDoc, NEW u, NEW t
  PROVE  /\ EnforceLimit(doc, u, t) \in SessionDoc
         /\ RevokedIn(doc, EnforceLimit(doc, u, t))
<1>1. RevokedIn(doc, doc)
  BY DEF RevokedIn
<1> QED BY <1>1, RevokeDoc DEF EnforceLimit

(* Revoking sessions of the stored document prepares a good one, provided   *)
(* the accounts whose sessions end with it have all of theirs revoked.      *)
LEMMA RevokedIsOK ==
  ASSUME Inv, NEW new \in SessionDoc, RevokedIn(sessions, new), NEW kind, NEW u,
         kind = "revoke_user" =>
           \A i \in DOMAIN new : new[i].user = u => new[i].revoked
  PROVE  DocOK(new, kind, u)
<1> USE DEF Inv
<1>1. \A i \in DOMAIN sessions : sessions[i] \in Session /\ new[i] \in Session
  BY DEF TypeOK, SessionDoc, RevokedIn
<1>2. \A i \in DOMAIN sessions : OnlyAges(sessions[i], new[i])
  BY <1>1, AuthSessionAssumption DEF OnlyAges, RevokedIn, Session
<1>3. \A i \in DOMAIN new :
        new[i].seen <= now /\ new[i].seen <= new[i].created + RefreshTtl
  BY DEF RevokedIn, NoUsePastLifetime
<1>4. ASSUME NEW v \in Users, barred[v], NEW i \in DOMAIN new, new[i].user = v
      PROVE  new[i].revoked
  <2>1. i \in SessionsOf(v)
    BY <1>4 DEF SessionsOf, RevokedIn
  <2>2. sessions[i].revoked
    BY <1>4, <2>1 DEF BarredUserHasNoSession
  <2> QED BY <2>2 DEF RevokedIn, SessionsOf
<1> QED BY <1>2, <1>3, <1>4 DEF DocOK, RevokedIn

(* The next use of a session that has not expired prepares a good one.      *)
LEMMA TouchedIsOK ==
  ASSUME Inv, NEW i \in DOMAIN sessions, ~ Expired(sessions[i], now),
         NEW kind, NEW u, kind # "revoke_user"
  PROVE  Touch(sessions, i) \in SessionDoc /\ DocOK(Touch(sessions, i), kind, u)
<1> USE DEF Inv
<1> DEFINE s == sessions[i]
           r == [s EXCEPT !.seen = now]
           new == Touch(sessions, i)
<1>1. s \in Session /\ now \in Nat /\ sessions \in Seq(Session)
  BY DEF TypeOK, SessionDoc
<1>2. /\ r \in Session /\ r.user = s.user /\ r.created = s.created
      /\ r.seen = now /\ r.revoked = s.revoked
  BY <1>1 DEF Session
<1>3. ~ s.revoked /\ now <= s.created + RefreshTtl /\ now - s.seen <= IdleTimeout
  BY <1>1, AuthSessionAssumption DEF Expired, Session
<1>4. s.seen <= now
  OBVIOUS
<1>5. new = [sessions EXCEPT ![i] = r]
  BY DEF Touch
<1> HIDE DEF r, s, new
<1>6. new \in SessionDoc /\ DOMAIN new = DOMAIN sessions
  BY <1>1, <1>2, <1>5 DEF SessionDoc
<1>7. new[i] = r /\ \A j \in DOMAIN sessions : j # i => new[j] = sessions[j]
  BY <1>5
<1>8. s.seen \in Nat /\ s.created \in Nat
  BY <1>1 DEF Session
<1>9. OnlyAges(s, r)
  BY <1>1, <1>2, <1>3, <1>4, <1>8, AuthSessionAssumption DEF OnlyAges
<1>10. ASSUME NEW j \in DOMAIN sessions
       PROVE  OnlyAges(sessions[j], new[j])
  <2>1. CASE j = i
    BY <2>1, <1>7, <1>9 DEF s
  <2>2. CASE j # i
    <3>1. sessions[j] \in Session
      BY <1>1
    <3>2. sessions[j].seen \in Nat
      BY <3>1 DEF Session
    <3> QED BY <2>2, <3>2, <1>7, AuthSessionAssumption DEF OnlyAges
  <2> QED BY <2>1, <2>2
<1>11. ASSUME NEW j \in DOMAIN new
       PROVE  new[j].seen <= now /\ new[j].seen <= new[j].created + RefreshTtl
  <2>1. CASE j = i
    BY <2>1, <1>1, <1>2, <1>3, <1>7
  <2>2. CASE j # i
    BY <2>2, <1>6, <1>7 DEF NoUsePastLifetime
  <2> QED BY <2>1, <2>2
<1>12. ASSUME NEW v \in Users, barred[v], NEW j \in DOMAIN new, new[j].user = v
       PROVE  new[j].revoked
  <2>1. CASE j = i
    <3>1. i \in SessionsOf(v)
      BY <2>1, <1>2, <1>7, <1>12 DEF SessionsOf, s
    <3> QED BY <3>1, <1>3, <1>12 DEF BarredUserHasNoSession, s
  <2>2. CASE j # i
    <3>1. j \in SessionsOf(v)
      BY <2>2, <1>6, <1>7, <1>12 DEF SessionsOf
    <3> QED BY <2>2, <3>1, <1>6, <1>7, <1>12 DEF BarredUserHasNoSession
  <2> QED BY <2>1, <2>2
<1> QED BY <1>6, <1>10, <1>11, <1>12 DEF DocOK, new

(* A login of an account that is not barred prepares a good one.            *)
LEMMA IssuedIsOK ==
  ASSUME Inv, NEW u \in Users, ~ barred[u], NEW old \in SessionDoc,
         DocOK(old, "login", u), DOMAIN old = DOMAIN sessions
  PROVE  /\ Append(old, NewSession(u, now)) \in SessionDoc
         /\ DocOK(Append(old, NewSession(u, now)), "login", u)
<1> USE DEF Inv
<1> DEFINE s == NewSession(u, now)
           new == Append(old, s)
<1>1. now \in Nat /\ old \in Seq(Session)
  BY DEF TypeOK, SessionDoc
<1>2. s \in Session /\ s.user = u /\ s.created = now /\ s.seen = now
  BY <1>1 DEF NewSession, Session
<1> HIDE DEF s
<1>3. /\ new \in Seq(Session) /\ Len(new) = Len(old) + 1
      /\ \A i \in 1..Len(old) : new[i] = old[i]
      /\ new[Len(old) + 1] = s
  BY <1>1, <1>2
<1>4. DOMAIN old = 1..Len(old) /\ DOMAIN new = 1..(Len(old) + 1) /\ Len(old) \in Nat
  BY <1>1, <1>3
<1> HIDE DEF new
<1>5. \A i \in DOMAIN sessions : OnlyAges(sessions[i], new[i])
  BY <1>3, <1>4 DEF DocOK
<1>6. ASSUME NEW i \in DOMAIN new
      PROVE  i \in DOMAIN old \/ i = Len(old) + 1
  BY <1>4
<1>7. \A i \in DOMAIN new :
        new[i].seen <= now /\ new[i].seen <= new[i].created + RefreshTtl
  BY <1>1, <1>2, <1>3, <1>4, <1>6, AuthSessionAssumption DEF DocOK
<1>8. ASSUME NEW v \in Users, barred[v], NEW i \in DOMAIN new, new[i].user = v
      PROVE  new[i].revoked
  <2>1. v # u
    BY <1>8
  <2>2. i \in DOMAIN old
    BY <1>2, <1>3, <1>6, <1>8, <2>1
  <2> QED BY <1>3, <1>4, <1>8, <2>2 DEF DocOK
<1> QED BY <1>3, <1>4, <1>5, <1>7, <1>8 DEF DocOK, SessionDoc, new, s

-----------------------------------------------------------------------------
(***************************************************************************)
(* Threads.                                                                *)
(***************************************************************************)

(* The records a thread carries have their type.                            *)
LEMMA ThreadTypes ==
  /\ NoDoc \in UserDoc /\ IdleThread \in ThreadState
  /\ \A step \in Steps, kind \in Ops, u \in Users, a \in Accounts :
        WithRecord(step, kind, u, a) \in ThreadState
  /\ \A kind \in Ops, u \in Users, a \in Accounts, doc \in UserDoc :
        WithUsers(kind, u, a, doc) \in ThreadState
  /\ \A kind \in Ops, u \in Users, doc \in SessionDoc :
        WithSessions(kind, u, doc) \in ThreadState
<1>1. NoDoc \in UserDoc
  BY DEF NoDoc, UserDoc, Accounts
<1>2. <<>> \in SessionDoc
  BY DEF SessionDoc
<1>3. IdleThread \in ThreadState
  BY <1>1, <1>2 DEF IdleThread, ThreadState, Steps, Ops, Accounts
<1>4. ASSUME NEW step \in Steps, NEW kind \in Ops, NEW u \in Users,
             NEW a \in Accounts
      PROVE  WithRecord(step, kind, u, a) \in ThreadState
  BY <1>3 DEF WithRecord, ThreadState
<1>5. ASSUME NEW kind \in Ops, NEW u \in Users, NEW a \in Accounts,
             NEW doc \in UserDoc
      PROVE  WithUsers(kind, u, a, doc) \in ThreadState
  BY <1>3 DEF WithUsers, ThreadState, Steps
<1>6. ASSUME NEW kind \in Ops, NEW u \in Users, NEW doc \in SessionDoc
      PROVE  WithSessions(kind, u, doc) \in ThreadState
  BY <1>3 DEF WithSessions, ThreadState, Steps
<1> QED BY <1>1, <1>3, <1>4, <1>5, <1>6

(* A thread that does nothing is fine, and so is every thread at the start. *)
LEMMA IdleIsOK ==
  ASSUME NEW t \in Threads, thread[t] = IdleThread
  PROVE  ThreadOK(t)
BY DEF ThreadOK, IdleThread

(* A thread stays fine while another one works: either it is outside of the *)
(* lock, or the step leaves the sessions alone.                             *)
LEMMA OthersStayOK ==
  ASSUME TypeOK, NEW t \in Threads, NEW s \in Threads, s # t, ThreadOK(s),
         thread'[s] = thread[s],
         \/ lock \in {None, t}
         \/ /\ lock' = lock
            /\ sessions' = sessions
            /\ now <= now'
            /\ now' \in Nat
            /\ \A u \in Users : barred'[u] => barred[u]
  PROVE  ThreadOK(s)'
<1> DEFINE th == thread[s]
<1>0. th \in ThreadState /\ now \in Nat
  BY DEF TypeOK
<1>1. CASE lock \in {None, t}
  <2>1. th.pc = "idle" \/ (th.pc = "write" /\ th.op = "update")
    BY <1>1, AuthSessionAssumption DEF ThreadOK
  <2> QED BY <2>1 DEF ThreadOK
<1>2. CASE /\ lock' = lock
           /\ sessions' = sessions
           /\ now <= now'
           /\ now' \in Nat
           /\ \A u \in Users : barred'[u] => barred[u]
  <2>1. ASSUME th.pc = "store"
        PROVE  DocOK(th.sdoc, th.op, th.user)'
    <3>1. DocOK(th.sdoc, th.op, th.user)
      BY <2>1 DEF ThreadOK
    <3>2. th.sdoc \in Seq(Session)
      BY <1>0 DEF ThreadState, SessionDoc
    <3>3. \A i \in DOMAIN th.sdoc : th.sdoc[i].seen \in Nat
      <4>1. \A i \in DOMAIN th.sdoc : th.sdoc[i] \in Session
        BY <3>2
      <4> QED BY <4>1 DEF Session
    <3>4. \A i \in DOMAIN th.sdoc : th.sdoc[i].seen <= now'
      BY <1>0, <1>2, <3>1, <3>3 DEF DocOK
    <3> QED BY <1>2, <3>1, <3>4 DEF DocOK, OnlyAges
  <2>2. th.pc = "issue" => ~ barred'[th.user]
    BY <1>2 DEF ThreadOK
  <2> QED BY <1>2, <2>1, <2>2 DEF ThreadOK
<1> QED BY <1>1, <1>2

(* A step of one thread that changes no document keeps the invariant, if    *)
(* what the thread carries afterwards is fine.                              *)
LEMMA LocalStep ==
  ASSUME Inv, NEW t \in Threads, NEW th \in ThreadState,
         thread' = [thread EXCEPT ![t] = th],
         UNCHANGED <<now, users, sessions, barred>>,
         lock' \in Threads \cup {None},
         lock \in {None, t} \/ lock' = lock,
         ThreadOK(t)'
  PROVE  Inv'
<1> USE DEF Inv
<1>1. TypeOK'
  BY DEF TypeOK
<1>2. ASSUME NEW s \in Threads
      PROVE  ThreadOK(s)'
  <2>1. CASE s = t
    BY <2>1
  <2>2. CASE s # t
    <3>1. thread'[s] = thread[s]
      BY <2>2 DEF TypeOK
    <3>2. now <= now' /\ now' \in Nat /\ \A u \in Users : barred'[u] => barred[u]
      BY DEF TypeOK
    <3> QED BY <2>2, <3>1, <3>2, OthersStayOK
  <2> QED BY <2>1, <2>2
<1> QED BY <1>1, <1>2
        DEF Barring, BarredUserHasNoSession, SessionsOf, NoUsePastLifetime

(* Giving the lock back leaves it free or in other hands.                   *)
LEMMA Release ==
  ASSUME TypeOK, NEW t \in Threads, ReleaseBy(t)
  PROVE  /\ lock' \in Threads \cup {None}
         /\ lock \in {None, t} \/ lock' = lock
BY DEF ReleaseBy, TypeOK

(* A thread may always stop what it does.                                   *)
LEMMA StopStep ==
  ASSUME Inv, NEW t \in Threads,
         thread' = [thread EXCEPT ![t] = IdleThread],
         UNCHANGED <<now, users, sessions, barred>>, ReleaseBy(t)
  PROVE  Inv'
<1>1. thread'[t] = IdleThread
  BY DEF Inv, TypeOK
<1>2. ThreadOK(t)'
  BY <1>1 DEF ThreadOK, IdleThread
<1> QED BY <1>2, Release, ThreadTypes, LocalStep DEF Inv

(* A change of users.json that is read outside of the lock.                 *)
LEMMA UpdateStep ==
  ASSUME Inv, NEW t \in Threads, NEW u \in Users, NEW doc \in UserDoc, Idle(t),
         BeginUpdate(t, u, doc)
  PROVE  Inv'
<1> DEFINE th == WithUsers("update", u, "absent", doc)
<1>1. th \in ThreadState
  BY ThreadTypes DEF Ops, Accounts
<1>2. thread'[t] = th
  BY DEF BeginUpdate, Inv, TypeOK
<1>3. /\ th.pc = "write" /\ th.op = "update" /\ th.user = u
  BY DEF WithUsers, IdleThread
<1> HIDE DEF th
<1>4. ThreadOK(t)'
  BY <1>2, <1>3 DEF ThreadOK
<1> QED BY <1>1, <1>4, LocalStep DEF BeginUpdate, th, Inv, TypeOK

(* A step of a thread inside the lock that has a record to persist, or that *)
(* takes the lock for it.                                                   *)
LEMMA RecordStep ==
  ASSUME Inv, NEW t \in Threads, NEW step \in {"find", "persist", "issue"},
         NEW kind \in Ops, NEW u \in Users, NEW a \in Accounts,
         step = "find" => kind = "shadow",
         step = "persist" => kind \in {"totp", "shadow", "mirror"},
         kind = "mirror" => Enabled(a),
         step = "issue" => ~ barred[u],
         thread' = [thread EXCEPT ![t] = WithRecord(step, kind, u, a)],
         UNCHANGED <<now, users, sessions, barred>>,
         lock \in {None, t}, lock' = t
  PROVE  Inv'
<1> DEFINE th == WithRecord(step, kind, u, a)
<1>1. th \in ThreadState
  BY ThreadTypes DEF Steps
<1>2. thread'[t] = th
  BY DEF Inv, TypeOK
<1>3. /\ th.pc = step /\ th.op = kind /\ th.user = u /\ th.rec = a
  BY DEF WithRecord, IdleThread
<1> HIDE DEF th
<1>4. ThreadOK(t)'
  BY <1>2, <1>3 DEF ThreadOK, Enabled
<1> QED BY <1>1, <1>4, LocalStep DEF th

(* A step of a thread inside the lock that prepares sessions.json, or that  *)
(* takes the lock for it.                                                   *)
LEMMA SessionsStep ==
  ASSUME Inv, NEW t \in Threads, NEW kind \in Ops \ {"mirror"}, NEW u \in Users,
         NEW doc \in SessionDoc, DocOK(doc, kind, u),
         thread' = [thread EXCEPT ![t] = WithSessions(kind, u, doc)],
         UNCHANGED <<now, users, sessions, barred>>,
         lock \in {None, t}, lock' = t
  PROVE  Inv'
<1> DEFINE th == WithSessions(kind, u, doc)
<1>1. th \in ThreadState
  BY ThreadTypes
<1>2. thread'[t] = th
  BY DEF Inv, TypeOK
<1>3. /\ th.pc = "store" /\ th.op = kind /\ th.user = u /\ th.sdoc = doc
  BY DEF WithSessions, IdleThread
<1> HIDE DEF th
<1>4. DocOK(doc, kind, u)'
  BY DEF DocOK, OnlyAges
<1>5. ThreadOK(t)'
  BY <1>2, <1>3, <1>4 DEF ThreadOK
<1> QED BY <1>1, <1>5, LocalStep DEF th

-----------------------------------------------------------------------------
(***************************************************************************)
(* The steps that write a document, and time.                              *)
(***************************************************************************)

(* The invariant holds at the start.                                        *)
LEMMA InitInv ==
  Init => Inv
<1> SUFFICES ASSUME Init PROVE Inv
  OBVIOUS
<1>1. TypeOK
  <2>1. users \in UserDoc /\ now \in 0..MaxTime
    BY AuthSessionAssumption DEF Init, UserDoc, Accounts
  <2> QED BY <2>1, ThreadTypes DEF Init, TypeOK, SessionDoc
<1>2. DOMAIN sessions = {}
  BY DEF Init
<1>3. \A t \in Threads : ThreadOK(t)
  BY IdleIsOK DEF Init
<1> QED BY <1>1, <1>2, <1>3
        DEF Init, Inv, Barring, BarredUserHasNoSession, SessionsOf, NoUsePastLifetime

(* Putting the record into a copy of users.json.                            *)
LEMMA PersistLoadStep ==
  ASSUME Inv, NEW t \in Threads, PersistLoad(t)
  PROVE  Inv'
<1> DEFINE old == thread[t]
           doc == [users EXCEPT ![old.user] = old.rec]
           th == WithUsers(old.op, old.user, old.rec, doc)
<1>1. /\ old \in ThreadState /\ old.pc = "persist" /\ old.user \in Users
      /\ old.op \in {"totp", "shadow", "mirror"} /\ lock = t
      /\ old.op = "mirror" => Enabled(old.rec)
  BY DEF PersistLoad, Inv, TypeOK, ThreadOK
<1>2. old.rec \in Accounts /\ old.op \in Ops
  BY <1>1 DEF ThreadState
<1>3. doc \in UserDoc /\ doc[old.user] = old.rec
  BY <1>1, <1>2 DEF Inv, TypeOK, UserDoc
<1>4. th \in ThreadState
  BY <1>1, <1>2, <1>3, ThreadTypes
<1>5. thread' = [thread EXCEPT ![t] = th]
  BY DEF PersistLoad
<1>6. thread'[t] = th
  BY <1>5 DEF Inv, TypeOK
<1>7. /\ th.pc = "write" /\ th.op = old.op /\ th.user = old.user
      /\ th.rec = old.rec /\ th.udoc = doc
  BY DEF WithUsers, IdleThread
<1>8. lock' = lock
  BY DEF PersistLoad
<1> HIDE DEF th, doc
<1>9. ThreadOK(t)'
  BY <1>1, <1>3, <1>6, <1>7, <1>8 DEF ThreadOK, Enabled
<1> HIDE DEF old
<1> QED BY <1>4, <1>5, <1>8, <1>9, LocalStep DEF PersistLoad, Inv, TypeOK

(* Writing users.json.  A login that comes out of it has just written its   *)
(* account enabled, so the account is no longer barred.                     *)
LEMMA WriteUsersStep ==
  ASSUME Inv, NEW t \in Threads, WriteUsers(t)
  PROVE  Inv'
<1> USE DEF Inv
<1> DEFINE old == thread[t]
           th == AfterWrite(old)
<1>1. /\ old \in ThreadState /\ old.pc = "write" /\ old.user \in Users
      /\ old.op \in {"update", "totp", "shadow", "mirror"}
      /\ old.op # "update" => lock = t
      /\ old.op = "mirror" => Enabled(old.rec)
      /\ old.op # "update" => old.udoc[old.user] = old.rec
  BY DEF WriteUsers, TypeOK, ThreadOK
<1>2. /\ old.rec \in Accounts /\ old.udoc \in UserDoc
  BY <1>1 DEF ThreadState
<1>3. /\ users' = old.udoc /\ thread' = [thread EXCEPT ![t] = th]
      /\ UNCHANGED <<now, sessions>>
      /\ barred' = [u \in Users |-> barred[u] /\ ~ Enabled(users'[u])]
      /\ IF th.pc = "idle" THEN ReleaseBy(t) ELSE UNCHANGED lock
  BY DEF WriteUsers
<1>4. \A u \in Users : barred'[u] = (barred[u] /\ ~ Enabled(users'[u]))
  BY <1>3
<1>5. ASSUME th = WithRecord("persist", "mirror", old.user, old.rec)
             /\ old.op = "shadow" /\ Enabled(old.rec)
      PROVE  /\ th \in ThreadState /\ ThreadOK(t)'
             /\ lock' \in Threads \cup {None} /\ (lock \in {None, t} \/ lock' = lock)
  <2>1. /\ th.pc = "persist" /\ th.op = "mirror" /\ th.user = old.user
        /\ th.rec = old.rec
    BY <1>5 DEF WithRecord, IdleThread
  <2>2. th \in ThreadState
    BY <1>1, <1>2, <1>5, ThreadTypes DEF Steps, Ops
  <2>3. lock = t /\ lock' = t
    BY <1>1, <1>3, <1>5, <2>1
  <2> HIDE DEF th
  <2>4. thread'[t] = th
    BY <1>3 DEF TypeOK
  <2>5. ThreadOK(t)'
    BY <1>1, <1>5, <2>1, <2>3, <2>4 DEF ThreadOK, Enabled
  <2> QED BY <2>2, <2>3, <2>5
<1>6. ASSUME th = WithRecord("issue", "login", old.user, "absent")
             /\ old.op = "mirror"
      PROVE  /\ th \in ThreadState /\ ThreadOK(t)'
             /\ lock' \in Threads \cup {None} /\ (lock \in {None, t} \/ lock' = lock)
  <2>1. /\ th.pc = "issue" /\ th.op = "login" /\ th.user = old.user
    BY <1>6 DEF WithRecord, IdleThread
  <2>2. th \in ThreadState
    BY <1>1, <1>6, ThreadTypes DEF Steps, Ops, Accounts
  <2>3. lock = t /\ lock' = t
    BY <1>1, <1>3, <1>6, <2>1
  <2>4. ~ barred'[old.user]
    BY <1>1, <1>3, <1>4, <1>6
  <2> HIDE DEF th
  <2>5. thread'[t] = th
    BY <1>3 DEF TypeOK
  <2>6. ThreadOK(t)'
    BY <1>1, <2>1, <2>3, <2>4, <2>5 DEF ThreadOK
  <2> QED BY <2>2, <2>3, <2>6
<1>7. ASSUME th = IdleThread
      PROVE  /\ th \in ThreadState /\ ThreadOK(t)'
             /\ lock' \in Threads \cup {None} /\ (lock \in {None, t} \/ lock' = lock)
  <2>1. th.pc = "idle"
    BY <1>7 DEF IdleThread
  <2>2. th \in ThreadState
    BY <1>7, ThreadTypes
  <2>3. ReleaseBy(t)
    BY <1>3, <2>1
  <2>4. thread'[t] = IdleThread
    BY <1>3, <1>7 DEF TypeOK
  <2>5. ThreadOK(t)'
    BY <2>4 DEF ThreadOK, IdleThread
  <2> QED BY <2>2, <2>3, <2>5, Release
<1>8. /\ th \in ThreadState /\ ThreadOK(t)'
      /\ lock' \in Threads \cup {None} /\ (lock \in {None, t} \/ lock' = lock)
  BY <1>5, <1>6, <1>7 DEF AfterWrite, TypeOK
<1> HIDE DEF th, old
<1>9. TypeOK'
  BY <1>2, <1>3, <1>8 DEF TypeOK
<1>10. ASSUME NEW s \in Threads
       PROVE  ThreadOK(s)'
  <2>1. CASE s = t
    BY <1>8, <2>1
  <2>2. CASE s # t
    <3>1. thread'[s] = thread[s]
      BY <1>3, <2>2 DEF TypeOK
    <3>2. now <= now' /\ now' \in Nat /\ \A u \in Users : barred'[u] => barred[u]
      BY <1>3, <1>4 DEF TypeOK
    <3> QED BY <1>3, <1>8, <2>2, <3>1, <3>2, OthersStayOK
  <2> QED BY <2>1, <2>2
<1>11. BarredUserHasNoSession'
  BY <1>3, <1>4 DEF BarredUserHasNoSession, SessionsOf
<1>12. NoUsePastLifetime' /\ \A i \in DOMAIN sessions' : sessions'[i].seen <= now'
  BY <1>3 DEF NoUsePastLifetime
<1>13. Barring'
  BY <1>4 DEF Barring
<1> QED BY <1>9, <1>10, <1>11, <1>12, <1>13

(* Writing sessions.json.                                                   *)
LEMMA StoreSessionsStep ==
  ASSUME Inv, NEW t \in Threads, StoreSessions(t)
  PROVE  Inv' /\ \A i \in DOMAIN sessions :
                     i \in DOMAIN sessions' /\ OnlyAges(sessions[i], sessions'[i])
<1> USE DEF Inv
<1> DEFINE old == thread[t]
<1>1. /\ old \in ThreadState /\ old.pc = "store" /\ old.user \in Users
      /\ lock = t /\ DocOK(old.sdoc, old.op, old.user)
  BY DEF StoreSessions, TypeOK, ThreadOK
<1>2. /\ sessions' = old.sdoc /\ thread' = [thread EXCEPT ![t] = IdleThread]
      /\ UNCHANGED <<now, users>> /\ ReleaseBy(t)
      /\ barred' = [u \in Users |->
             barred[u] \/ (old.op = "revoke_user" /\ old.user = u
                           /\ ~ Enabled(users[u]))]
  BY DEF StoreSessions
<1>3. \A u \in Users :
        barred'[u] => barred[u] \/ (old.op = "revoke_user" /\ u = old.user)
  BY <1>2
<1> HIDE DEF old
<1>4. TypeOK'
  <2>1. old.sdoc \in SessionDoc
    BY <1>1 DEF ThreadState
  <2>2. barred' \in [Users -> BOOLEAN]
    BY <1>2 DEF TypeOK
  <2> QED BY <1>2, <2>1, <2>2, Release, ThreadTypes DEF TypeOK
<1>5. ASSUME NEW s \in Threads
      PROVE  ThreadOK(s)'
  <2>1. CASE s = t
    <3>1. thread'[s] = IdleThread
      BY <1>2, <2>1 DEF TypeOK
    <3> QED BY <3>1 DEF ThreadOK, IdleThread
  <2>2. CASE s # t
    <3>1. thread'[s] = thread[s]
      BY <1>2, <2>2 DEF TypeOK
    <3> QED BY <1>1, <2>2, <3>1, OthersStayOK
  <2> QED BY <2>1, <2>2
<1>6. BarredUserHasNoSession'
  BY <1>1, <1>2, <1>3 DEF BarredUserHasNoSession, SessionsOf, DocOK
<1>7. NoUsePastLifetime' /\ \A i \in DOMAIN sessions' : sessions'[i].seen <= now'
  BY <1>1, <1>2 DEF NoUsePastLifetime, DocOK
<1>8. \A i \in DOMAIN sessions :
        i \in DOMAIN sessions' /\ OnlyAges(sessions[i], sessions'[i])
  BY <1>1, <1>2 DEF DocOK
<1>9. Barring'
  BY <1>2 DEF Barring
<1> QED BY <1>4, <1>5, <1>6, <1>7, <1>8, <1>9

(* The clock.                                                               *)
LEMMA TickStep ==
  ASSUME Inv, Tick
  PROVE  Inv'
<1> USE DEF Inv
<1>1. now \in Nat /\ now' = now + 1 /\ now' \in 0..MaxTime
  BY AuthSessionAssumption DEF Tick, TypeOK
<1>2. UNCHANGED <<lock, users, sessions, thread, barred>>
  BY DEF Tick
<1>3. TypeOK'
  BY <1>1, <1>2 DEF TypeOK
<1>4. ASSUME NEW s \in Threads
      PROVE  ThreadOK(s)'
  <2> DEFINE th == thread[s]
  <2>1. th.pc = "store" => DocOK(th.sdoc, th.op, th.user)'
    <3> SUFFICES ASSUME th.pc = "store"
                 PROVE  DocOK(th.sdoc, th.op, th.user)'
      OBVIOUS
    <3>1. DocOK(th.sdoc, th.op, th.user) /\ th.sdoc \in Seq(Session)
      BY DEF ThreadOK, TypeOK, ThreadState, SessionDoc
    <3>2. \A i \in DOMAIN th.sdoc : th.sdoc[i] \in Session
      BY <3>1
    <3>3. \A i \in DOMAIN th.sdoc : th.sdoc[i].seen \in Nat
      BY <3>2 DEF Session
    <3>4. \A i \in DOMAIN th.sdoc : th.sdoc[i].seen <= now'
      BY <1>1, <3>1, <3>3 DEF DocOK
    <3> QED BY <1>2, <3>1, <3>4 DEF DocOK, OnlyAges
  <2> QED BY <1>2, <2>1 DEF ThreadOK
<1>5. \A i \in DOMAIN sessions' : sessions'[i].seen <= now'
  <2>1. \A i \in DOMAIN sessions : sessions[i] \in Session
    BY DEF TypeOK, SessionDoc
  <2>2. \A i \in DOMAIN sessions : sessions[i].seen \in Nat
    BY <2>1 DEF Session
  <2> QED BY <1>1, <1>2, <2>2
<1> QED BY <1>2, <1>3, <1>4, <1>5
        DEF Barring, BarredUserHasNoSession, SessionsOf, NoUsePastLifetime

-----------------------------------------------------------------------------
(***************************************************************************)
(* The operations.                                                         *)
(***************************************************************************)

(* Operations on accounts.                                                  *)
LEMMA AccountSteps ==
  ASSUME Inv, NEW t \in Threads, AccountStep(t)
  PROVE  Inv'
<1> USE DEF Inv
<1>1. /\ users \in UserDoc
      /\ \A a \in Accounts, on \in BOOLEAN : Switched(a, on) \in Accounts
  BY DEF TypeOK, Switched, Accounts
<1>2. CASE \E u \in Users : CreateUser(t, u)
  <2>1. PICK u \in Users, on \in BOOLEAN :
          /\ Idle(t)
          /\ BeginUpdate(t, u, [users EXCEPT ![u] = Switched("local", on)])
    BY <1>2 DEF CreateUser
  <2>2. [users EXCEPT ![u] = Switched("local", on)] \in UserDoc
    BY <1>1 DEF UserDoc, Accounts
  <2> QED BY <2>1, <2>2, UpdateStep
<1>3. CASE \E u \in Users : UpdateUser(t, u)
  <2>1. PICK u \in Users : UpdateUser(t, u)
    BY <1>3
  <2>2. CASE BeginUpdate(t, u, users)
    BY <1>1, <2>1, <2>2, UpdateStep DEF UpdateUser
  <2>3. CASE \E on \in BOOLEAN :
               BeginUpdate(t, u, [users EXCEPT ![u] = Switched(@, on)])
    <3>1. PICK on \in BOOLEAN :
            BeginUpdate(t, u, [users EXCEPT ![u] = Switched(@, on)])
      BY <2>3
    <3>2. [users EXCEPT ![u] = Switched(@, on)] \in UserDoc
      BY <1>1 DEF UserDoc
    <3> QED BY <2>1, <3>1, <3>2, UpdateStep DEF UpdateUser
  <2> QED BY <2>1, <2>2, <2>3 DEF UpdateUser
<1>4. CASE \E u \in Users : DeleteUser(t, u)
  <2>1. PICK u \in Users : DeleteUser(t, u)
    BY <1>4
  <2>2. [users EXCEPT ![u] = "absent"] \in UserDoc
    BY <1>1 DEF UserDoc, Accounts
  <2> QED BY <2>1, <2>2, UpdateStep DEF DeleteUser
<1>5. CASE \E u \in Users : DeleteRole(t, u)
  BY <1>1, <1>5, UpdateStep DEF DeleteRole
<1>6. CASE \E u \in Users : ChangeTotp(t, u)
  <2>1. PICK u \in Users : ChangeTotp(t, u)
    BY <1>6
  <2>2. users[u] \in Accounts
    BY <1>1 DEF UserDoc
  <2>3. lock = None /\ lock' = t
    BY <2>1 DEF ChangeTotp, Acquire
  <2> QED BY <2>1, <2>2, <2>3, RecordStep DEF ChangeTotp, Ops
<1> QED BY <1>2, <1>3, <1>4, <1>5, <1>6, PersistLoadStep, WriteUsersStep
        DEF AccountStep

(* A request in a session takes the lock and prepares sessions.json.        *)
LEMMA BeginSessionStep ==
  ASSUME Inv, NEW t \in Threads, NEW kind \in Ops \ {"mirror"}, NEW u \in Users,
         NEW doc \in SessionDoc, DocOK(doc, kind, u),
         BeginSession(t, kind, u, doc)
  PROVE  Inv'
<1>1. lock = None /\ lock' = t
  BY DEF BeginSession, Acquire
<1> QED BY <1>1, SessionsStep DEF BeginSession

(* Revoking sessions of the file is always a good document, for a request   *)
(* about one session.                                                       *)
LEMMA RevokeSome ==
  ASSUME Inv, NEW S, NEW kind, NEW u, kind # "revoke_user"
  PROVE  Revoke(sessions, S) \in SessionDoc /\ DocOK(Revoke(sessions, S), kind, u)
<1>1. sessions \in SessionDoc
  BY DEF Inv, TypeOK
<1>2. Revoke(sessions, S) \in SessionDoc /\ RevokedIn(sessions, Revoke(sessions, S))
  BY <1>1, RevokeDoc
<1> QED BY <1>2, RevokedIsOK

(* Operations on sessions.                                                  *)
LEMMA SessionSteps ==
  ASSUME Inv, NEW t \in Threads, SessionStep(t)
  PROVE  Inv'
<1> USE DEF Inv
<1>1. /\ sessions \in SessionDoc
      /\ \A i \in DOMAIN sessions : sessions[i].user \in Users
  <2>1. \A i \in DOMAIN sessions : sessions[i] \in Session
    BY DEF TypeOK, SessionDoc
  <2> QED BY <2>1 DEF TypeOK, Session
<1>2. CASE \E u \in Users : Login(t, u)
  <2>1. PICK u \in Users : Login(t, u)
    BY <1>2
  <2>2. lock = None /\ lock' = t /\ UNCHANGED <<now, users, sessions, barred>>
    BY <2>1 DEF Login, Acquire
  <2>3. CASE thread' = [thread EXCEPT ![t] = WithRecord("find", "shadow", u, "absent")]
    BY <2>2, <2>3, RecordStep DEF Ops, Accounts
  <2>4. CASE thread' = [thread EXCEPT ![t] = WithRecord("persist", "mirror", u, "ldap")]
    <3>1. Enabled("ldap") /\ "ldap" \in Accounts /\ "mirror" \in Ops
      BY DEF Enabled, Accounts, Ops
    <3> QED BY <2>2, <2>4, <3>1, RecordStep
  <2>5. CASE /\ users[u] = "local"
             /\ thread' = [thread EXCEPT ![t] = WithRecord("issue", "login", u, "absent")]
    <3>1. ~ barred[u]
      BY <2>5 DEF Barring, Enabled
    <3> QED BY <2>2, <2>5, <3>1, RecordStep DEF Ops, Accounts
  <2> QED BY <2>1, <2>3, <2>4, <2>5 DEF Login
<1>3. CASE \E u \in Users : RevokeUserSessions(t, u)
  <2>1. PICK u \in Users : RevokeUserSessions(t, u)
    BY <1>3
  <2> DEFINE doc == Revoke(sessions, SessionsOf(u))
  <2>2. /\ doc \in SessionDoc /\ RevokedIn(sessions, doc)
        /\ \A i \in DOMAIN sessions \cap SessionsOf(u) : doc[i].revoked
    BY <1>1, RevokeDoc
  <2> HIDE DEF doc
  <2>3. \A i \in DOMAIN doc : doc[i].user = u => doc[i].revoked
    BY <2>2 DEF RevokedIn, SessionsOf
  <2>4. DocOK(doc, "revoke_user", u)
    BY <2>2, <2>3, RevokedIsOK
  <2>5. "revoke_user" \in Ops \ {"mirror"}
    BY DEF Ops
  <2> QED BY <2>1, <2>2, <2>4, <2>5, BeginSessionStep DEF RevokeUserSessions, doc
<1>4. CASE FindShadow(t)
  <2> DEFINE u == thread[t].user
             a == Shadow(users[u])
  <2>1. u \in Users /\ lock = t
    BY <1>4 DEF FindShadow, ThreadOK
  <2>2. a \in Accounts /\ "shadow" \in Ops
    BY DEF Shadow, Accounts, Ops
  <2>3. /\ thread' = [thread EXCEPT ![t] = WithRecord("persist", "shadow", u, a)]
        /\ UNCHANGED <<now, lock, users, sessions, barred>>
    BY <1>4 DEF FindShadow
  <2> HIDE DEF u, a
  <2> QED BY <2>1, <2>2, <2>3, RecordStep
<1>5. CASE IssueSession(t)
  <2> DEFINE u == thread[t].user
             old == EnforceLimit(sessions, u, now)
             doc == Append(old, NewSession(u, now))
  <2>1. u \in Users /\ lock = t /\ ~ barred[u]
    BY <1>5 DEF IssueSession, ThreadOK
  <2>2. /\ thread' = [thread EXCEPT ![t] = WithSessions("login", u, doc)]
        /\ UNCHANGED <<now, lock, users, sessions, barred>>
    BY <1>5 DEF IssueSession
  <2>3. old \in SessionDoc /\ RevokedIn(sessions, old)
    BY <1>1, EnforceDoc
  <2> HIDE DEF u, old
  <2>4. DocOK(old, "login", u) /\ DOMAIN old = DOMAIN sessions
    BY <2>3, RevokedIsOK DEF RevokedIn
  <2>5. doc \in SessionDoc /\ DocOK(doc, "login", u)
    BY <2>1, <2>3, <2>4, IssuedIsOK
  <2> HIDE DEF doc
  <2>6. "login" \in Ops \ {"mirror"}
    BY DEF Ops
  <2> QED BY <2>1, <2>2, <2>5, <2>6, SessionsStep
<1>6. CASE \E i \in DOMAIN sessions : RefreshSession(t, i)
  <2>1. PICK i \in DOMAIN sessions : RefreshSession(t, i)
    BY <1>6
  <2>2. "refresh" \in Ops \ {"mirror"}
    BY DEF Ops
  <2>3. CASE Expired(sessions[i], now) \/ ~ Enabled(users[sessions[i].user])
    <3>1. BeginSession(t, "refresh", sessions[i].user, Revoke(sessions, {i}))
      BY <2>1, <2>3 DEF RefreshSession
    <3> QED BY <1>1, <2>2, <3>1, RevokeSome, BeginSessionStep
  <2>4. CASE ~ Expired(sessions[i], now) /\ Enabled(users[sessions[i].user])
    <3>1. BeginSession(t, "refresh", sessions[i].user, Touch(sessions, i))
      BY <2>1, <2>4 DEF RefreshSession
    <3> QED BY <1>1, <2>2, <2>4, <3>1, TouchedIsOK, BeginSessionStep
  <2> QED BY <2>3, <2>4
<1>7. CASE \E i \in DOMAIN sessions : Resolve(t, i)
  <2>1. PICK i \in DOMAIN sessions : Resolve(t, i)
    BY <1>7
  <2>2. "resolve" \in Ops \ {"mirror"}
    BY DEF Ops
  <2>3. CASE AccessExpired(sessions[i], now)
    <3>1. BeginSession(t, "resolve", sessions[i].user, Revoke(sessions, {i}))
      BY <2>1, <2>3 DEF Resolve
    <3> QED BY <1>1, <2>2, <3>1, RevokeSome, BeginSessionStep
  <2>4. CASE ~ AccessExpired(sessions[i], now)
    <3>1. BeginSession(t, "resolve", sessions[i].user, Touch(sessions, i))
      BY <2>1, <2>4 DEF Resolve
    <3>2. ~ Expired(sessions[i], now)
      BY <2>4 DEF AccessExpired
    <3> QED BY <1>1, <2>2, <3>1, <3>2, TouchedIsOK, BeginSessionStep
  <2> QED BY <2>3, <2>4
<1>8. CASE \E i, j \in DOMAIN sessions : Logout(t, i, j)
  <2>1. PICK i, j \in DOMAIN sessions : Logout(t, i, j)
    BY <1>8
  <2>2. "logout" \in Ops \ {"mirror"}
    BY DEF Ops
  <2>3. BeginSession(t, "logout", sessions[i].user, Revoke(sessions, {i, j}))
    BY <2>1 DEF Logout
  <2> QED BY <1>1, <2>2, <2>3, RevokeSome, BeginSessionStep
<1> QED BY <1>2, <1>3, <1>4, <1>5, <1>6, <1>7, <1>8, StoreSessionsStep
        DEF SessionStep

(* The invariant is inductive.                                              *)
LEMMA StepInv ==
  Inv /\ [Next]_vars => Inv'
<1> SUFFICES ASSUME Inv, [Next]_vars PROVE Inv'
  OBVIOUS
<1>1. CASE Tick
  BY <1>1, TickStep
<1>2. ASSUME NEW t \in Threads, AccountStep(t)
      PROVE  Inv'
  BY <1>2, AccountSteps
<1>3. ASSUME NEW t \in Threads, SessionStep(t)
      PROVE  Inv'
  BY <1>3, SessionSteps
<1>4. ASSUME NEW t \in Threads, Abort(t)
      PROVE  Inv'
  BY <1>4, StopStep DEF Abort
<1>5. CASE UNCHANGED vars
  BY <1>5 DEF vars, Inv, TypeOK, Barring, BarredUserHasNoSession, SessionsOf,
              NoUsePastLifetime, ThreadOK, DocOK, OnlyAges
<1> QED BY <1>1, <1>2, <1>3, <1>4, <1>5 DEF Next

LEMMA InvHolds == Spec => []Inv
<1>1. Init => Inv
  BY InitInv
<1>2. Inv /\ [Next]_vars => Inv'
  BY StepInv
<1> QED BY <1>1, <1>2, PTL DEF Spec

-----------------------------------------------------------------------------
(***************************************************************************)
(* Every state of the accounts, the sessions and the threads is typed.     *)
(***************************************************************************)
THEOREM TypeCorrect == Spec => []TypeOK
<1>1. Inv => TypeOK
  BY DEF Inv
<1> QED BY <1>1, InvHolds, PTL

(***************************************************************************)
(* After an account has been switched off and its sessions revoked, no      *)
(* login, refresh or request under way brings one back (login and           *)
(* revoke_user_sessions under _state_lock).                                 *)
(***************************************************************************)
THEOREM RevocationIsFinal == Spec => []BarredUserHasNoSession
<1>1. Inv => BarredUserHasNoSession
  BY DEF Inv
<1> QED BY <1>1, InvHolds, PTL

(***************************************************************************)
(* No use of a session lies after the end of its refresh lifetime.         *)
(***************************************************************************)
THEOREM LifetimeIsBounded == Spec => []NoUsePastLifetime
<1>1. Inv => NoUsePastLifetime
  BY DEF Inv
<1> QED BY <1>1, InvHolds, PTL

(* Only the write of sessions.json changes the sessions.                    *)
LEMMA SessionsChange ==
  ASSUME Inv, [Next]_vars, sessions' # sessions
  PROVE  \E t \in Threads : StoreSessions(t)
BY DEF Next, vars, Tick, AccountStep, CreateUser, UpdateUser, DeleteUser,
       DeleteRole, ChangeTotp, BeginUpdate, PersistLoad, WriteUsers,
       SessionStep, Login, RevokeUserSessions, FindShadow, IssueSession,
       RefreshSession, Resolve, Logout, BeginSession, Abort

(***************************************************************************)
(* sessions.json only ages: no login is lost, no revoked session returns,   *)
(* no use is forgotten or comes after the idle timeout, however the         *)
(* threads interleave.                                                      *)
(***************************************************************************)
THEOREM SessionsAge == Spec => SessionsOnlyAge
<1>1. Inv /\ [Next]_vars =>
        [ /\ DOMAIN sessions \subseteq DOMAIN sessions'
          /\ \A i \in DOMAIN sessions : OnlyAges(sessions[i], sessions'[i])
        ]_sessions
  BY SessionsChange, StoreSessionsStep
<1> QED BY <1>1, InvHolds, PTL DEF Spec, SessionsOnlyAge

-----------------------------------------------------------------------------
(***************************************************************************)
(* The registry.  Every document that a thread is about to write is the     *)
(* result of one operation of SessionRegistry on the file as it is now,     *)
(* because no other thread writes while the lock is held.  The session      *)
(* limit then is a matter of the operations alone.                          *)
(***************************************************************************)

Prepared ==
  \A t \in Threads :
    thread[t].pc = "store" => Registry!Operation(sessions, thread[t].sdoc)

(* No account has more usable sessions than the limit allows, at any time   *)
(* from the last use on.                                                    *)
LimitKept(doc) ==
  MaxSessions > 0 =>
    \A u \in Users, c \in Nat :
      (\A i \in DOMAIN doc : doc[i].seen <= c) =>
        Cardinality(Registry!UsableBy(doc, u, c)) <= MaxSessions

RegistryInv == Prepared /\ LimitKept(sessions)

(* The sessions of S that are revoked before session i.                     *)
Earlier(doc, S, i) == {j \in S : Before(doc, j, i)}

(* A session of a document has the time stamps and the name of one.         *)
LEMMA SessionFields ==
  ASSUME NEW doc \in SessionDoc, NEW i \in DOMAIN doc
  PROVE  /\ doc[i] \in Session /\ i \in Nat
         /\ doc[i].seen \in Nat /\ doc[i].created \in Nat /\ doc[i].user \in Users
<1>1. doc[i] \in Session /\ i \in Nat
  BY DEF SessionDoc
<1> QED BY <1>1 DEF Session

(* Both modules count with the Cardinality of FiniteSets.                   *)
LEMMA SameCardinality == \A S : Registry!Cardinality(S) = Cardinality(S)
BY DEF Registry!Cardinality, Cardinality

(* Usable is what the code calls not expired.                               *)
LEMMA UsableIsLive ==
  ASSUME NEW doc \in SessionDoc, NEW t \in Nat
  PROVE  /\ \A i \in DOMAIN doc : Registry!Usable(doc[i], t) <=> ~ Expired(doc[i], t)
         /\ \A u : LiveOf(doc, u, t) = Registry!UsableBy(doc, u, t)
<1>1. ASSUME NEW i \in DOMAIN doc
      PROVE  Registry!Usable(doc[i], t) <=> ~ Expired(doc[i], t)
  BY SessionFields, AuthSessionAssumption DEF Registry!Usable, Expired
<1> QED BY <1>1 DEF LiveOf, Registry!UsableBy

(* Any set of sessions of a document is finite.                             *)
LEMMA SessionsFinite ==
  ASSUME NEW doc \in SessionDoc, NEW S \in SUBSET DOMAIN doc
  PROVE  IsFiniteSet(S) /\ Cardinality(S) \in Nat
<1>1. Len(doc) \in Nat /\ DOMAIN doc = 1..Len(doc)
  BY DEF SessionDoc
<1>2. IsFiniteSet(DOMAIN doc)
  BY <1>1, FS_Interval
<1> QED BY <1>2, FS_Subset, FS_CardinalityType

(* A smaller set of sessions has no more elements.                          *)
LEMMA FewerSessions ==
  ASSUME NEW doc \in SessionDoc, NEW S \in SUBSET DOMAIN doc, NEW T \in SUBSET S
  PROVE  /\ Cardinality(T) \in Nat /\ Cardinality(S) \in Nat
         /\ Cardinality(T) <= Cardinality(S)
         /\ T # S => Cardinality(T) < Cardinality(S)
<1>1. /\ IsFiniteSet(S) /\ Cardinality(S) \in Nat /\ Cardinality(T) \in Nat
  BY SessionsFinite
<1> QED BY <1>1, FS_Subset

(* The order in which sessions are revoked is total, and a session has      *)
(* fewer others before it than one that comes later.                        *)
LEMMA EarlierIsLess ==
  ASSUME NEW doc \in SessionDoc, NEW S \in SUBSET DOMAIN doc,
         NEW i \in S, NEW j \in S, i # j
  PROVE  \/ /\ Before(doc, i, j)
            /\ Cardinality(Earlier(doc, S, i)) < Cardinality(Earlier(doc, S, j))
         \/ /\ Before(doc, j, i)
            /\ Cardinality(Earlier(doc, S, j)) < Cardinality(Earlier(doc, S, i))
<1>1. \A k \in S : doc[k].seen \in Nat /\ doc[k].created \in Nat /\ k \in Nat
  BY SessionFields
<1>2. Before(doc, i, j) \/ Before(doc, j, i)
  BY <1>1 DEF Before
<1>3. ASSUME NEW a \in S, NEW b \in S, Before(doc, a, b)
      PROVE  Cardinality(Earlier(doc, S, a)) < Cardinality(Earlier(doc, S, b))
  <2>1. ~ Before(doc, a, a)
    BY <1>1 DEF Before
  <2>2. \A k \in S : Before(doc, k, a) => Before(doc, k, b)
    BY <1>1, <1>3 DEF Before
  <2>3. /\ Earlier(doc, S, a) \subseteq Earlier(doc, S, b)
        /\ a \in Earlier(doc, S, b) /\ a \notin Earlier(doc, S, a)
        /\ Earlier(doc, S, b) \subseteq DOMAIN doc
    BY <1>3, <2>1, <2>2 DEF Earlier
  <2> QED BY <2>3, FewerSessions
<1> QED BY <1>2, <1>3

(* So the sessions that have from a to b others before them are no more     *)
(* than there are numbers from a to b.                                      *)
LEMMA RankBound ==
  ASSUME NEW doc \in SessionDoc, NEW S \in SUBSET DOMAIN doc,
         NEW T \in SUBSET S, NEW a \in Int, NEW b \in Int,
         \A i \in T : /\ a <= Cardinality(Earlier(doc, S, i))
                      /\ Cardinality(Earlier(doc, S, i)) <= b
  PROVE  Cardinality(T) <= IF a > b THEN 0 ELSE b - a + 1
<1> DEFINE rank == [i \in T |-> Cardinality(Earlier(doc, S, i))]
<1>1. \A i \in T : Cardinality(Earlier(doc, S, i)) \in Nat
  <2>1. \A i \in T : Earlier(doc, S, i) \subseteq DOMAIN doc
    BY DEF Earlier
  <2> QED BY <2>1, SessionsFinite
<1>2. rank \in [T -> a..b]
  BY <1>1
<1>3. \A i, j \in T : i # j => rank[i] # rank[j]
  BY <1>1, EarlierIsLess
<1> HIDE DEF rank
<1>4. rank \in Injection(T, a..b)
  BY <1>2, <1>3 DEF Injection, IsInjective
<1>5. /\ IsFiniteSet(a..b)
      /\ Cardinality(a..b) = IF a > b THEN 0 ELSE b - a + 1
  BY FS_Interval
<1> QED BY <1>4, <1>5, FS_Injection

(* _enforce_session_limit leaves at most one session less than the limit,   *)
(* no less than that if it takes a usable one, and takes them in order.     *)
LEMMA SurplusMakesRoom ==
  ASSUME NEW doc \in SessionDoc, NEW u, NEW t, MaxSessions > 0
  PROVE  LET live == LiveOf(doc, u, t)
             surplus == Surplus(doc, u, t)
         IN  /\ surplus \subseteq live
             /\ Cardinality(live \ surplus) < MaxSessions
             /\ surplus # {} => Cardinality(live \ surplus) = MaxSessions - 1
             /\ \A i \in surplus, j \in live \ surplus : doc[i].seen <= doc[j].seen
<1> DEFINE live == LiveOf(doc, u, t)
           surplus == Surplus(doc, u, t)
           kept == live \ surplus
           n == Cardinality(live)
<1>1. live \in SUBSET DOMAIN doc /\ surplus \in SUBSET live /\ kept \in SUBSET live
  BY DEF LiveOf, Surplus
<1>2. /\ IsFiniteSet(live) /\ n \in Nat /\ MaxSessions \in Nat
      /\ IsFiniteSet(surplus) /\ Cardinality(surplus) \in Nat
      /\ Cardinality(kept) \in Nat
  BY <1>1, SessionsFinite, AuthSessionAssumption
<1>3. \A i \in live : Earlier(doc, live, i) \subseteq live
  BY DEF Earlier
<1>4. ASSUME NEW i \in live
      PROVE  /\ Cardinality(Earlier(doc, live, i)) \in Nat
             /\ Cardinality(Earlier(doc, live, i)) <= n - 1
             /\ i \in surplus <=> Cardinality(Earlier(doc, live, i)) <= n - MaxSessions
  <2>1. i \in DOMAIN doc
    BY <1>1
  <2>2. doc[i].seen \in Nat /\ doc[i].created \in Nat /\ i \in Nat
    BY <2>1, SessionFields
  <2>3. i \notin Earlier(doc, live, i)
    BY <2>2 DEF Earlier, Before
  <2>4. /\ Cardinality(Earlier(doc, live, i)) \in Nat
        /\ Cardinality(Earlier(doc, live, i)) < n
    BY <1>1, <1>3, <2>3, FewerSessions
  <2> QED BY <1>2, <2>4 DEF Surplus, Earlier
<1>5. \A i \in surplus, j \in kept : doc[i].seen <= doc[j].seen
  <2> SUFFICES ASSUME NEW i \in surplus, NEW j \in kept
               PROVE  doc[i].seen <= doc[j].seen
    OBVIOUS
  <2>1. i \in live /\ j \in live /\ i # j /\ i \in DOMAIN doc /\ j \in DOMAIN doc
    BY <1>1
  <2>2. Cardinality(Earlier(doc, live, i)) < Cardinality(Earlier(doc, live, j))
    BY <1>2, <1>4, <2>1
  <2>3. Before(doc, i, j)
    BY <1>1, <1>4, <2>1, <2>2, EarlierIsLess
  <2> QED BY <2>1, <2>3, SessionFields DEF Before
<1> HIDE DEF live, surplus, n
<1>6. n - MaxSessions + 1 \in Int /\ n - 1 \in Int /\ n - MaxSessions \in Int
  BY <1>2
<1>7. Cardinality(kept) <= MaxSessions - 1
  <2>1. \A i \in kept : /\ n - MaxSessions + 1 <= Cardinality(Earlier(doc, live, i))
                        /\ Cardinality(Earlier(doc, live, i)) <= n - 1
    BY <1>2, <1>4
  <2>2. Cardinality(kept) <= IF n - MaxSessions + 1 > n - 1
                             THEN 0 ELSE (n - 1) - (n - MaxSessions + 1) + 1
    BY <1>1, <1>6, <2>1, RankBound
  <2> QED BY <1>2, <2>2
<1>8. ASSUME surplus # {}
      PROVE  Cardinality(kept) >= MaxSessions - 1
  <2> DEFINE first == 0
  <2>1. \A i \in surplus : /\ first <= Cardinality(Earlier(doc, live, i))
                           /\ Cardinality(Earlier(doc, live, i)) <= n - MaxSessions
    BY <1>1, <1>4
  <2>2. Cardinality(surplus) <= IF first > n - MaxSessions
                                THEN 0 ELSE (n - MaxSessions) - first + 1
    <3>1. first \in Int
      OBVIOUS
    <3> HIDE DEF first
    <3> QED BY <1>1, <1>6, <2>1, <3>1, RankBound
  <2>3. Cardinality(surplus) # 0
    BY <1>2, <1>8, FS_EmptySet
  <2>4. Cardinality(kept) = n - Cardinality(surplus)
    <3>1. live \cap surplus = surplus
      BY <1>1
    <3> QED BY <1>2, <3>1, FS_Difference DEF n
  <2> QED BY <1>2, <2>2, <2>3, <2>4
<1> HIDE DEF kept
<1> QED BY <1>1, <1>2, <1>5, <1>7, <1>8 DEF live, surplus, kept

-----------------------------------------------------------------------------
(***************************************************************************)
(* The documents the requests prepare are results of operations.           *)
(***************************************************************************)

(* A good clock reading for an operation on the file is the present one.    *)
LEMMA NowIsAMoment ==
  ASSUME Inv
  PROVE  /\ sessions \in SessionDoc /\ now \in Nat /\ now \in 0..now
         /\ Registry!Moment(sessions, now)
<1>1. sessions \in SessionDoc /\ now \in Nat
  BY DEF Inv, TypeOK
<1> QED BY <1>1 DEF Inv, Registry!Moment

(* Revoking sessions ends them.                                             *)
LEMMA RevokeEnds ==
  ASSUME NEW doc, NEW S
  PROVE  /\ Revoke(doc, S) = Registry!Ended(doc, S \cap DOMAIN doc)
         /\ Registry!Operation(doc, Revoke(doc, S))
<1>1. Revoke(doc, S) = Registry!Ended(doc, S \cap DOMAIN doc)
  BY DEF Revoke, Registry!Ended
<1>2. S \cap DOMAIN doc \in SUBSET DOMAIN doc
  OBVIOUS
<1>3. Registry!End(doc, Revoke(doc, S))
  BY <1>1, <1>2 DEF Registry!End
<1> QED BY <1>1, <1>3 DEF Registry!Operation

(* A request in a session that has not expired uses it.                     *)
LEMMA TouchUses ==
  ASSUME Inv, NEW i \in DOMAIN sessions, ~ Expired(sessions[i], now)
  PROVE  Registry!Operation(sessions, Touch(sessions, i))
<1>1. Registry!Usable(sessions[i], now)
  BY NowIsAMoment, UsableIsLive
<1>2. Registry!Use(sessions, Touch(sessions, i), i, now)
  BY <1>1, NowIsAMoment DEF Registry!Use, Touch
<1> QED BY <1>2, NowIsAMoment DEF Registry!Operation

(* A login makes room as the registry wants it.                             *)
LEMMA LimitMakesRoom ==
  ASSUME NEW doc \in SessionDoc, NEW u, NEW t \in Nat
  PROVE  \E S \in SUBSET DOMAIN doc :
           /\ EnforceLimit(doc, u, t) = Registry!Ended(doc, S)
           /\ Registry!MakesRoom(doc, u, t, S)
<1>1. LiveOf(doc, u, t) = Registry!UsableBy(doc, u, t)
  BY UsableIsLive
<1>2. CASE MaxSessions = 0
  <2>1. /\ doc \in Seq(Session)
        /\ EnforceLimit(doc, u, t) = [i \in DOMAIN doc |-> doc[i]]
    BY <1>2 DEF EnforceLimit, SessionDoc
  <2>2. EnforceLimit(doc, u, t) = Registry!Ended(doc, {})
    BY <2>1 DEF Registry!Ended
  <2>3. Registry!MakesRoom(doc, u, t, {})
    BY <1>2 DEF Registry!MakesRoom
  <2> QED BY <2>2, <2>3
<1>3. CASE MaxSessions > 0
  <2> DEFINE live == LiveOf(doc, u, t)
             surplus == Surplus(doc, u, t)
             S == StaleOf(doc, u, t) \cup surplus
  <2>1. /\ surplus \subseteq live
        /\ Cardinality(live \ surplus) < MaxSessions
        /\ surplus # {} => Cardinality(live \ surplus) = MaxSessions - 1
        /\ \A i \in surplus, j \in live \ surplus : doc[i].seen <= doc[j].seen
    BY <1>3, SurplusMakesRoom
  <2>2. /\ S \in SUBSET DOMAIN doc /\ \A i \in S : doc[i].user = u
        /\ StaleOf(doc, u, t) \cap live = {}
    BY <2>1 DEF StaleOf, LiveOf
  <2>3. EnforceLimit(doc, u, t) = Revoke(doc, S) /\ S \cap DOMAIN doc = S
    BY <1>3, <2>2 DEF EnforceLimit
  <2> HIDE DEF live, surplus
  <2>4. live \ S = live \ surplus /\ live \cap S = surplus
    BY <2>1, <2>2
  <2>5. live = Registry!UsableBy(doc, u, t)
    BY <1>1 DEF live
  <2> HIDE DEF S
  <2>6. Registry!MakesRoom(doc, u, t, S)
    <3>1. Cardinality(live \ S) = Cardinality(live \ surplus)
      BY <2>4
    <3>2. /\ Cardinality(live \ S) < MaxSessions
          /\ live \cap S # {} => Cardinality(live \ S) = MaxSessions - 1
      BY <2>1, <2>4, <3>1
    <3>3. \A i \in live \cap S, j \in live \ S : doc[i].seen <= doc[j].seen
      BY <2>1, <2>4
    <3> QED BY <1>3, <2>2, <2>5, <3>2, <3>3, SameCardinality DEF Registry!MakesRoom
  <2> QED BY <2>2, <2>3, <2>6, RevokeEnds
<1> QED BY <1>2, <1>3, AuthSessionAssumption

LEMMA IssueLogsIn ==
  ASSUME Inv, NEW u \in Users
  PROVE  Registry!Operation(sessions,
           Append(EnforceLimit(sessions, u, now), NewSession(u, now)))
<1> DEFINE new == Append(EnforceLimit(sessions, u, now), NewSession(u, now))
<1>1. PICK S \in SUBSET DOMAIN sessions :
        /\ EnforceLimit(sessions, u, now) = Registry!Ended(sessions, S)
        /\ Registry!MakesRoom(sessions, u, now, S)
  BY NowIsAMoment, LimitMakesRoom
<1>2. new = Append(Registry!Ended(sessions, S), Registry!Issued(u, now))
  BY <1>1 DEF NewSession, Registry!Issued
<1> HIDE DEF new
<1>3. Registry!Login(sessions, new, u, now)
  BY <1>1, <1>2, NowIsAMoment DEF Registry!Login
<1> QED BY <1>3, NowIsAMoment DEF Registry!Operation, new

(* What was an operation stays one as time passes.                          *)
LEMMA OperationLater ==
  ASSUME NEW doc, NEW new, Registry!Operation(doc, new),
         now \in Nat, now' \in Nat, now <= now'
  PROVE  Registry!Operation(doc, new)'
<1>1. \A c \in 0..now : c \in 0..now' /\ (Registry!Moment(doc, c)
                                           => Registry!Moment(doc, c)')
  BY DEF Registry!Moment
<1>2. CASE \E i \in DOMAIN doc, c \in 0..now : Registry!Use(doc, new, i, c)
  <2>1. PICK i \in DOMAIN doc, c \in 0..now : Registry!Use(doc, new, i, c)
    BY <1>2
  <2>2. Registry!Use(doc, new, i, c)' /\ c \in 0..now'
    BY <1>1, <2>1 DEF Registry!Use
  <2> QED BY <2>2 DEF Registry!Operation
<1>3. CASE Registry!End(doc, new)
  BY <1>3 DEF Registry!Operation
<1>4. CASE \E u \in Users, c \in 0..now : Registry!Login(doc, new, u, c)
  <2>1. PICK u \in Users, c \in 0..now : Registry!Login(doc, new, u, c)
    BY <1>4
  <2>2. Registry!Login(doc, new, u, c)' /\ c \in 0..now'
    BY <1>1, <2>1 DEF Registry!Login
  <2> QED BY <2>2 DEF Registry!Operation
<1> QED BY <1>2, <1>3, <1>4 DEF Registry!Operation

-----------------------------------------------------------------------------
(***************************************************************************)
(* The operations keep the limit.                                          *)
(***************************************************************************)

(* It is enough that every account has no more usable sessions than before, *)
(* or few enough at the time of the operation.                              *)
LEMMA KeepsLimit ==
  ASSUME NEW doc \in SessionDoc, NEW new \in SessionDoc, LimitKept(doc),
         \A i \in DOMAIN doc : i \in DOMAIN new /\ doc[i].seen <= new[i].seen,
         \A u \in Users, c \in Nat :
           (\A i \in DOMAIN new : new[i].seen <= c) =>
              \/ Registry!UsableBy(new, u, c) \subseteq Registry!UsableBy(doc, u, c)
              \/ MaxSessions > 0 =>
                   Cardinality(Registry!UsableBy(new, u, c)) <= MaxSessions
  PROVE  LimitKept(new)
<1> SUFFICES ASSUME MaxSessions > 0, NEW u \in Users, NEW c \in Nat,
                    \A i \in DOMAIN new : new[i].seen <= c
             PROVE  Cardinality(Registry!UsableBy(new, u, c)) <= MaxSessions
  BY DEF LimitKept
<1>1. CASE Registry!UsableBy(new, u, c) \subseteq Registry!UsableBy(doc, u, c)
  <2>1. \A i \in DOMAIN doc : doc[i].seen <= c
    BY SessionFields
  <2>2. Cardinality(Registry!UsableBy(doc, u, c)) <= MaxSessions
    BY <2>1 DEF LimitKept
  <2>3. Registry!UsableBy(doc, u, c) \subseteq DOMAIN doc
    BY DEF Registry!UsableBy
  <2>4. /\ Cardinality(Registry!UsableBy(new, u, c)) \in Nat
        /\ Cardinality(Registry!UsableBy(doc, u, c)) \in Nat
        /\ Cardinality(Registry!UsableBy(new, u, c))
             <= Cardinality(Registry!UsableBy(doc, u, c))
    BY <1>1, <2>3, FewerSessions
  <2> QED BY <2>2, <2>4, AuthSessionAssumption
<1> QED BY <1>1

(* The fields of a document some of whose sessions are ended.               *)
LEMMA EndedFields ==
  ASSUME NEW doc \in SessionDoc, NEW S \in SUBSET DOMAIN doc
  PROVE  /\ Registry!Ended(doc, S) \in SessionDoc
         /\ RevokedIn(doc, Registry!Ended(doc, S))
         /\ \A i \in S : Registry!Ended(doc, S)[i].revoked
<1>1. Registry!Ended(doc, S) = Revoke(doc, S) /\ DOMAIN doc \cap S = S
  BY DEF Registry!Ended, Revoke
<1> QED BY <1>1, RevokeDoc

LEMMA RevokedFewer ==
  ASSUME NEW doc, NEW new, RevokedIn(doc, new), NEW u, NEW c
  PROVE  Registry!UsableBy(new, u, c) \subseteq Registry!UsableBy(doc, u, c)
BY DEF RevokedIn, Registry!UsableBy, Registry!Usable

LEMMA EndKeepsLimit ==
  ASSUME NEW doc \in SessionDoc, NEW new, LimitKept(doc), Registry!End(doc, new)
  PROVE  LimitKept(new)
<1>1. PICK S \in SUBSET DOMAIN doc : new = Registry!Ended(doc, S)
  BY DEF Registry!End
<1>2. new \in SessionDoc /\ RevokedIn(doc, new)
  BY <1>1, EndedFields
<1>3. \A i \in DOMAIN doc : i \in DOMAIN new /\ doc[i].seen <= new[i].seen
  BY <1>2, SessionFields DEF RevokedIn
<1>4. \A u \in Users, c \in Nat :
        Registry!UsableBy(new, u, c) \subseteq Registry!UsableBy(doc, u, c)
  BY <1>2, RevokedFewer
<1> QED BY <1>2, <1>3, <1>4, KeepsLimit

LEMMA UseKeepsLimit ==
  ASSUME NEW doc \in SessionDoc, NEW new, LimitKept(doc), now \in Nat,
         NEW i \in DOMAIN doc, NEW c \in 0..now, Registry!Use(doc, new, i, c)
  PROVE  LimitKept(new)
<1> DEFINE r == [doc[i] EXCEPT !.seen = c]
<1>1. /\ doc[i] \in Session /\ c \in Nat /\ doc \in Seq(Session)
      /\ doc[i].created \in Nat /\ doc[i].seen \in Nat
  BY SessionFields DEF SessionDoc
<1>2. /\ r \in Session /\ r.seen = c /\ r.user = doc[i].user
      /\ r.created = doc[i].created /\ r.revoked = doc[i].revoked
  BY <1>1 DEF Session
<1>3. new = [doc EXCEPT ![i] = r]
  BY DEF Registry!Use
<1> HIDE DEF r
<1>4. /\ new \in SessionDoc /\ DOMAIN new = DOMAIN doc /\ new[i] = r
      /\ \A j \in DOMAIN doc : j # i => new[j] = doc[j]
  BY <1>1, <1>2, <1>3 DEF SessionDoc
<1>5. /\ Registry!Usable(doc[i], c)
      /\ \A j \in DOMAIN doc : doc[j].seen <= c
  BY DEF Registry!Use, Registry!Moment
<1>6. ASSUME NEW j \in DOMAIN doc
      PROVE  j \in DOMAIN new /\ doc[j].seen <= new[j].seen
  <2>1. CASE j = i
    BY <1>2, <1>4, <1>5, <2>1
  <2>2. CASE j # i
    BY <1>4, <2>2, SessionFields
  <2> QED BY <2>1, <2>2
<1>7. ASSUME MaxSessions > 0, NEW u \in Users, NEW d \in Nat,
             \A j \in DOMAIN new : new[j].seen <= d
      PROVE  Cardinality(Registry!UsableBy(new, u, d)) <= MaxSessions
  <2>1. c <= d
    BY <1>2, <1>4, <1>7
  <2>2. Registry!UsableBy(new, u, d) \subseteq Registry!UsableBy(doc, u, c)
    <3> SUFFICES ASSUME NEW j \in DOMAIN doc, new[j].user = u, Registry!Usable(new[j], d)
                 PROVE  doc[j].user = u /\ Registry!Usable(doc[j], c)
      BY <1>4 DEF Registry!UsableBy
    <3>1. CASE j = i
      BY <1>2, <1>4, <1>5, <3>1
    <3>2. CASE j # i
      <4>1. new[j] = doc[j] /\ doc[j].seen \in Nat /\ doc[j].created \in Nat
        BY <1>4, <3>2, SessionFields
      <4> QED BY <1>1, <2>1, <4>1, AuthSessionAssumption DEF Registry!Usable
    <3> QED BY <3>1, <3>2
  <2>3. Cardinality(Registry!UsableBy(doc, u, c)) <= MaxSessions
    BY <1>1, <1>5, <1>7 DEF LimitKept
  <2>4. Registry!UsableBy(doc, u, c) \subseteq DOMAIN doc
    BY DEF Registry!UsableBy
  <2>5. /\ Cardinality(Registry!UsableBy(new, u, d)) \in Nat
        /\ Cardinality(Registry!UsableBy(doc, u, c)) \in Nat
        /\ Cardinality(Registry!UsableBy(new, u, d))
             <= Cardinality(Registry!UsableBy(doc, u, c))
    BY <2>2, <2>4, FewerSessions
  <2> QED BY <2>3, <2>5, AuthSessionAssumption
<1> QED BY <1>7 DEF LimitKept

LEMMA LoginKeepsLimit ==
  ASSUME NEW doc \in SessionDoc, NEW new, LimitKept(doc), now \in Nat,
         NEW u \in Users, NEW c \in 0..now, Registry!Login(doc, new, u, c)
  PROVE  LimitKept(new)
<1> DEFINE s == Registry!Issued(u, c)
<1>1. PICK S \in SUBSET DOMAIN doc :
        /\ new = Append(Registry!Ended(doc, S), s)
        /\ Registry!MakesRoom(doc, u, c, S)
  BY DEF Registry!Login
<1> DEFINE old == Registry!Ended(doc, S)
<1>2. /\ c \in Nat /\ s \in Session
      /\ s.user = u /\ s.seen = c /\ s.created = c /\ ~ s.revoked
  BY DEF Registry!Issued, Session
<1>3. /\ old \in SessionDoc /\ RevokedIn(doc, old) /\ DOMAIN old = DOMAIN doc
      /\ \A i \in S : old[i].revoked
  BY EndedFields DEF RevokedIn
<1>4. \A i \in DOMAIN doc : doc[i].seen <= c
  BY DEF Registry!Login, Registry!Moment
<1> HIDE DEF s, old
<1>5. /\ new \in SessionDoc /\ Len(old) \in Nat
      /\ DOMAIN old = 1..Len(old) /\ DOMAIN new = 1..(Len(old) + 1)
      /\ \A i \in DOMAIN old : new[i] = old[i]
      /\ new[Len(old) + 1] = s
  BY <1>1, <1>2, <1>3 DEF SessionDoc, old
<1>6. ASSUME NEW i \in DOMAIN new
      PROVE  i \in DOMAIN doc \/ i = Len(old) + 1
  BY <1>3, <1>5
<1>7. ASSUME NEW i \in DOMAIN doc
      PROVE  i \in DOMAIN new /\ doc[i].seen <= new[i].seen
  <2>1. i \in DOMAIN old /\ new[i].seen = doc[i].seen
    BY <1>3, <1>5 DEF RevokedIn
  <2> QED BY <1>5, <2>1, SessionFields
<1>8. ASSUME NEW v \in Users, NEW d \in Nat,
             \A i \in DOMAIN new : new[i].seen <= d, v # u
      PROVE  Registry!UsableBy(new, v, d) \subseteq Registry!UsableBy(doc, v, d)
  <2>1. Registry!UsableBy(new, v, d) \subseteq Registry!UsableBy(old, v, d)
    BY <1>2, <1>3, <1>5, <1>6, <1>8 DEF Registry!UsableBy
  <2> QED BY <1>3, <2>1, RevokedFewer
<1>9. ASSUME MaxSessions > 0, NEW d \in Nat, \A i \in DOMAIN new : new[i].seen <= d
      PROVE  Cardinality(Registry!UsableBy(new, u, d)) <= MaxSessions
  <2> DEFINE kept == Registry!UsableBy(doc, u, c) \ S
  <2>1. c <= d
    BY <1>2, <1>5, <1>9
  <2>2. Registry!UsableBy(new, u, d) \subseteq kept \cup {Len(old) + 1}
    <3> SUFFICES ASSUME NEW i \in DOMAIN doc, new[i].user = u, Registry!Usable(new[i], d)
                 PROVE  i \in kept
      BY <1>6 DEF Registry!UsableBy
    <3>1. new[i] = old[i] /\ doc[i].seen \in Nat /\ doc[i].created \in Nat
      BY <1>3, <1>5, SessionFields
    <3>2. i \notin S /\ doc[i].user = u /\ Registry!Usable(doc[i], d)
      BY <1>3, <3>1 DEF RevokedIn, Registry!Usable
    <3>3. Registry!Usable(doc[i], c)
      BY <1>2, <2>1, <3>1, <3>2, AuthSessionAssumption DEF Registry!Usable
    <3> QED BY <3>2, <3>3 DEF Registry!UsableBy
  <2>3. kept \subseteq DOMAIN doc /\ Cardinality(kept) < MaxSessions
    <3>1. Registry!UsableBy(doc, u, c) \subseteq DOMAIN doc
      BY DEF Registry!UsableBy
    <3> QED BY <1>1, <1>9, <3>1, SameCardinality DEF Registry!MakesRoom
  <2> HIDE DEF kept
  <2>4. IsFiniteSet(kept) /\ Cardinality(kept) \in Nat
    BY <2>3, SessionsFinite
  <2>5. /\ IsFiniteSet(kept \cup {Len(old) + 1})
        /\ Cardinality(kept \cup {Len(old) + 1}) <= Cardinality(kept) + 1
        /\ Cardinality(kept \cup {Len(old) + 1}) \in Nat
    <3> DEFINE x == Len(old) + 1
               more == kept \cup {x}
    <3> HIDE DEF x
    <3>1. /\ IsFiniteSet(more)
          /\ Cardinality(more) = IF x \in kept THEN Cardinality(kept)
                                               ELSE Cardinality(kept) + 1
      BY <2>4, FS_AddElement
    <3> HIDE DEF more
    <3>2. Cardinality(more) <= Cardinality(kept) + 1 /\ Cardinality(more) \in Nat
      BY <2>4, <3>1
    <3> QED BY <3>1, <3>2 DEF more, x
  <2>6. /\ Cardinality(Registry!UsableBy(new, u, d)) \in Nat
        /\ Cardinality(Registry!UsableBy(new, u, d))
             <= Cardinality(kept \cup {Len(old) + 1})
    BY <2>2, <2>5, FS_Subset, FS_CardinalityType
  <2> QED BY <2>3, <2>4, <2>5, <2>6, AuthSessionAssumption
<1>10. \A v \in Users, d \in Nat :
         (\A i \in DOMAIN new : new[i].seen <= d) =>
            \/ Registry!UsableBy(new, v, d) \subseteq Registry!UsableBy(doc, v, d)
            \/ MaxSessions > 0 =>
                 Cardinality(Registry!UsableBy(new, v, d)) <= MaxSessions
  BY <1>8, <1>9
<1> QED BY <1>5, <1>7, <1>10, KeepsLimit

(* Every operation of the registry keeps the session limit.                 *)
LEMMA OperationKeepsLimit ==
  ASSUME NEW doc \in SessionDoc, NEW new, LimitKept(doc), now \in Nat,
         Registry!Operation(doc, new)
  PROVE  LimitKept(new)
BY EndKeepsLimit, UseKeepsLimit, LoginKeepsLimit DEF Registry!Operation

-----------------------------------------------------------------------------
(***************************************************************************)
(* The threads implement the registry.                                     *)
(***************************************************************************)

(* A step that leaves the file alone keeps what is prepared, if what the    *)
(* thread carries afterwards is prepared, too.                              *)
LEMMA StaysPrepared ==
  ASSUME Inv, Prepared, NEW t \in Threads, NEW th,
         thread' = [thread EXCEPT ![t] = th],
         UNCHANGED <<now, sessions>>,
         th.pc = "store" => Registry!Operation(sessions, th.sdoc)
  PROVE  Prepared'
<1>1. \A s \in Threads : thread'[s] = IF s = t THEN th ELSE thread[s]
  BY DEF Inv, TypeOK
<1>2. \A s \in Threads : thread'[s].pc = "store" =>
        Registry!Operation(sessions, thread'[s].sdoc)
  BY <1>1 DEF Prepared
<1>3. now \in Nat /\ now' \in Nat /\ now <= now' /\ sessions' = sessions
  BY NowIsAMoment
<1> QED BY <1>2, <1>3, OperationLater DEF Prepared

(* A step of a thread that does not prepare sessions.json.                  *)
LEMMA OtherStepsStayPrepared ==
  ASSUME Inv, Prepared, NEW t \in Threads, NEW th, th.pc # "store",
         thread' = [thread EXCEPT ![t] = th], UNCHANGED <<now, sessions>>
  PROVE  Prepared'
BY StaysPrepared

(* A step of a thread that does.                                            *)
LEMMA SessionsArePrepared ==
  ASSUME Inv, Prepared, NEW t \in Threads, NEW kind, NEW u, NEW doc,
         Registry!Operation(sessions, doc),
         thread' = [thread EXCEPT ![t] = WithSessions(kind, u, doc)],
         UNCHANGED <<now, sessions>>
  PROVE  Prepared'
<1> DEFINE th == WithSessions(kind, u, doc)
<1>1. th.sdoc = doc
  BY DEF WithSessions, IdleThread
<1> HIDE DEF th
<1> QED BY <1>1, StaysPrepared DEF th

(* The steps that a thread carries are not all writes of sessions.json.     *)
LEMMA OtherThreadSteps ==
  /\ IdleThread.pc # "store"
  /\ \A step, kind, u, a :
        step # "store" => WithRecord(step, kind, u, a).pc # "store"
  /\ \A kind, u, a, doc : WithUsers(kind, u, a, doc).pc # "store"
  /\ \A th : AfterWrite(th).pc # "store"
<1>1. IdleThread.pc = "idle"
  BY DEF IdleThread
<1>2. \A step, kind, u, a : WithRecord(step, kind, u, a).pc = step
  BY DEF WithRecord, IdleThread
<1>3. \A kind, u, a, doc : WithUsers(kind, u, a, doc).pc = "write"
  BY DEF WithUsers, IdleThread
<1>4. ASSUME NEW th
      PROVE  AfterWrite(th).pc # "store"
  BY <1>1, <1>2 DEF AfterWrite
<1> QED BY <1>1, <1>2, <1>3, <1>4

LEMMA AccountStepsPrepared ==
  ASSUME Inv, Prepared, NEW t \in Threads, AccountStep(t)
  PROVE  Prepared'
<1>1. ASSUME NEW u, NEW doc, BeginUpdate(t, u, doc)
      PROVE  Prepared'
  BY <1>1, OtherThreadSteps, OtherStepsStayPrepared DEF BeginUpdate
<1>2. CASE \E u \in Users : ChangeTotp(t, u)
  <2>1. PICK u \in Users :
          /\ thread' = [thread EXCEPT ![t] =
                           WithRecord("persist", "totp", u, users[u])]
          /\ UNCHANGED <<now, users, sessions, barred>>
    BY <1>2 DEF ChangeTotp
  <2> DEFINE th == WithRecord("persist", "totp", u, users[u])
  <2>2. th.pc # "store"
    BY OtherThreadSteps
  <2> HIDE DEF th
  <2> QED BY <2>1, <2>2, OtherStepsStayPrepared DEF th
<1>3. CASE PersistLoad(t)
  BY <1>3, OtherThreadSteps, OtherStepsStayPrepared DEF PersistLoad
<1>4. CASE WriteUsers(t)
  BY <1>4, OtherThreadSteps, OtherStepsStayPrepared DEF WriteUsers
<1> QED BY <1>1, <1>2, <1>3, <1>4
        DEF AccountStep, CreateUser, UpdateUser, DeleteUser, DeleteRole

LEMMA SessionStepsPrepared ==
  ASSUME Inv, Prepared, NEW t \in Threads, SessionStep(t), ~ StoreSessions(t)
  PROVE  Prepared'
<1>1. \A S : Registry!Operation(sessions, Revoke(sessions, S))
  BY RevokeEnds
<1>2. ASSUME NEW kind, NEW u, NEW doc, BeginSession(t, kind, u, doc),
             Registry!Operation(sessions, doc)
      PROVE  Prepared'
  BY <1>2, SessionsArePrepared DEF BeginSession
<1>3. CASE \E u \in Users : Login(t, u)
  BY <1>3, OtherThreadSteps, OtherStepsStayPrepared DEF Login
<1>4. CASE FindShadow(t)
  BY <1>4, OtherThreadSteps, OtherStepsStayPrepared DEF FindShadow
<1>5. CASE IssueSession(t)
  <2> DEFINE u == thread[t].user
             doc == Append(EnforceLimit(sessions, u, now), NewSession(u, now))
  <2>1. u \in Users
    BY <1>5 DEF IssueSession, Inv, ThreadOK
  <2>2. Registry!Operation(sessions, doc)
    BY <2>1, IssueLogsIn
  <2>3. /\ thread' = [thread EXCEPT ![t] = WithSessions("login", u, doc)]
        /\ UNCHANGED <<now, sessions>>
    BY <1>5 DEF IssueSession
  <2> HIDE DEF u, doc
  <2> QED BY <2>2, <2>3, SessionsArePrepared
<1>6. CASE \E u \in Users : RevokeUserSessions(t, u)
  BY <1>1, <1>2, <1>6 DEF RevokeUserSessions
<1>7. CASE \E i \in DOMAIN sessions : RefreshSession(t, i)
  BY <1>1, <1>2, <1>7, TouchUses DEF RefreshSession
<1>8. CASE \E i \in DOMAIN sessions : Resolve(t, i)
  BY <1>1, <1>2, <1>8, TouchUses DEF Resolve, AccessExpired
<1>9. CASE \E i, j \in DOMAIN sessions : Logout(t, i, j)
  BY <1>1, <1>2, <1>9 DEF Logout
<1> QED BY <1>3, <1>4, <1>5, <1>6, <1>7, <1>8, <1>9 DEF SessionStep

(* Writing sessions.json is an operation of the registry.  No other thread  *)
(* has prepared one meanwhile, for it would hold the lock.                  *)
LEMMA StoreOperates ==
  ASSUME Inv, RegistryInv, NEW t \in Threads, StoreSessions(t)
  PROVE  Registry!Operate /\ RegistryInv'
<1>1. /\ thread[t].pc = "store" /\ sessions' = thread[t].sdoc
      /\ thread' = [thread EXCEPT ![t] = IdleThread]
      /\ UNCHANGED now
  BY DEF StoreSessions
<1>2. Registry!Operation(sessions, thread[t].sdoc)
  BY <1>1 DEF RegistryInv, Prepared
<1>3. Registry!Operate
  BY <1>1, <1>2 DEF Registry!Operate
<1>4. LimitKept(thread[t].sdoc)
  BY <1>2, NowIsAMoment, OperationKeepsLimit DEF RegistryInv
<1>5. LimitKept(sessions)'
  <2>1. LimitKept(sessions')
    BY <1>1, <1>4
  <2> QED BY <2>1 DEF LimitKept, Registry!UsableBy, Registry!Usable
<1>6. \A s \in Threads : thread'[s].pc # "store"
  <2> SUFFICES ASSUME NEW s \in Threads
               PROVE  thread'[s].pc # "store"
    OBVIOUS
  <2>1. CASE s = t
    BY <1>1, <2>1, OtherThreadSteps DEF Inv, TypeOK
  <2>2. CASE s # t
    <3>1. lock = t /\ thread'[s] = thread[s]
      BY <1>1, <2>2 DEF Inv, ThreadOK, TypeOK
    <3> QED BY <2>2, <3>1 DEF Inv, ThreadOK
  <2> QED BY <2>1, <2>2
<1> QED BY <1>3, <1>5, <1>6 DEF RegistryInv, Prepared

LEMMA RegistryStep ==
  ASSUME Inv, RegistryInv, [Next]_vars
  PROVE  RegistryInv' /\ [Registry!Next]_Registry!registry
<1> USE DEF RegistryInv
<1>1. sessions' = sessions /\ LimitKept(sessions) => LimitKept(sessions)'
  BY DEF LimitKept, Registry!UsableBy, Registry!Usable
<1>2. CASE Tick
  <2>1. now \in Nat /\ now' = now + 1 /\ UNCHANGED <<sessions, thread>>
    BY <1>2, NowIsAMoment DEF Tick
  <2>2. Prepared'
    BY <2>1, OperationLater DEF Prepared
  <2>3. Registry!Advance
    BY <2>1 DEF Registry!Advance
  <2> QED BY <1>1, <2>1, <2>2, <2>3 DEF Registry!Next
<1>3. ASSUME NEW t \in Threads, StoreSessions(t)
      PROVE  RegistryInv' /\ [Registry!Next]_Registry!registry
  BY <1>3, StoreOperates DEF Registry!Next
<1>4. ASSUME UNCHANGED <<now, sessions>>, Prepared'
      PROVE  RegistryInv' /\ [Registry!Next]_Registry!registry
  BY <1>1, <1>4 DEF Registry!registry
<1>5. ASSUME NEW t \in Threads, AccountStep(t)
      PROVE  RegistryInv' /\ [Registry!Next]_Registry!registry
  <2>1. UNCHANGED <<now, sessions>>
    BY <1>5 DEF AccountStep, CreateUser, UpdateUser, DeleteUser, DeleteRole,
                ChangeTotp, BeginUpdate, PersistLoad, WriteUsers
  <2> QED BY <1>4, <1>5, <2>1, AccountStepsPrepared
<1>6. ASSUME NEW t \in Threads, SessionStep(t), ~ StoreSessions(t)
      PROVE  RegistryInv' /\ [Registry!Next]_Registry!registry
  <2>1. UNCHANGED <<now, sessions>>
    BY <1>6 DEF SessionStep, Login, RevokeUserSessions, FindShadow, IssueSession,
                RefreshSession, Resolve, Logout, BeginSession
  <2> QED BY <1>4, <1>6, <2>1, SessionStepsPrepared
<1>7. ASSUME NEW t \in Threads, Abort(t)
      PROVE  RegistryInv' /\ [Registry!Next]_Registry!registry
  <2>1. Prepared' /\ UNCHANGED <<now, sessions>>
    BY <1>7, OtherThreadSteps, OtherStepsStayPrepared DEF Abort
  <2> QED BY <1>4, <2>1
<1>8. CASE UNCHANGED vars
  <2>1. UNCHANGED <<now, sessions, thread>>
    BY <1>8 DEF vars
  <2>2. Prepared'
    BY <2>1, NowIsAMoment, OperationLater DEF Prepared
  <2> QED BY <1>4, <2>1, <2>2
<1> QED BY <1>2, <1>3, <1>5, <1>6, <1>7, <1>8 DEF Next

LEMMA RegistryHolds == Spec => [](Inv /\ RegistryInv)
<1>1. Init => RegistryInv
  <2> SUFFICES ASSUME Init PROVE RegistryInv
    OBVIOUS
  <2>1. Prepared
    BY OtherThreadSteps DEF Init, Prepared
  <2>2. LimitKept(sessions)
    <3>1. \A u, c : Registry!UsableBy(sessions, u, c) = {}
      BY DEF Init, Registry!UsableBy
    <3> QED BY <3>1, FS_EmptySet, AuthSessionAssumption DEF LimitKept
  <2> QED BY <2>1, <2>2 DEF RegistryInv
<1>2. Inv /\ RegistryInv /\ [Next]_vars => RegistryInv'
  BY RegistryStep
<1> QED BY <1>1, <1>2, InvHolds, PTL DEF Spec

(***************************************************************************)
(* No account ever has more usable sessions than max_sessions_per_user,    *)
(* for every limit, every number of logins at the same time and every      *)
(* lifetime of sessions (_enforce_session_limit).                          *)
(***************************************************************************)
THEOREM LimitHolds == Spec => []SessionLimit
<1>1. Inv /\ RegistryInv => SessionLimit
  <2> SUFFICES ASSUME Inv, RegistryInv, MaxSessions > 0, NEW u \in Users
               PROVE  Cardinality({i \in SessionsOf(u) : Live(i)}) <= MaxSessions
    BY DEF SessionLimit
  <2>1. {i \in SessionsOf(u) : Live(i)} = LiveOf(sessions, u, now)
    BY DEF SessionsOf, Live, LiveOf
  <2>2. LiveOf(sessions, u, now) = Registry!UsableBy(sessions, u, now)
    BY NowIsAMoment, UsableIsLive
  <2>3. Cardinality(Registry!UsableBy(sessions, u, now)) <= MaxSessions
    BY NowIsAMoment DEF RegistryInv, LimitKept, Inv
  <2> QED BY <2>1, <2>2, <2>3
<1> QED BY <1>1, RegistryHolds, PTL

(***************************************************************************)
(* The threads and their lock implement the registry: every login, use and *)
(* revocation takes effect in one step, and a login at the limit ends no    *)
(* more usable sessions than it must, the least recently used ones.        *)
(***************************************************************************)
THEOREM SessionsImplementRegistry == Spec => ImplementsRegistry
<1>1. Init => Registry!Init
  BY DEF Init, Registry!Init
<1>2. Inv /\ RegistryInv /\ [Next]_vars => [Registry!Next]_Registry!registry
  BY RegistryStep
<1> QED BY <1>1, <1>2, RegistryHolds, PTL DEF Spec, ImplementsRegistry, Registry!Spec

(* An operation leads from documents to documents, and nothing in them is   *)
(* of the future.                                                           *)
LEMMA OperationTyped ==
  ASSUME NEW doc \in SessionDoc, NEW new, now \in Nat, Registry!Operation(doc, new),
         \A i \in DOMAIN doc : doc[i].seen <= now
  PROVE  new \in SessionDoc /\ \A i \in DOMAIN new : new[i].seen <= now
<1>1. doc \in Seq(Session) /\ \A i \in DOMAIN doc : doc[i] \in Session
  BY SessionFields DEF SessionDoc
<1>2. CASE Registry!End(doc, new)
  <2>1. PICK S \in SUBSET DOMAIN doc : new = Registry!Ended(doc, S)
    BY <1>2 DEF Registry!End
  <2>2. new \in SessionDoc /\ RevokedIn(doc, new)
    BY <2>1, EndedFields
  <2> QED BY <2>2 DEF RevokedIn
<1>3. CASE \E i \in DOMAIN doc, c \in 0..now : Registry!Use(doc, new, i, c)
  <2>1. PICK i \in DOMAIN doc, c \in 0..now : Registry!Use(doc, new, i, c)
    BY <1>3
  <2> DEFINE r == [doc[i] EXCEPT !.seen = c]
  <2>2. new = [doc EXCEPT ![i] = r]
    BY <2>1 DEF Registry!Use
  <2>3. r \in Session /\ r.seen = c /\ c <= now
    BY <1>1, <2>1 DEF Session
  <2> HIDE DEF r
  <2>4. /\ new \in SessionDoc /\ DOMAIN new = DOMAIN doc /\ new[i] = r
        /\ \A j \in DOMAIN doc : j # i => new[j] = doc[j]
    BY <1>1, <2>2, <2>3 DEF SessionDoc
  <2> QED BY <2>3, <2>4
<1>4. CASE \E u \in Users, c \in 0..now : Registry!Login(doc, new, u, c)
  <2>1. PICK u \in Users, c \in 0..now, S \in SUBSET DOMAIN doc :
               new = Append(Registry!Ended(doc, S), Registry!Issued(u, c))
    BY <1>4 DEF Registry!Login
  <2> DEFINE s == Registry!Issued(u, c)
             old == Registry!Ended(doc, S)
  <2>2. s \in Session /\ s.seen = c /\ c <= now
    BY <2>1 DEF Registry!Issued, Session
  <2>3. old \in SessionDoc /\ RevokedIn(doc, old)
    BY EndedFields
  <2> HIDE DEF s, old
  <2>4. /\ new \in SessionDoc /\ Len(old) \in Nat
        /\ DOMAIN old = 1..Len(old) /\ DOMAIN new = 1..(Len(old) + 1)
        /\ \A i \in DOMAIN old : new[i] = old[i]
        /\ new[Len(old) + 1] = s
    BY <2>1, <2>2, <2>3 DEF SessionDoc, s, old
  <2>5. ASSUME NEW i \in DOMAIN new
        PROVE  new[i].seen <= now
    <3>1. CASE i \in DOMAIN old
      BY <2>3, <2>4, <3>1 DEF RevokedIn
    <3>2. CASE i = Len(old) + 1
      BY <2>2, <2>4, <3>2
    <3> QED BY <2>4, <3>1, <3>2
  <2> QED BY <2>4, <2>5
<1> QED BY <1>2, <1>3, <1>4 DEF Registry!Operation

(***************************************************************************)
(* The registry alone keeps the limit: whatever behaves like                *)
(* SessionRegistry never shows an account with more usable sessions.        *)
(***************************************************************************)
THEOREM RegistryKeepsLimit == ImplementsRegistry => []SessionLimit
<1> DEFINE Kept == /\ now \in Nat /\ sessions \in SessionDoc
                   /\ \A i \in DOMAIN sessions : sessions[i].seen <= now
                   /\ LimitKept(sessions)
<1>1. Registry!Init => Kept
  <2> SUFFICES ASSUME Registry!Init PROVE Kept
    OBVIOUS
  <2>1. now = 0 /\ sessions = <<>>
    BY DEF Registry!Init
  <2>2. sessions \in SessionDoc /\ DOMAIN sessions = {}
    BY <2>1 DEF SessionDoc
  <2>3. \A u, c : Registry!UsableBy(sessions, u, c) = {}
    BY <2>2 DEF Registry!UsableBy
  <2>4. LimitKept(sessions)
    BY <2>3, FS_EmptySet, AuthSessionAssumption DEF LimitKept
  <2> QED BY <2>1, <2>2, <2>4
<1>2. Kept /\ [Registry!Next]_Registry!registry => Kept'
  <2> SUFFICES ASSUME Kept, [Registry!Next]_Registry!registry PROVE Kept'
    OBVIOUS
  <2>0. sessions' = sessions /\ LimitKept(sessions) => LimitKept(sessions)'
    BY DEF LimitKept, Registry!UsableBy, Registry!Usable
  <2>1. CASE Registry!Operate
    <3>1. /\ LimitKept(sessions') /\ sessions' \in SessionDoc /\ now' = now
          /\ \A i \in DOMAIN sessions' : sessions'[i].seen <= now
      BY <2>1, OperationKeepsLimit, OperationTyped DEF Registry!Operate
    <3>2. LimitKept(sessions)'
      BY <3>1 DEF LimitKept, Registry!UsableBy, Registry!Usable
    <3> QED BY <3>1, <3>2
  <2>2. CASE Registry!Advance \/ UNCHANGED Registry!registry
    <3>1. sessions' = sessions /\ now' \in Nat /\ now <= now'
      BY <2>2 DEF Registry!Advance, Registry!registry
    <3> QED BY <2>0, <3>1, SessionFields
  <2> QED BY <2>1, <2>2 DEF Registry!Next
<1>3. Kept => SessionLimit
  <2> SUFFICES ASSUME Kept, MaxSessions > 0, NEW u \in Users
               PROVE  Cardinality({i \in SessionsOf(u) : Live(i)}) <= MaxSessions
    BY DEF SessionLimit
  <2>1. {i \in SessionsOf(u) : Live(i)} = Registry!UsableBy(sessions, u, now)
    BY UsableIsLive DEF SessionsOf, Live, LiveOf
  <2> QED BY <2>1 DEF LimitKept
<1> QED BY <1>1, <1>2, <1>3, PTL DEF ImplementsRegistry, Registry!Spec

=============================================================================
