-------------------------- MODULE SessionRegistry --------------------------
(***************************************************************************)
(* What the control plane promises about login sessions: an abstract       *)
(* specification that AuthSession implements.  It knows no threads, no     *)
(* lock, no accounts and no LDAP, and it does not say how the sessions     *)
(* that must make room are found: a login, a use and an end are one        *)
(* indivisible step each, which takes effect at some time c between the    *)
(* last use it can see and now, as if the requests had come one after the  *)
(* other.                                                                  *)
(***************************************************************************)
EXTENDS Integers, Sequences, FiniteSets

CONSTANTS
    Users,          \* account names
    MaxSessions,    \* usable sessions per account, 0 for no limit
    IdleTimeout,    \* a session ends this long after its last use ...
    RefreshTtl      \* ... and this long after the login

VARIABLES
    now,            \* the clock
    sessions        \* all sessions ever issued, in the order of issue

registry == <<now, sessions>>

Usable(s, c) ==
    /\ ~ s.revoked
    /\ c <= s.created + RefreshTtl
    /\ c - s.seen <= IdleTimeout

UsableBy(doc, u, c) == {i \in DOMAIN doc : doc[i].user = u /\ Usable(doc[i], c)}

\* The sessions doc with those of S ended.
Ended(doc, S) ==
    [i \in DOMAIN doc |->
        IF i \in S THEN [doc[i] EXCEPT !.revoked = TRUE] ELSE doc[i]]

Issued(u, c) == [user |-> u, created |-> c, seen |-> c, revoked |-> FALSE]

\* The times at which an operation on doc may take effect.
Moment(doc, c) == c <= now /\ \A i \in DOMAIN doc : doc[i].seen <= c

\* The sessions S of account u may end for a new one: there is room after
\* that, a usable session ends only if there would be no room otherwise, and
\* those that end were not used after those that stay.
MakesRoom(doc, u, c, S) ==
    LET usable == UsableBy(doc, u, c)
    IN  /\ \A i \in S : doc[i].user = u
        /\ MaxSessions > 0 => Cardinality(usable \ S) < MaxSessions
        /\ usable \cap S # {} =>
              MaxSessions > 0 /\ Cardinality(usable \ S) = MaxSessions - 1
        /\ \A i \in usable \cap S, j \in usable \ S : doc[i].seen <= doc[j].seen

-----------------------------------------------------------------------------
(* An operation leads from the sessions doc to the sessions new.           *)

Login(doc, new, u, c) ==
    /\ Moment(doc, c)
    /\ \E S \in SUBSET DOMAIN doc :
          /\ new = Append(Ended(doc, S), Issued(u, c))
          /\ MakesRoom(doc, u, c, S)

Use(doc, new, i, c) ==
    /\ Usable(doc[i], c)
    /\ Moment(doc, c)
    /\ new = [doc EXCEPT ![i] = [@ EXCEPT !.seen = c]]

End(doc, new) ==
    \E S \in SUBSET DOMAIN doc : new = Ended(doc, S)

Operation(doc, new) ==
    \/ \E i \in DOMAIN doc, c \in 0..now : Use(doc, new, i, c)
    \/ End(doc, new)
    \/ \E u \in Users, c \in 0..now : Login(doc, new, u, c)

-----------------------------------------------------------------------------

Init ==
    /\ now = 0
    /\ sessions = <<>>

Advance ==
    /\ now' \in Nat
    /\ now' > now
    /\ UNCHANGED sessions

Operate ==
    /\ Operation(sessions, sessions')
    /\ UNCHANGED now

Next == Advance \/ Operate

Spec == Init /\ [][Next]_registry

=============================================================================
