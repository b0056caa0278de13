------------------------------- MODULE LeaseDesk -------------------------------
(***************************************************************************)
(* What desktop pools promise the people who use them: an abstract          *)
(* specification that DesktopPool implements when requests do not overlap   *)
(* and pools stay.  It is a desk that lends desktops out: no pools, no      *)
(* files, no requests that read first and write later, no time limits.      *)
(*                                                                          *)
(* One step changes one desktop.  A desktop is lent only if it is free, to  *)
(* whoever it is reserved for; and it becomes free only if it carries no    *)
(* data but that of the one user it is reserved for.                        *)
(***************************************************************************)

CONSTANTS
    Desktops,
    Users,
    Nobody      \* the owner of a desktop that is nobody's

VARIABLE desk   \* desktop -> its entry

Entry ==
    [ stage   : {"none", "free", "lent", "out"},    \* out: not to be lent
      owner   : Users \cup {Nobody},    \* who has it, or has it reserved
      holders : SUBSET Users,           \* who relies on having it
      data    : SUBSET Users ]          \* whose data is on it

Init == desk = [v \in Desktops |->
                  [stage |-> "none", owner |-> Nobody, holders |-> {}, data |-> {}]]

-----------------------------------------------------------------------------
(* What may happen to a desktop: its entry d becomes e.                     *)

\* It is built from the template.
Built(d, e) ==
    /\ d.stage = "none"
    /\ e.stage \in {"free", "out"}
    /\ e.owner = Nobody /\ e.holders = {} /\ e.data = {}

Lent(d, e) ==
    /\ d.stage = "free"
    /\ d.owner \in {Nobody, e.owner}
    /\ e.stage = "lent"
    /\ e.owner \in Users
    /\ e.holders = {e.owner}
    /\ e.data = d.data \cup {e.owner}

\* Its user comes again.
LentAgain(d, e) ==
    /\ d.stage = "lent"
    /\ e = [d EXCEPT !.holders = @ \cup {d.owner}]

\* Nobody has it any more, and it stays reserved for its owner or for nobody.
TakenBack(d, e) ==
    /\ d.stage # "none"
    /\ e.stage \in {"free", "out"}
    /\ e.owner \in {d.owner, Nobody}
    /\ e.holders = {}
    /\ e.data = d.data
    /\ e.stage = "free" => e.data \subseteq {e.owner}

Wiped(d, e) == e = [d EXCEPT !.data = {}]

Change(d, e) ==
    \/ Built(d, e)
    \/ Lent(d, e)
    \/ LentAgain(d, e)
    \/ TakenBack(d, e)
    \/ Wiped(d, e)

-----------------------------------------------------------------------------

Next ==
    /\ desk' \in [Desktops -> Entry]
    /\ \E v \in Desktops :
          /\ Change(desk[v], desk'[v])
          /\ \A w \in Desktops \ {v} : desk'[w] = desk[w]

Spec == Init /\ [][Next]_desk

=============================================================================
