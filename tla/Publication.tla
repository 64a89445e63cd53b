----------------------------- MODULE Publication ----------------------------
(***************************************************************************)
(* What the harness promises about the Git ref, with no scheduler, journal *)
(* or crash in sight: it moves the ref only for a Change the operator has  *)
(* authorised, only from that Change's base and only to a new commit; and  *)
(* a Change is done only once a commit of its own has been the ref.        *)
(***************************************************************************)
EXTENDS Naturals

CONSTANTS Changes, Commits

VARIABLES
    ref,          \* the Git ref
    seen,         \* every value the ref has had
    base,         \* Change -> the commit it starts from, or 0
    authorised,   \* Changes with a standing authorisation
    landed,       \* Changes one of whose commits has been the ref
    done          \* Changes that are reported as done

vars == <<ref, seen, base, authorised, landed, done>>

Init ==
    /\ ref \in Commits /\ seen = {ref}
    /\ base = [c \in Changes |-> 0]
    /\ authorised = {} /\ landed = {} /\ done = {}

\* A Change is released on a value the ref has had.
Release(c) ==
    /\ base[c] = 0
    /\ \E b \in seen : base' = [base EXCEPT ![c] = b]
    /\ UNCHANGED <<ref, seen, authorised, landed, done>>

Authorise(c) ==
    /\ base[c] # 0 /\ c \notin done \cup authorised
    /\ authorised' = authorised \cup {c}
    /\ UNCHANGED <<ref, seen, base, landed, done>>

\* Authorisations lapse; nothing but Authorise ever gives one back.
Withdraw ==
    /\ authorised' \in SUBSET authorised
    /\ UNCHANGED <<ref, seen, base, landed, done>>

Land(c) ==
    /\ c \in authorised /\ ref = base[c]
    /\ \E new \in Commits \ seen : ref' = new /\ seen' = seen \cup {new}
    /\ landed' = landed \cup {c}
    /\ UNCHANGED <<base, authorised, done>>

Confirm(c) ==
    /\ c \in landed \ done
    /\ done' = done \cup {c} /\ authorised' = authorised \ {c}
    /\ UNCHANGED <<ref, seen, base, landed>>

\* Users push, or put the ref back.
UserMoves ==
    /\ \E new \in Commits : ref' = new /\ seen' = seen \cup {new}
    /\ UNCHANGED <<base, authorised, landed, done>>

Next ==
    \/ \E c \in Changes :
          Release(c) \/ Authorise(c) \/ Land(c) \/ Confirm(c)
    \/ Withdraw \/ UserMoves

Spec == Init /\ [][Next]_vars

=============================================================================
