------------------------------- MODULE Ledger -------------------------------
(***************************************************************************)
(* The wall-clock ledger of one Task (internal/ledger): a tree of accounts *)
(* whose root is the Task and whose other nodes are Options, plus at most  *)
(* one outstanding lease.  Every operator takes a ledger and returns the   *)
(* ledger the Go function leaves behind; "ok" is its error result, and a   *)
(* transaction commits only a ledger that is ok.                           *)
(***************************************************************************)
EXTENDS Integers, SequencesExt

CONSTANTS
    MaxOptions,              \* bound: Options ever created
    MinRootAfterTransferMS,  \* what a transfer must leave in the root
    MaxInt                   \* math.MaxInt64, scaled down

ASSUME LedgerAssumption ==
    /\ MaxOptions \in Nat
    /\ MaxInt \in Nat
    /\ MinRootAfterTransferMS \in 0..MaxInt

Root == 0
Options == 1..MaxOptions
Accounts == 0..MaxOptions
NoLease == [anchor |-> Root, amount |-> 0]

\* parent of an account not yet created is the root, and unused.
LedgerRecord ==
    [remaining: [Accounts -> Int], parent: [Options -> Accounts],
     lease: [anchor: Accounts, amount: Int],
     minted: Int, charged: Int, retired: Int, ok: BOOLEAN]
NewLedger(budget) ==
    [remaining |-> [a \in Accounts |-> IF a = Root THEN budget ELSE 0],
     parent |-> [o \in Options |-> Root],
     lease |-> NoLease,
     minted |-> budget, charged |-> 0, retired |-> 0, ok |-> TRUE]

Refused(L) == [L EXCEPT !.ok = FALSE]

\* Checked addition refuses what does not fit; the plain + of Go wraps.
Addable(a, b) == a >= 0 /\ b >= 0 /\ b <= MaxInt - a
Wrap(n) == IF n > MaxInt THEN n - 2 * (MaxInt + 1) ELSE n

Outstanding(L) == L.lease.amount
\* What the accounts up to n hold together.
Sums(balance) ==
    LET sum[n \in Accounts] ==
            IF n = Root THEN balance[n] ELSE sum[n - 1] + balance[n]
    IN  sum
Remaining(L) == Sums(L.remaining)[MaxOptions]

-----------------------------------------------------------------------------

\* Mutant: the root keeps no reserve.
MoveUnreserved(L, from, to, n) ==
    IF /\ L.ok /\ from # to /\ n >= 0 /\ L.remaining[from] >= n
       /\ Addable(L.remaining[to], n)
    THEN [L EXCEPT !.remaining[from] = @ - n, !.remaining[to] = @ + n]
    ELSE Refused(L)
Move(L, from, to, n) ==
    IF /\ L.ok
       /\ from # to
       /\ n >= 0
       /\ ~ (from = Root /\ n > 0
                /\ L.remaining[Root] - n < MinRootAfterTransferMS)
       /\ L.remaining[from] >= n
       /\ Addable(L.remaining[to], n)
    THEN LET moved == [L.remaining EXCEPT ![from] = @ - n, ![to] = @ + n]
         IN  [L EXCEPT !.remaining = moved]
    ELSE Refused(L)

Reserve(L, anchor, n) ==
    IF n > 0 /\ L.lease = NoLease /\ L.remaining[anchor] >= n
    THEN [L EXCEPT !.remaining[anchor] = @ - n,
                   !.lease = [anchor |-> anchor, amount |-> n]]
    ELSE Refused(L)

\* Mutant: the charge may exceed the lease.
ChargeMeasured(L, elapsed, uncertain) ==
    IF uncertain THEN L.lease.amount ELSE elapsed
\* The charge is what was measured, at most the lease; a lease whose use is
\* not known is charged whole.
Charge(L, elapsed, uncertain) ==
    IF uncertain THEN L.lease.amount ELSE Min({elapsed, L.lease.amount})
Settle(L, elapsed, uncertain) ==
    LET charge == Charge(L, elapsed, uncertain)
    IN  IF L.lease = NoLease \/ elapsed < 0
        THEN Refused(L)
        ELSE [L EXCEPT !.remaining[L.lease.anchor] =
                            Wrap(@ + L.lease.amount - charge),
                       !.charged = Wrap(@ + charge),
                       !.lease = NoLease]

\* The accounts from a up to the root.
Chain(L, a) ==
    LET up[b \in Accounts] ==
            IF b = Root THEN <<Root>> ELSE <<b>> \o up[L.parent[b]]
    IN  up[a]

\* Mutant: only the first two participants count.
LCAOfTwo(L, ids) ==
    SelectSeq(Chain(L, ids[1]), LAMBDA a : Contains(Chain(L, ids[2]), a))[1]
\* The first account on the chain of the first participant that lies on the
\* chains of all of them.
LCA(L, ids) ==
    LET up == Chain(L, ids[1])
        common(i) == \A k \in DOMAIN ids : Contains(Chain(L, ids[k]), up[i])
    IN  up[CHOOSE i \in DOMAIN up :
                common(i) /\ \A j \in 1..(i - 1) : ~common(j)]

\* Mutant: the parent is given the whole amount.
AllocateWhole(L, to, n) ==
    LET fill[o \in Options, m \in 0..MaxInt] ==
            LET p == L.parent[o]
                filled == IF L.remaining[p] < m /\ p # Root THEN fill[p, m]
                          ELSE L
            IN  Move(filled, p, o, m)
    IN  fill[to, n]
\* Fill the deficit of the parent first, then move from the parent.
Allocate(L, to, n) ==
    LET fill[o \in Options] == [m \in 0..MaxInt |->
            LET p == L.parent[o]
                filled == IF L.remaining[p] < m /\ p # Root
                          THEN fill[p][m - L.remaining[p]]
                          ELSE L
            IN  Move(filled, p, o, m)]
    IN  fill[to][n]

\* Move amounts[i] from each source to each destination, in order.
MoveEach(L, from, to, amounts) ==
    LET moved[i \in 0..Len(amounts)] ==
            IF i = 0 THEN L
            ELSE Move(moved[i - 1], from[i], to[i], amounts[i])
    IN  moved[Len(amounts)]

Extended(L, n) ==
    IF n > 0 /\ Addable(L.minted, n) /\ Addable(L.remaining[Root], n)
    THEN [L EXCEPT !.minted = @ + n, !.remaining[Root] = @ + n]
    ELSE Refused(L)

\* Mutant: only what is left in the root is retired.
RetiredRoot(L) ==
    IF L.lease # NoLease
    THEN Refused(L)
    ELSE [L EXCEPT !.retired = Wrap(@ + L.remaining[Root]),
                   !.remaining = [a \in Accounts |-> 0]]
\* Closing the Task retires whatever is left in its accounts.
Retired(L) ==
    IF L.lease # NoLease
    THEN Refused(L)
    ELSE [L EXCEPT !.retired = Wrap(@ + Wrap(Remaining(L))),
                   !.remaining = [a \in Accounts |-> 0]]

-----------------------------------------------------------------------------
(* What the ledger promises.                                               *)

\* Refresh refuses every transaction, and fail-stops the harness, unless the
\* time minted is exactly what remains, is leased, was charged or retired.
Balanced(L) ==
    L.minted = Remaining(L) + Outstanding(L) + L.charged + L.retired

\* The deepest account above every participant, whichever comes first.
DeepestCommon(L, ids) ==
    LET up == [a \in Accounts |-> ToSet(Chain(L, a))]
        above == {a \in Accounts : \A i \in DOMAIN ids : a \in up[ids[i]]}
    IN  CHOOSE a \in above : above \subseteq up[a]

\* What the ancestors of an Option can give: the root keeps its reserve.
Available(L, a) ==
    IF a = Root THEN Max({0, L.remaining[Root] - MinRootAfterTransferMS})
    ELSE L.remaining[a]
Above(L, a) == {b \in Accounts : b # a /\ Contains(Chain(L, a), b)}
Given(L, S) ==
    Sums([a \in Accounts |-> IF a \in S THEN Available(L, a) ELSE 0])[MaxOptions]
\* Allocation draws on the nearest ancestor first and on the next only for
\* what is still missing.
Taken(L, to, n, a) ==
    LET nearer == {b \in Above(L, to) : a \in Above(L, b)}
    IN  Min({Available(L, a), Max({0, n - Given(L, nearer)})})
NearestFirst(L, to, n) ==
    IF Given(L, Above(L, to)) < n
    THEN Refused(L)
    ELSE [L EXCEPT !.remaining =
            [a \in Accounts |->
                IF a = to THEN L.remaining[a] + n
                ELSE IF a \in Above(L, to)
                THEN L.remaining[a] - Taken(L, to, n, a)
                ELSE L.remaining[a]]]

=============================================================================
