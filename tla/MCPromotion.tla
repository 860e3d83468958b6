----------------------------- MODULE MCPromotion -----------------------------
(***************************************************************************)
(* Small instances of Promotion.  Commits: r is the initial head; a is     *)
(* task t1's candidate on r; b is built on a; x is a developer's commit on *)
(* r; y is a developer's commit on a.                                      *)
(***************************************************************************)
EXTENDS Promotion, TLC

CONSTANTS t1, t2, r, a, b, x, y, p1, p2, v1

History == (r :> {r}) @@ (a :> {r, a}) @@ (b :> {r, a, b})
           @@ (x :> {r, x}) @@ (y :> {r, a, y})
MCAncestors == [c \in Commit |-> History[c]]
MCBase == [c \in Commit |-> IF c = b THEN a ELSE r]

\* One proposal, one candidate.
OneOffer == t1 :> {a}
\* Two stacked proposals: t2's candidate b is built on t1's candidate a.
StackedOffers == (t1 :> {a}) @@ (t2 :> {b})

SealedOnly == {"CANDIDATE_SEALED"}
\* record_proposal stores whatever state the manifest brings.
AnyState == State

Symmetry == Permutations({p1, p2})
=============================================================================
