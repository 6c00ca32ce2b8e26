------------------------------ MODULE Versions ------------------------------
(***************************************************************************)
(* Which release is newer (src/src/selfupdate.rs).  A version is           *)
(* Unparsable or a record: `base` ranks MAJOR.MINOR.PATCH, `pre` is the    *)
(* sequence of prerelease identifiers, empty for a stable release.  Build  *)
(* metadata is dropped by the parser and does not appear.                  *)
(***************************************************************************)
EXTENDS Integers, Sequences

CONSTANT Unparsable   \* parse_version_full() returns None

Identifiers == [numeric: BOOLEAN, rank: Nat]

Versions == [base: Nat, pre: Seq(Identifiers)]

ASSUME VersionsAssumption == Unparsable \notin Versions

(* One identifier against another: numeric ones compare as numbers and     *)
(* come before alphanumeric ones.                                          *)
IdLessText(x, y) == \* mutant: "10" before "2"
    \/ x.numeric /\ ~y.numeric
    \/ x.numeric = y.numeric /\ x.rank > y.rank

IdLess(x, y) ==
    \/ x.numeric /\ ~y.numeric
    \/ x.numeric = y.numeric /\ x.rank < y.rank

AgreeUpTo(a, b, n) == \A j \in 1..n : a[j] = b[j]

(* cmp_prerelease() = Greater *)
PreNewer(a, b) ==
    \/ a = <<>> /\ b # <<>>
    \/ /\ a # <<>> /\ b # <<>>
       /\ \/ \E i \in 1..Len(a) :
                /\ i <= Len(b) /\ AgreeUpTo(a, b, i - 1)
                /\ IdLess(b[i], a[i])
          \/ Len(b) < Len(a) /\ AgreeUpTo(a, b, Len(b))

(* is_newer(): cmp_versions() = Greater *)
Newer(a, b) ==
    /\ a # Unparsable
    /\ \/ b = Unparsable
       \/ b.base < a.base
       \/ b.base = a.base /\ PreNewer(a.pre, b.pre)
=============================================================================
