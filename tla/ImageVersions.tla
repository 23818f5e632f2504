----------------------------- MODULE ImageVersions -----------------------------
(***************************************************************************)
(* How the maintenance manager orders the versions of OS images            *)
(* (maintenance/pkg/utils): a version like 3.0.20250717.0732 becomes the   *)
(* semantic version 3.0.20250717-build0732, and those are compared.        *)
(*                                                                         *)
(* A version is the sequence of its parts, a part the sequence of its      *)
(* digits.  A part with another character is NotANumber, and stands for    *)
(* one that sorts after "build".                                            *)
(***************************************************************************)
EXTENDS Integers, SequencesExt

NotANumber == <<-1>>

Part == Seq(0 .. 9) \cup {NotANumber}

\* The number that a part reads as.
Value(part) ==
    LET value[k \in 0 .. Len(part)] ==
            IF k = 0 THEN 0 ELSE 10 * value[k - 1] + part[k]
    IN  value[Len(part)]

\* The first position where two sequences differ decides; a sequence comes
\* after its beginnings.
Lexical(s, t, Less(_, _)) ==
    \E k \in DOMAIN t :
        /\ \A j \in 1 .. k - 1 : j \in DOMAIN s /\ s[j] = t[j]
        /\ k \in DOMAIN s => Less(s[k], t[k])

Smaller(m, n) == m < n

-----------------------------------------------------------------------------
(* Conversion *)

semverCoreSegments == 3

\* "build" is put before a part with a leading zero, which semantic versions
\* do not allow in a number.
PrereleasePart(part) ==
    [build |-> Len(part) > 1 /\ part[1] = 0, digits |-> part]

Core(version) == [k \in 1 .. semverCoreSegments |-> Value(version[k])]

\* A single empty part is no prerelease.
Prerelease(version) ==
    LET parts == SubSeq(version, semverCoreSegments + 1, Len(version))
    IN  IF parts = << <<>> >> THEN <<>>
        ELSE [k \in DOMAIN parts |-> PrereleasePart(parts[k])]

\* ConvertToComparableSemVer succeeds, and so does the parser of its result.
Comparable(version) ==
    /\ Len(version) >= semverCoreSegments
    /\ \A k \in 1 .. semverCoreSegments : version[k] \notin {<<>>, NotANumber}
    /\ \A k \in DOMAIN Prerelease(version) : Prerelease(version)[k].digits # <<>>

-----------------------------------------------------------------------------
(* Comparison *)

\* Precedence of identifiers: numbers by value and before any other text,
\* texts by their characters.
IdentifierLess(i, j) ==
    LET isText(a) == a.build \/ a.digits = NotANumber
    IN  CASE ~isText(i) /\ ~isText(j) -> Value(i.digits) < Value(j.digits)
          [] i.build /\ j.build       -> Lexical(i.digits, j.digits, Smaller)
          [] OTHER                    -> ~isText(i) \/ (i.build /\ ~j.build /\ isText(j))

\* Precedence of semantic versions: a prerelease comes before its release.
Precedes(v, w) ==
    \/ Lexical(Core(v), Core(w), Smaller)
    \/ /\ Core(v) = Core(w)
       /\ Prerelease(v) # <<>>
       /\ \/ Prerelease(w) = <<>>
          \/ Lexical(Prerelease(v), Prerelease(w), IdentifierLess)

\* An invalid version is neither greater nor smaller.
CompareImageVersions(v, w) == Comparable(v) /\ Comparable(w) /\ Precedes(w, v)

-----------------------------------------------------------------------------

\* The order of the numbers that versions consist of: leading zeros do not count.
SmallerInNumbers(v, w) ==
    Lexical([k \in DOMAIN v |-> Value(v[k])], [k \in DOMAIN w |-> Value(w[k])], Smaller)
=============================================================================
