------------------------------ MODULE LineMerge ------------------------------
(***************************************************************************)
(* The merges of internal/sync/conflict: mergeLinesDiff of merge.go, which *)
(* has no base, and threeWayMergeWithBase of resolver.go.  A line is a      *)
(* label, what getLinePrefix finds before a colon (0: nothing), and a text. *)
(***************************************************************************)
EXTENDS Naturals, Sequences, SequencesExt

CONSTANTS
    Lines,
    MaxLines,     \* bound: lines of a file
    MaxBase       \* bound: lines of the base

ASSUME LineMergeAssumption ==
    /\ MaxLines \in Nat /\ MaxBase \in Nat
    /\ \A l \in Lines : DOMAIN l = {"label", "text"}

VARIABLES base, branch1, branch2

mergeVars == <<base, branch1, branch2>>

\* strings.Split gives one line at least.
FilesUpTo(n) == UNION {[1..k -> Lines] : k \in 1..n}

MergeInit == base = <<>> /\ branch1 = <<>> /\ branch2 = <<>>

MergeNext ==
    /\ base = <<>>
    /\ base' \in FilesUpTo(MaxBase)
    /\ branch1' \in FilesUpTo(MaxLines) /\ branch2' \in FilesUpTo(MaxLines)

MergeSpec == MergeInit /\ [][MergeNext]_mergeVars

Marker(text) == [label |-> 0, text |-> text]
Head1 == Marker("ours begins")
Between == Marker("theirs begins")
Tail2 == Marker("theirs ends")

FindCommonPrefix(s, t) == LongestCommonPrefix({s, t})
FindCommonSuffix(s, t) == Reverse(FindCommonPrefix(Reverse(s), Reverse(t)))

\* The lines between a prefix and a suffix, none when the two overlap.
MiddleOf(s, prefix, suffix) == SubSeq(s, prefix + 1, Len(s) - suffix)

IsModificationOf(line, lines) ==
    line.label # 0 /\ \E l \in ToSet(lines) : l.label = line.label

\* The elements of s at these places, in their order.
ElementsAt(s, places) ==
    [k \in 1..Cardinality(places) |->
        s[CHOOSE i \in places : Cardinality({j \in places : j <= i}) = k]]

\* Mutant: of two additions at the end the second is dropped.
AtTheEndFirst(s, t) == s

\* Both add at the end.
AtTheEnd(s, t) == s \o t

\* The branch where both middles have lines.  Their common suffix is always
\* empty, since suffix is as long as possible: the cases for it are not here.
MergeChanges(s, t, suffix) ==
    LET unique == ElementsAt(s, {i \in DOMAIN s : /\ s[i] \notin ToSet(t)
                                                 /\ ~IsModificationOf(s[i], t)})
    IN  CASE ToSet(s) \cap ToSet(t) # {} -> t \o unique
          [] ToSet(s) \cap ToSet(t) = {} /\ suffix # <<>> ->
                <<Head1>> \o s \o <<Between>> \o t \o <<Tail2>>
          [] OTHER -> AtTheEnd(s, t)

MergeLinesDiff(s, t) ==
    LET prefix == FindCommonPrefix(s, t)
        suffix == FindCommonSuffix(s, t)
        m1 == MiddleOf(s, Len(prefix), Len(suffix))
        m2 == MiddleOf(t, Len(prefix), Len(suffix))
    IN  prefix \o (IF m1 = <<>> \/ m2 = <<>> THEN m1 \o m2
                   ELSE MergeChanges(m1, m2, suffix)) \o suffix

\* findCommonPrefixCount and findCommonSuffixCount compare all three.
PrefixCount(b, s, t) == Len(LongestCommonPrefix({b, s, t}))

\* Mutant: the suffix is not compared with the second branch.
SuffixCountOfTwo(b, s, t) == Len(FindCommonSuffix(b, s))

SuffixCount(b, s, t) == Len(LongestCommonPrefix({Reverse(b), Reverse(s), Reverse(t)}))

ThreeWayMergeWithBase(b, s, t) ==
    LET prefix == PrefixCount(b, s, t)
        suffix == SuffixCount(b, s, t)
        mb == MiddleOf(b, prefix, suffix)
        m1 == MiddleOf(s, prefix, suffix)
        m2 == MiddleOf(t, prefix, suffix)
    IN  CASE s = b -> t
          [] s # b /\ (t = b \/ s = t) -> s
          [] s # b /\ t # b /\ s # t /\ mb # m1 /\ mb # m2 /\ m1 # m2 ->
                SubSeq(b, 1, prefix) \o <<Head1>> \o m1 \o <<Between>> \o m2
                    \o <<Tail2>> \o SubSeq(b, Len(b) - suffix + 1, Len(b))
          [] OTHER -> IF mb # m1 THEN s ELSE t

-----------------------------------------------------------------------------
\* A merge without base keeps every line of both files; a line of the first
\* that has the label of a line of the second is taken for the older form of
\* it and may go.
NoLineLost ==
    branch1 # <<>> =>
        \A l \in ToSet(branch1) \cup ToSet(branch2) :
            \/ l \in ToSet(MergeLinesDiff(branch1, branch2))
            \/ l \in ToSet(branch1) /\ IsModificationOf(l, branch2)

\* When both branches changed the base the merge keeps the lines of both,
\* unless the common prefix and suffix overlap in one of the three files: then
\* a change between equal lines is taken for none.
BothBranchesKept ==
    LET n == PrefixCount(base, branch1, branch2) + SuffixCount(base, branch1, branch2)
    IN  /\ base # <<>> /\ base # branch1 /\ base # branch2
        /\ \A f \in {base, branch1, branch2} : n <= Len(f)
        => ToSet(branch1) \cup ToSet(branch2)
               \subseteq ToSet(ThreeWayMergeWithBase(base, branch1, branch2))
=============================================================================
