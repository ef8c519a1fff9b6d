--------------------------- MODULE ContextDiscovery ---------------------------
(***************************************************************************)
(* What a context selection may look at (context/discovery.py and the       *)
(* scope rules of context/selection.py): the candidates that typed evidence *)
(* names, their merge by path, and the scope a path must be in.             *)
(*                                                                          *)
(* A path is a number, so that references have an order; Parts gives its    *)
(* parts.  A text is a record of what the selection tells apart.            *)
(***************************************************************************)
EXTENDS Integers, Sequences, FiniteSets, FiniteSetsExt, Sums

CONSTANTS
    Paths,      \* paths of the repository and of the artifact root: numbers
    Parts,      \* the parts of every path
    Allowed,    \* the task's allowed patterns
    Forbidden,  \* the task's forbidden patterns
    NoPath

ASSUME PathsAssumption ==
    /\ Paths \subseteq Nat /\ IsFiniteSet(Paths)
    /\ Parts \in [Paths -> Seq(STRING)]
    /\ NoPath \notin Paths
    /\ Allowed \cup Forbidden \subseteq Seq(STRING)

\* ContextImportance, by the rank that orders it
Required == 0
Preferred == 1
Optional == 2

\* ContextSource by value: ties of importance and priority are broken by it.
Sources == <<"ARTIFACT", "CHANGED_PATH", "DEPENDENCY", "DIFF", "GOVERNING",
             "PRIOR_ATTEMPT", "REPAIR_DECISION", "REVIEW", "TASK_PATH", "TEST",
             "VALIDATION">>
SourceValues == {Sources[n] : n \in DOMAIN Sources}
SourceRank(source) == CHOOSE n \in DOMAIN Sources : Sources[n] = source

\* _candidate_order, _inline_order, _artifact_order, _item_order, _candidate_key
Before(a, b) ==
    LET ka == <<a.importance, a.priority, SourceRank(a.source), a.ref>>
        kb == <<b.importance, b.priority, SourceRank(b.source), b.ref>>
    IN \E n \in 1 .. 4 : ka[n] < kb[n] /\ \A m \in 1 .. n - 1 : ka[m] = kb[m]

First(entries) == CHOOSE e \in entries : \A f \in entries \ {e} : ~Before(f, e)

-----------------------------------------------------------------------------
(* Candidates and inline evidence.                                          *)

\* ContextTrust, which stands for the authority too
Classes == {"CONTROL", "LOCAL", "GOVERNANCE", "REPOSITORY", "TEST", "PROVIDER", "DIAGNOSTIC"}

Roles == {"BUILDER", "REVIEWER", "REPAIRER"}

RolePriority(base, role, source) ==
    LET favoured == CASE role = "REVIEWER" -> {"CHANGED_PATH", "DIFF", "VALIDATION"}
                      [] role = "REPAIRER" -> {"REVIEW", "VALIDATION", "REPAIR_DECISION"}
                      [] OTHER -> {}
    IN IF source \in favoured THEN Max({0, base - 10}) ELSE base

FileCandidate(p, source, importance, priority, class, complete) ==
    [kind |-> "FILE", ref |-> p, path |-> p, source |-> source,
     importance |-> importance, priority |-> priority, class |-> class,
     complete |-> complete, roles |-> Roles]

\* _path_candidates
PathCandidates(evidence, role) ==
    LET file(p, source, importance, base) ==
            FileCandidate(p, source, importance, RolePriority(base, role, source),
                          "REPOSITORY", importance = Required)
        open == {f \in evidence.review : f.unresolved /\ f.path # NoPath}
    IN UNION {
        {file(p, "TASK_PATH", Required, 50) : p \in evidence.explicit},
        {file(p, "CHANGED_PATH", Preferred, 60) : p \in evidence.changed},
        {file(p, "DIFF", Preferred, 70) : p \in evidence.diff},
        {file(v.path, "VALIDATION", Required, 30) :
            v \in {v \in evidence.validation : v.path # NoPath}},
        {IF f.severe THEN file(f.path, "REVIEW", Required, 35)
                     ELSE file(f.path, "REVIEW", Preferred, 75) : f \in open},
        {file(a.path, "PRIOR_ATTEMPT", Preferred, 110) :
            a \in {a \in evidence.attempts : a.unresolved /\ a.path # NoPath}}}

\* _governing_candidates: the work package and AGENTS.md are required, the other
\* documents preferred; `base` is the document's place in the table.
GoverningCandidates(evidence, role) ==
    {LET importance == IF g.base <= 10 THEN Required ELSE Preferred
     IN FileCandidate(g.path, "GOVERNING", importance,
                      RolePriority(g.base, role, "GOVERNING"), "GOVERNANCE",
                      importance = Required) : g \in evidence.governing}

\* _validation_evidence, _review_evidence, _attempt_evidence
InlineEvidence(evidence, role) ==
    LET inline(e, path, source, importance, base, class) ==
            [kind |-> "INLINE", ref |-> e.id, path |-> path, source |-> source,
             importance |-> importance, priority |-> RolePriority(base, role, source),
             class |-> class, complete |-> importance = Required, text |-> e.text]
    IN UNION {
        {inline(v, NoPath, "VALIDATION", IF v.required THEN Required ELSE Preferred,
                25, "DIAGNOSTIC") : v \in {v \in evidence.validation : v.failed}},
        {inline(f, f.path, "REVIEW", IF f.severe THEN Required ELSE Preferred,
                IF f.severe THEN 30 ELSE 80, "PROVIDER") :
            f \in {f \in evidence.review : f.unresolved}},
        {inline(a, a.path, "PRIOR_ATTEMPT", Preferred, 110, "LOCAL") :
            a \in {a \in evidence.attempts : a.unresolved}},
        {inline(d, NoPath, "REPAIR_DECISION", Required, 40, "LOCAL") :
            d \in {d \in evidence.decisions : d.unresolved}}}

\* Defect: the merged candidate is the winner as it is.
MergeCandidatesWinner(candidates) ==
    {First({c \in candidates : c.ref = p}) : p \in {c.ref : c \in candidates}}

\* _merge_candidates: one candidate a path; the first in order gives source and class,
\* and the strictest demand of any of them is kept.
MergeCandidates(candidates) ==
    {LET same == {c \in candidates : c.ref = p}
     IN [First(same) EXCEPT
            !.importance = Min({c.importance : c \in same}),
            !.priority = Min({c.priority : c \in same}),
            !.roles = UNION {c.roles : c \in same},
            !.complete = \E c \in same : c.complete] :
        p \in {c.ref : c \in candidates}}

-----------------------------------------------------------------------------
(* Scope: patterns over the parts of a path.                               *)

PartMatches(part, pattern) == pattern = "*" \/ part = pattern

\* _scope_match: match[j] is the set of the i for which match(i, j), the comparison of the
\* path from part i with the pattern from j, is true.
ScopeMatch(path, pattern) ==
    LET match[j \in 1 .. Len(pattern) + 1] ==
            {i \in 1 .. Len(path) + 1 :
                IF j > Len(pattern) THEN i > Len(path)
                ELSE IF pattern[j] = "**"
                     THEN j = Len(pattern) \/ \E k \in i .. Len(path) + 1 : k \in match[j + 1]
                ELSE i <= Len(path) /\ PartMatches(path[i], pattern[j]) /\ i + 1 \in match[j + 1]}
    IN 1 \in match[1]

\* Defect: a path that is allowed is not looked up in the forbidden patterns.
ScopeReasonAllowedFirst(p) ==
    CASE \E pattern \in Allowed : ScopeMatch(Parts[p], pattern) -> "NONE"
      [] \E pattern \in Forbidden : ScopeMatch(Parts[p], pattern) -> "FORBIDDEN_SCOPE"
      [] OTHER -> "SCOPE_CONFLICT"

\* _scope_reason
ScopeReason(p) ==
    CASE \E pattern \in Forbidden : ScopeMatch(Parts[p], pattern) -> "FORBIDDEN_SCOPE"
      [] ~\E pattern \in Allowed : ScopeMatch(Parts[p], pattern) -> "SCOPE_CONFLICT"
      [] OTHER -> "NONE"

\* What a pattern means: each "**" stands for any number of parts, each other part of
\* the pattern for one.
Covers(pattern, path) ==
    \E width \in [1 .. Len(pattern) -> 0 .. Len(path)] :
        LET start(n) == 1 + SumOver(width, 1 .. n - 1)
        IN  /\ start(Len(pattern) + 1) = Len(path) + 1
            /\ \A n \in DOMAIN pattern : pattern[n] # "**" =>
                  width[n] = 1 /\ PartMatches(path[start(n)], pattern[n])
=============================================================================
