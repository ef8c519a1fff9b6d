-------------------------- MODULE MCContextSelection --------------------------
(* Small instances of ContextSelection for TLC. *)
EXTENDS ContextSelection

\* 1 src/app, 2 src/lib, 3 tests/test_app, 4 docs/work, 5 src/build/out, 6 and 7 artifacts
MCPaths == 1 .. 7
MCParts == <<<<"src", "app">>, <<"src", "lib">>, <<"tests", "test_app">>,
             <<"docs", "work">>, <<"src", "build", "out">>, <<"log">>, <<"report">>>>
MCAllowed == {<<"src", "**">>, <<"tests", "*">>, <<"**", "work">>}
MCForbidden == {<<"src", "lib", "**">>}
MCTestOf == [p \in MCPaths |-> IF p = 1 THEN 3 ELSE NoPath]

TextOf(bytes, safe, digest, nature, imports) ==
    [bytes |-> bytes, safe |-> safe, digest |-> digest, nature |-> nature,
     imports |-> imports]
MCText == [short |-> TextOf(2, 2, "digest1", "TEXT", {2, 5}),
           long |-> TextOf(5, 4, "digest2", "TEXT", {}),
           key |-> TextOf(2, 2, "digest3", "SECRET", {})]

MCLimits == [total |-> 8, item |-> 3, source |-> 6, items |-> 3, exclusions |-> 1,
             candidates |-> 7, artifact |-> 6, artifacts |-> 3, dependencies |-> 2,
             depth |-> 1, tests |-> 1, retries |-> 1]

Evidence == [explicit |-> {}, changed |-> {}, diff |-> {}, validation |-> {}, review |-> {},
             attempts |-> {}, decisions |-> {}, governing |-> {}, inline |-> {},
             artifacts |-> {}]
Finding(id, path, severe) ==
    [id |-> id, path |-> path, severe |-> severe, unresolved |-> TRUE, text |-> "short"]
Decision(id, text) == [id |-> id, unresolved |-> TRUE, text |-> text]
Artifact(p, importance, sha) ==
    [kind |-> "ARTIFACT", ref |-> p + 20, path |-> p, source |-> "ARTIFACT",
     importance |-> importance, priority |-> 100, class |-> "LOCAL", complete |-> TRUE,
     truncated |-> FALSE, stored |-> 2, sha |-> sha, provider |-> TRUE, raw |-> FALSE,
     correlated |-> TRUE]
Disk == <<"short", "short", "short", "long", "short", "short", "short">>
Request(role, candidates, evidence, control, flaw, writable) ==
    [role |-> role, candidates |-> candidates, evidence |-> evidence,
     control |-> control, flaw |-> flaw, disk |-> Disk, writable |-> writable]

\* A task path that an explicit candidate also names, with its dependencies and its test.
TaskRequest ==
    Request("BUILDER", {FileCandidate(1, "TASK_PATH", Required, 5, "REPOSITORY", FALSE)},
            [Evidence EXCEPT !.explicit = {1}, !.governing = {[path |-> 4, base |-> 94]}],
            1, "NONE", {1})
\* Two files that are written, one required and one preferred.
PairRequest ==
    Request("BUILDER", {},
            [Evidence EXCEPT !.explicit = {3}, !.governing = {[path |-> 4, base |-> 94]}],
            1, "NONE", {3, 4})
\* A review finding and changed files with the same content, and a full budget.
ReviewRequest ==
    Request("REVIEWER", {},
            [Evidence EXCEPT !.changed = {1, 3}, !.diff = {2},
                !.review = {Finding(11, NoPath, TRUE), Finding(12, 3, FALSE)}],
            6, "NONE", {1})
\* More items than there is room for, and duplicates among them.
CrowdedRequest ==
    Request("REPAIRER", {},
            [Evidence EXCEPT !.changed = {1, 3},
                !.validation = {[id |-> 13, path |-> NoPath, failed |-> TRUE,
                                 required |-> TRUE, text |-> "short"]},
                !.decisions = {Decision(14, "short"),
                               Decision(16, "short")},
                !.attempts = {[id |-> 15, path |-> NoPath, unresolved |-> TRUE,
                               text |-> "long"]}],
            1, "NONE", {3})
\* Two artifacts of one total.
ArtifactRequest ==
    Request("BUILDER", {},
            [Evidence EXCEPT !.artifacts = {Artifact(6, Required, "short"),
                                            Artifact(7, Preferred, "short")}],
            1, "NONE", {6})
TooMany ==
    Request("BUILDER", {}, [Evidence EXCEPT !.changed = 1 .. 7, !.explicit = {1},
                !.decisions = {Decision(14, "short")}], 1, "NONE", {})

\* Required evidence that its path, its content, the number or the bytes of items or the
\* total of the artifacts keeps out, and preferred evidence that its content keeps out.
Refused(evidence, control) == Request("BUILDER", {}, evidence, control, "NONE", {})
RefusedRequests == {
    Refused([Evidence EXCEPT !.explicit = {2}], 1),
    Refused([Evidence EXCEPT !.decisions = {Decision(14, "key")}], 1),
    Refused([Evidence EXCEPT !.decisions = {Decision(n, "short") : n \in 14 .. 17}], 1),
    Refused([Evidence EXCEPT !.decisions = {Decision(14, "short")}], 8),
    Refused([Evidence EXCEPT !.artifacts = {Artifact(p, Required, "short") : p \in 6 .. 7}], 1),
    Refused([Evidence EXCEPT !.attempts = {[id |-> 15, path |-> NoPath, unresolved |-> TRUE,
                                            text |-> "key"]}], 1)}

MCRequests == RefusedRequests \cup
              {TaskRequest, [TaskRequest EXCEPT !.writable = {3}], PairRequest, ReviewRequest,
               CrowdedRequest, ArtifactRequest, TooMany,
               [TaskRequest EXCEPT !.control = 10], [TaskRequest EXCEPT !.flaw = "ROOT_MISMATCH"],
               [TaskRequest EXCEPT !.flaw = "INVALID_ARTIFACT"]}
QuietRequests == {[r EXCEPT !.writable = {}] : r \in MCRequests}
=============================================================================
