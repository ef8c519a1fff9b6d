--------------------------- MODULE ContextSelection ---------------------------
(***************************************************************************)
(* Context selection (context/selection.py, context/reader.py) for one role *)
(* and the coordinator's use of it (orchestration/service.py): discover,    *)
(* read, pack and record a manifest; after a restart, select again and go   *)
(* on only with the manifest that was recorded.  Files may be written at    *)
(* any time, in the middle of a read too.                                   *)
(***************************************************************************)
EXTENDS ContextDiscovery

CONSTANTS
    None,
    Text,        \* what there is to know of every text a file may hold
    Requests,    \* the requests to try, each with the files it meets (`disk`) and the
                 \* ones that are written meanwhile (`writable`)
    Limits,      \* ContextLimits of the requests
    MaxAgentOutput,
    TestOf,      \* path -> the path of its test file, or NoPath
    StampedAs,   \* how a caller stamps a continued request: "original" and "now"
    MaxCrashes

Texts == DOMAIN Text

\* Other things than text that a path may resolve to, by the read status they give.
NoText == {"MISSING", "SPECIAL_FILE", "SYMLINK_ESCAPE"}

\* The digest is of the redacted text, so it tells its size (_content_item).
ASSUME SelectionAssumption ==
    /\ \A t \in Texts : /\ Text[t].bytes \in Nat /\ Text[t].safe \in Nat
                        /\ Text[t].digest \in STRING /\ Text[t].imports \subseteq Paths
    /\ \A s, t \in Texts : Text[s].digest = Text[t].digest => Text[s].safe = Text[t].safe
    /\ Limits \in [total : Nat, item : Nat, source : Nat, items : Nat, exclusions : Nat,
                   candidates : Nat, artifact : Nat, artifacts : Nat, dependencies : Nat,
                   depth : 0 .. 4, tests : Nat, retries : 0 .. 2]
    /\ MaxAgentOutput \in Nat
    /\ TestOf \in [Paths -> Paths \cup {NoPath}]
    /\ StampedAs \subseteq {"original", "now"}
    /\ MaxCrashes \in Nat
    /\ None \notin Nat

\* ContextCandidate, InlineContextEvidence and ApprovedContextArtifact
FileEntries ==
    [kind : {"FILE"}, ref : Paths, path : Paths, source : SourceValues, importance : 0 .. 2,
     priority : 0 .. 1000, class : Classes, complete : BOOLEAN, roles : SUBSET Roles]
InlineEntries ==
    [kind : {"INLINE"}, ref : Nat, path : Paths \cup {NoPath}, source : SourceValues,
     importance : 0 .. 2, priority : 0 .. 1000, class : Classes, complete : BOOLEAN, text : Texts]
ArtifactEntries ==
    [kind : {"ARTIFACT"}, ref : Nat, path : Paths, source : SourceValues, importance : 0 .. 2,
     priority : 0 .. 1000, class : Classes, complete : BOOLEAN, truncated : BOOLEAN,
     stored : Nat, sha : Texts, provider : BOOLEAN, raw : BOOLEAN, correlated : BOOLEAN]

\* ContextDiscoveryInput
EvidenceType ==
    [explicit : SUBSET Paths, changed : SUBSET Paths, diff : SUBSET Paths,
     validation : SUBSET [id : Nat, path : Paths \cup {NoPath}, failed : BOOLEAN,
                          required : BOOLEAN, text : Texts],
     review : SUBSET [id : Nat, path : Paths \cup {NoPath}, severe : BOOLEAN,
                      unresolved : BOOLEAN, text : Texts],
     attempts : SUBSET [id : Nat, path : Paths \cup {NoPath}, unresolved : BOOLEAN, text : Texts],
     decisions : SUBSET [id : Nat, unresolved : BOOLEAN, text : Texts],
     governing : SUBSET [path : Paths, base : 0 .. 1000],
     inline : SUBSET InlineEntries, artifacts : SUBSET ArtifactEntries]

RequestType ==
    [role : Roles, candidates : SUBSET FileEntries, evidence : EvidenceType, control : Nat,
     flaw : STRING, disk : [Paths -> Texts \cup NoText], writable : SUBSET Paths]

\* Evidence that is not a file
Unfiled(r) == r.evidence.inline \cup InlineEvidence(r.evidence, r.role) \cup r.evidence.artifacts

\* A reference identifies what it names.  _unique_inline and _unique_artifacts raise where one
\* identity has two contents; that inline evidence and artifacts are not named alike, nor
\* after a path, is the callers' part (context_item_id would not tell them apart).
ASSUME RequestsAssumption ==
    \A r \in Requests :
        /\ r \in RequestType
        /\ \A c \in r.candidates : c.ref = c.path
        /\ \A d, e \in Unfiled(r) : d.ref \notin Paths /\ (d.ref = e.ref => d = e)

VARIABLES
    disk,     \* what every path holds
    request,  \* the ContextSelectionRequest
    sel,      \* the selection in progress
    cache,    \* _context_packages: the package of this process
    durable,  \* the manifest of the recorded CONTEXT outcome
    run,      \* OPEN, or how the context phase ended the run
    crashes

vars == <<disk, request, sel, cache, durable, run, crashes>>

\* `metadata` is what it was at the first stat ("same"), or not ("changed"), or is although
\* the file was written since ("evaded").
NoRead == [stage |-> "stat", tries |-> 0, first |-> None, rest |-> None, metadata |-> "same"]
Idle == [pc |-> "idle", created |-> 0, restoring |-> FALSE, queue |-> <<>>,
         visited |-> {}, dependencies |-> {}, entries |-> {}, todo |-> {},
         entry |-> None, read |-> NoRead, prepared |-> <<>>, artifacts |-> 0, keys |-> {},
         items |-> <<>>, excluded |-> {}]

Init ==
    /\ request \in Requests
    /\ disk = request.disk
    /\ sel = Idle
    /\ cache = None /\ durable = None
    /\ run = "OPEN"
    /\ crashes = 0

-----------------------------------------------------------------------------
(* Exclusions and failures.                                                *)

Keep == UNCHANGED <<disk, request, cache, durable, run, crashes>>

Excluded(e, reason) == [ref |-> e.ref, importance |-> e.importance, reason |-> reason]

BLOCKING == {"MISSING", "ROOT_MISMATCH", "FILE_CHANGED", "OVERSIZED", "INCOMPLETE"}

\* A selection that fails ends the run: a restore always BLOCKED, a first selection by
\* whether the failure is blocking.
Fail(blocking) ==
    /\ run' = IF sel.restoring THEN "UNRESTORED" ELSE IF blocking THEN "BLOCKED" ELSE "FAILED"
    /\ sel' = Idle
    /\ UNCHANGED <<disk, request, cache, durable, crashes>>

\* An exclusion is recorded, and the one of required evidence fails the selection.
Exclude(e, reason, next) ==
    \/ /\ e.importance = Required
       /\ Fail(reason \in BLOCKING)
    \/ /\ e.importance # Required
       /\ sel' = [next EXCEPT !.excluded = @ \cup {Excluded(e, reason)}]
       /\ Keep

-----------------------------------------------------------------------------
(* The coordinator begins a selection: its first, or the one that restores *)
(* the package of a recorded outcome in a process that does not hold it.   *)

Begin ==
    /\ sel.pc = "idle" /\ run = "OPEN" /\ cache = None
    /\ \E stamp \in StampedAs :
          sel' = [Idle EXCEPT !.pc = "start", !.restoring = durable # None,
                              !.created = IF stamp = "now" THEN crashes ELSE 0]
    /\ Keep

\* Defect: the trusted controls are not taken off the agent's budget.
ItemBudgetWhole == Min({Limits.total, MaxAgentOutput})

ItemBudget == Min({Limits.total, MaxAgentOutput - request.control})

Ordered(S) ==
    [n \in 1 .. Cardinality(S) |->
        CHOOSE e \in S : Cardinality({f \in S : Before(f, e)}) = n - 1]

\* The checks before discovery (root, trusted controls, correlation, scope patterns),
\* and the candidates that the request's evidence names.
Preflight ==
    /\ sel.pc = "start"
    /\ \/ request.flaw # "NONE" /\ Fail(request.flaw = "ROOT_MISMATCH")
       \/ request.flaw = "NONE" /\ request.control > MaxAgentOutput /\ Fail(FALSE)
       \/ /\ request.flaw = "NONE" /\ request.control <= MaxAgentOutput
          /\ \E merged \in {MergeCandidates(request.candidates
                               \cup PathCandidates(request.evidence, request.role)
                               \cup GoverningCandidates(request.evidence, request.role))} :
             \E initial \in {Ordered({c \in merged :
                               c.source \in {"TASK_PATH", "CHANGED_PATH", "DIFF"}})} :
                sel' = [sel EXCEPT
                    !.pc = "expand", !.entries = merged,
                    !.visited = {initial[n].ref : n \in DOMAIN initial},
                    !.queue = [n \in DOMAIN initial |->
                                  [paths |-> {initial[n].ref}, depth |-> 0]]]
          /\ Keep

-----------------------------------------------------------------------------
(* Discovery reads files without a retry: a read that notices a write      *)
(* finds nothing, and one that does not is taken for one version.          *)

Races == IF request.writable # {} THEN BOOLEAN ELSE {FALSE}

\* _expand_python_dependencies: the first file of the queue, which holds the files found
\* in one parent together, in path order.
Expand ==
    LET p == Min(Head(sel.queue).paths)
        depth == Head(sel.queue).depth
        tail == IF Head(sel.queue).paths = {p} THEN Tail(sel.queue)
                ELSE [sel.queue EXCEPT ![1].paths = @ \ {p}]
        room == Limits.dependencies - Cardinality(sel.dependencies)
        readable == disk[p] \in Texts /\ Text[disk[p]].bytes <= Limits.source
                       /\ Text[disk[p]].nature \in {"TEXT", "SECRET"}
        new == {q \in Text[disk[p]].imports : q \notin sel.visited /\ disk[q] \in Texts}
        taken == {q \in new : Cardinality({r \in new : r < q}) < room}
    IN  /\ sel.pc = "expand" /\ sel.queue # <<>> /\ room > 0
        /\ \E raced \in Races :
              sel' = IF depth >= Limits.depth \/ raced \/ ~readable
                     THEN [sel EXCEPT !.queue = tail]
                     ELSE [sel EXCEPT
                        !.visited = @ \cup taken,
                        !.dependencies = @ \cup
                            {FileCandidate(q, "DEPENDENCY", Optional, 120 + depth,
                                           "REPOSITORY", FALSE) : q \in taken},
                        !.queue = IF taken = {} THEN tail
                                  ELSE Append(tail, [paths |-> taken, depth |-> depth + 1])]
        /\ Keep

\* _discover_tests: the tests that exist of the first files, in order.
Tests(candidates) ==
    LET stems == {c.ref : c \in {c \in candidates : TestOf[c.ref] # NoPath}}
        named == {p \in stems : Cardinality({q \in stems : q < p}) < Limits.tests}
    IN {FileCandidate(TestOf[p], "TEST", Preferred, 85, "TEST", FALSE) :
            p \in {p \in named : disk[TestOf[p]] \in Texts}}

\* The entry that the loop comes to next
Upcoming(todo) == IF todo = {} THEN None ELSE First(todo)

\* The end of discovery: the tests, then everything there is to select from, unless it is
\* too much.
DiscoverTests ==
    /\ sel.pc = "expand"
    /\ sel.queue = <<>> \/ Cardinality(sel.dependencies) >= Limits.dependencies
    /\ \E merged \in {MergeCandidates(sel.entries \cup sel.dependencies)} :
       \E entries \in {MergeCandidates(merged \cup Tests(merged))
                          \cup Unfiled(request)} :
          \/ Cardinality(entries) > Limits.candidates /\ Fail(FALSE)
          \/ /\ Cardinality(entries) <= Limits.candidates
             /\ sel' = [sel EXCEPT !.pc = "prepare", !.entries = entries,
                                   !.todo = entries, !.entry = Upcoming(entries)]
             /\ Keep

-----------------------------------------------------------------------------
(* Preparation: the entries in order, each excluded or made an item.       *)

Entry == sel.entry

EXCLUDED_PARTS == {".git", ".revanent", ".venv", "venv", "node_modules", "build", "dist",
                   ".pytest_cache", "__pycache__"}
SECRET_PARTS == {".env", "credentials", ".aws", ".azure", ".gcloud"}
HasPart(p, parts) == \E n \in DOMAIN Parts[p] : Parts[p][n] \in parts

\* Why an entry is left out before its content is looked at.
PreReason(e) ==
    CASE e.kind = "FILE" ->
            (CASE request.role \notin e.roles -> "ROLE_MISMATCH"
               [] ScopeReason(e.path) # "NONE" -> ScopeReason(e.path)
               [] HasPart(e.path, EXCLUDED_PARTS) -> "EXCLUDED_DIRECTORY"
               [] HasPart(e.path, SECRET_PARTS) -> "SECRET"
               [] OTHER -> "NONE")
      [] e.kind = "INLINE" -> IF e.path = NoPath THEN "NONE" ELSE ScopeReason(e.path)
      [] e.kind = "ARTIFACT" ->
            (CASE ~e.correlated -> "INVALID_ARTIFACT"
               [] e.truncated /\ e.complete -> "INCOMPLETE"
               [] e.stored > Limits.artifact -> "OVERSIZED"
               [] e.raw -> "SECRET"
               [] OTHER -> "NONE")

\* Why the content t keeps an entry out: what was read, then its redacted form.  No
\* mixture of two texts has the digest of an artifact.
ContentReason(e, t, mixed) ==
    CASE e.kind = "FILE" /\ Text[t].bytes > Limits.source -> "OVERSIZED"
      [] e.kind = "ARTIFACT" /\ (Text[t].bytes # e.stored \/ t # e.sha \/ mixed # None) -> "FILE_CHANGED"
      [] Text[t].nature # "TEXT" -> Text[t].nature
      [] Text[t].safe > Limits.source -> "OVERSIZED"
      [] Text[t].safe > Limits.item /\ e.complete -> "INCOMPLETE"
      [] OTHER -> "NONE"

\* _truncate_utf8: at most the limit, with the marker
RetainedBytes(t) == Min({Text[t].safe, Limits.item})

\* _content_item; the ghost `mixed` is how the metadata compared if the two halves of a
\* read saw different texts, else None.
ContentItem(e, t, mixed) ==
    [ref |-> e.ref, path |-> e.path, kind |-> e.kind, source |-> e.source,
     importance |-> e.importance, priority |-> e.priority,
     class |-> IF e.kind = "ARTIFACT" /\ e.provider THEN "PROVIDER" ELSE e.class,
     state |-> IF Text[t].safe > Limits.item THEN "TRUNCATED" ELSE "COMPLETE",
     retained |-> RetainedBytes(t), digest |-> Text[t].digest, of |-> None,
     mixed |-> mixed]

Advance == [sel EXCEPT !.todo = @ \ {Entry}, !.entry = Upcoming(sel.todo \ {Entry}),
                       !.read = NoRead]

\* The content of the entry is known; artifacts also count against a total of their own,
\* the ones that it excludes included.
TakeContent(t, mixed) ==
    LET reason == ContentReason(Entry, t, mixed)
        total == sel.artifacts + (IF Entry.kind = "ARTIFACT" THEN Text[t].bytes ELSE 0)
        next == [Advance EXCEPT !.artifacts = total]
    IN  \/ reason # "NONE" /\ Exclude(Entry, reason, Advance)
        \/ reason = "NONE" /\ total > Limits.artifacts /\ Exclude(Entry, "AGGREGATE_LIMIT", next)
        \/ /\ reason = "NONE" /\ total <= Limits.artifacts
           /\ sel' = [next EXCEPT !.prepared = Append(@, ContentItem(Entry, t, mixed))]
           /\ Keep

Refuse ==
    /\ sel.pc = "prepare" /\ sel.todo # {}
    /\ PreReason(Entry) # "NONE"
    /\ Exclude(Entry, PreReason(Entry), Advance)

PrepareInline ==
    /\ sel.pc = "prepare" /\ sel.todo # {}
    /\ Entry.kind = "INLINE" /\ PreReason(Entry) = "NONE"
    /\ TakeContent(Entry.text, None)

\* LocalContextFileReader.read: resolve and stat the path, open it and read the first half;
\* read the rest; stat again.  A link that stays inside the root is followed without a new
\* look at the scope; here every name holds a text of its own.
Reading(stage) ==
    /\ sel.pc = "prepare" /\ sel.todo # {}
    /\ Entry.kind # "INLINE" /\ PreReason(Entry) = "NONE"
    /\ sel.read.stage = stage

ReadBegin ==
    /\ Reading("stat")
    /\ \/ disk[Entry.path] \in NoText /\ Exclude(Entry, disk[Entry.path], Advance)
       \/ /\ disk[Entry.path] \in Texts
          /\ sel' = [sel EXCEPT !.read.stage = "rest", !.read.first = disk[Entry.path]]
          /\ Keep

ReadRest ==
    /\ Reading("rest")
    /\ sel' = [sel EXCEPT !.read.stage = "compare",
                          !.read.rest = IF disk[Entry.path] \in Texts THEN disk[Entry.path]
                                        ELSE sel.read.first]
    /\ Keep

\* What the comparison of the metadata finds
Changed == sel.read.metadata = "changed"

\* What was read, which is judged by one of its halves where they differ.
TakeRead ==
    \E t \in {sel.read.first, sel.read.rest} :
        TakeContent(t, IF sel.read.first = sel.read.rest THEN None ELSE sel.read.metadata)

\* Defect: the metadata of the open file is compared with itself.
ReadCompareOpened ==
    /\ Reading("compare")
    /\ TakeRead

\* Defect: a file that changed is read again until it stays the same.
ReadCompareForever ==
    /\ Reading("compare")
    /\ \/ /\ disk[Entry.path] = "MISSING" /\ Exclude(Entry, "MISSING", Advance)
       \/ /\ disk[Entry.path] # "MISSING" /\ Changed
          /\ sel' = [sel EXCEPT !.read = NoRead]
          /\ Keep
       \/ ~Changed /\ TakeRead

\* The comparison of the metadata (device, inode, size and time of modification), and
\* _read_with_retry around it.
ReadCompare ==
    /\ Reading("compare")
    /\ \/ disk[Entry.path] = "MISSING" /\ Exclude(Entry, "MISSING", Advance)
       \/ /\ disk[Entry.path] # "MISSING" /\ Changed
          /\ sel.read.tries < Limits.retries
          /\ sel' = [sel EXCEPT !.read = [NoRead EXCEPT !.tries = sel.read.tries + 1]]
          /\ Keep
       \/ /\ disk[Entry.path] # "MISSING" /\ Changed
          /\ sel.read.tries = Limits.retries
          /\ Exclude(Entry, "FILE_CHANGED", Advance)
       \/ ~Changed /\ TakeRead

Prepared ==
    /\ sel.pc = "prepare" /\ sel.todo = {}
    /\ sel' = [sel EXCEPT !.pc = "pack"]
    /\ Keep

-----------------------------------------------------------------------------
(* Packing: duplicates become references, then the limits of the package.  *)

Full(item) == Len(sel.items) >= Min({Limits.items, 63})

Retained(items) == SumOver([n \in DOMAIN items |-> items[n].retained], DOMAIN items)

\* The first item with a digest and class stands for the later ones, and is registered
\* before the limits are looked at.
Pack ==
    LET item == Head(sel.prepared)
        same == {k \in sel.keys : k.digest = item.digest /\ k.class = item.class}
        packed == IF same = {} THEN item
                  ELSE [item EXCEPT !.state = "REFERENCED", !.retained = 0,
                                    !.of = (CHOOSE k \in same : TRUE).ref]
        next == [sel EXCEPT
            !.prepared = Tail(@),
            !.keys = IF same = {} THEN @ \cup {[digest |-> item.digest, class |-> item.class,
                                                ref |-> item.ref]} ELSE @]
        heavy == Retained(sel.items) + packed.retained > ItemBudget
    IN  /\ sel.pc = "pack" /\ sel.prepared # <<>>
        /\ \/ Full(packed) /\ Exclude(packed, "ITEM_LIMIT", next)
           \/ ~Full(packed) /\ heavy /\ Exclude(packed, "AGGREGATE_LIMIT", next)
           \/ /\ ~Full(packed) /\ ~heavy
              /\ sel' = [next EXCEPT !.items = Append(@, packed)]
              /\ Keep

ManifestItem(i) == [ref |-> i.ref, importance |-> i.importance, class |-> i.class,
                    state |-> i.state, retained |-> i.retained, digest |-> i.digest,
                    of |-> i.of]

\* The ledger of exclusions is bounded; the rest of them are counted.
Ledger ==
    LET order(x, y) == \/ x.importance < y.importance
                       \/ x.importance = y.importance /\ x.ref < y.ref
    IN {x \in sel.excluded : Cardinality({y \in sel.excluded : order(y, x)})
                                < Limits.exclusions}

Manifest == [created |-> sel.created, items |-> [n \in DOMAIN sel.items |->
                                                    ManifestItem(sel.items[n])],
             exclusions |-> Ledger,
             overflow |-> Cardinality(sel.excluded) - Cardinality(Ledger),
             candidates |-> Cardinality(sel.entries)]

Selected == sel.pc = "pack" /\ sel.prepared = <<>>

\* The manifest becomes the OUTCOME of the CONTEXT attempt, then the package is kept.
Persist ==
    /\ Selected /\ durable = None
    /\ durable' = Manifest
    /\ UNCHANGED <<disk, request, sel, cache, run, crashes>>

\* Defect: a manifest with the same items is the same manifest.
KeepPackageByReference ==
    /\ Selected /\ durable # None
    /\ \/ /\ [n \in DOMAIN sel.items |-> sel.items[n].ref]
                = [n \in DOMAIN durable.items |-> durable.items[n].ref]
          /\ cache' = sel.items /\ sel' = Idle
          /\ UNCHANGED <<disk, request, durable, run, crashes>>
       \/ /\ [n \in DOMAIN sel.items |-> sel.items[n].ref]
                # [n \in DOMAIN durable.items |-> durable.items[n].ref]
          /\ Fail(TRUE)

\* _restore_context_package: the selection must give the recorded manifest again.
KeepPackage ==
    /\ Selected /\ durable # None
    /\ \/ /\ Manifest = durable
          /\ cache' = sel.items /\ sel' = Idle
          /\ UNCHANGED <<disk, request, durable, run, crashes>>
       \/ Manifest # durable /\ Fail(TRUE)

-----------------------------------------------------------------------------
(* The environment.                                                        *)

Crash ==
    /\ run = "OPEN" /\ crashes < MaxCrashes
    /\ crashes' = crashes + 1
    /\ sel' = Idle /\ cache' = None
    /\ UNCHANGED <<disk, request, durable, run>>

ReadUnderWay(p) == sel.read.stage # "stat" /\ Entry.path = p

\* Somebody writes or removes a file; the metadata tells a read that is under way.
Write ==
    /\ \E p \in request.writable, t \in Texts \cup {"MISSING"} :
          /\ disk' = [disk EXCEPT ![p] = t]
          /\ sel' = IF ReadUnderWay(p) THEN [sel EXCEPT !.read.metadata = "changed"] ELSE sel
    /\ UNCHANGED <<request, cache, durable, run, crashes>>

\* A write during the read that leaves a text of the size that was there, and the time of
\* modification too (set back, or within one tick of the file system).
EvadingWrite ==
    /\ \E p \in request.writable, t \in Texts :
          /\ ReadUnderWay(p)
          /\ disk[p] \in Texts \ {t} /\ Text[t].bytes = Text[sel.read.first].bytes
          /\ disk' = [disk EXCEPT ![p] = t]
          /\ sel' = [sel EXCEPT !.read.metadata = "evaded"]
    /\ UNCHANGED <<request, cache, durable, run, crashes>>

Step == \/ Begin \/ Preflight \/ Expand \/ DiscoverTests \/ Refuse \/ PrepareInline
        \/ ReadBegin \/ ReadRest \/ ReadCompare \/ Prepared \/ Pack \/ Persist
        \/ KeepPackage
Next == Step \/ Crash \/ Write \/ EvadingWrite
Spec == Init /\ [][Next]_vars
FairSpec == Spec /\ WF_vars(Step)

-----------------------------------------------------------------------------
Item == [ref : Nat, path : Paths \cup {NoPath}, kind : {"FILE", "INLINE", "ARTIFACT"},
         source : SourceValues, importance : 0 .. 2,
         priority : 0 .. 1000, class : Classes, retained : 0 .. Limits.item,
         state : {"COMPLETE", "TRUNCATED", "REFERENCED"}, digest : STRING,
         of : Nat \cup {None}, mixed : {None, "same", "changed", "evaded"}]

\* Type invariant; an item never retains more than the limit of one item (_truncate_utf8).
TypeOK ==
    /\ disk \in [Paths -> Texts \cup NoText]
    /\ sel.pc \in {"idle", "start", "expand", "prepare", "pack"}
    /\ sel.items \in Seq(Item) /\ sel.prepared \in Seq(Item)
    /\ sel.read.tries \in 0 .. Limits.retries
    /\ cache \in {None} \cup Seq(Item)
    /\ run \in {"OPEN", "BLOCKED", "FAILED", "UNRESTORED"}
    /\ crashes \in 0 .. MaxCrashes

\* What the request demands, before the merge (docs/adr/0010: required evidence is never
\* evicted or silently truncated).
Demands ==
    {d \in request.candidates \cup PathCandidates(request.evidence, request.role)
            \cup GoverningCandidates(request.evidence, request.role)
            \cup Unfiled(request) :
        d.importance = Required}

\* Content that a package delivers for an item: its own or the one it refers to.
Delivers(items, ref) ==
    {i \in {items[n] : n \in DOMAIN items} :
        /\ i.state # "REFERENCED"
        /\ \/ i.ref = ref
           \/ \E n \in DOMAIN items : items[n].ref = ref /\ items[n].of = i.ref}

\* A package a provider may see delivers every piece of required evidence, complete when
\* any of the requirements merged into it asks for that, whatever the limits, duplicates
\* and concurrent writes did (select, _merge_candidates, _required_failure).
RequiredDelivered ==
    cache # None => \A d \in Demands :
        /\ Delivers(cache, d.ref) # {}
        /\ d.complete => \A i \in Delivers(cache, d.ref) : i.state = "COMPLETE"

\* The controls and the retained bytes fit the agent's request, and the items leave room
\* for the controls' reference among the 64 of a request (agent_references).
WithinBudget ==
    /\ sel.items # <<>> => request.control + Retained(sel.items) <= MaxAgentOutput
    /\ Retained(sel.items) <= Limits.total
    /\ Len(sel.items) <= 63

\* Content read from a file that is written at the same time is one version of the file;
\* a mixture of two gets in only by a write that leaves size and time of modification as
\* they were, which docs/adr/0010 leaves open (LocalContextFileReader.read).
ContentIsOneVersion == \A n \in DOMAIN sel.items : sel.items[n].mixed \in {None, "evaded"}

InScope == {p \in Paths : /\ \E pattern \in Allowed : Covers(pattern, Parts[p])
                         /\ ~\E pattern \in Forbidden : Covers(pattern, Parts[p])}

\* Nothing is retained under a name outside the task's scope, by the meaning of the patterns
\* (_scope_match and _scope_reason).  This is about names: the reader does not look at the
\* scope of what a link inside the root leads to.
ScopeEnforced ==
    \A n \in DOMAIN sel.items :
        sel.items[n].kind # "ARTIFACT" => sel.items[n].path \in InScope \cup {NoPath}

\* The content a provider may see is the content the recorded manifest describes, across
\* restarts and writes (_restore_context_package).
PackageIsRecorded ==
    cache # None => [n \in DOMAIN cache |-> ManifestItem(cache[n])] = durable.items

\* A selection ends however often its files change (_read_with_retry, visited).
EventuallySelected == <>[](cache # None \/ run # "OPEN")

\* docs/adr/0010: a continuation re-reads its inputs and reproduces the manifest; so over
\* files that did not change it goes on.
UnchangedFilesRestore == request.writable = {} => run # "UNRESTORED"
=============================================================================
