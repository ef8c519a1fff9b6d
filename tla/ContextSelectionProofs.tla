------------------------ MODULE ContextSelectionProofs ------------------------
(***************************************************************************)
(* Theorems of ContextSelection for any files, patterns, limits and         *)
(* requests: what _scope_match computes is what its patterns mean, and the  *)
(* package a provider may see is complete, bounded, in scope, of one        *)
(* version and the one on record.                                           *)
(*                                                                          *)
(* The strengthening follows a required piece of evidence from the request  *)
(* to the package: through the merges (EntriesInv), the loop over entries   *)
(* in order of importance (PreparedInv) and the duplicates that become      *)
(* references (PackedInv).  It is that order which makes the references     *)
(* safe: an item is left out of the package only when nothing required      *)
(* comes after it, so what a required reference refers to is there.         *)
(***************************************************************************)
EXTENDS ContextSelection, SumLemmas, SequenceTheorems

Entries == FileEntries \cup InlineEntries \cup ArtifactEntries

Scoped(i) == i.kind # "ARTIFACT" => i.path \in InScope \cup {NoPath}

\* The state of a content item says how the redacted text compares with the limit.
Sized(i) ==
    i.state # "REFERENCED" =>
        \E t \in Texts : /\ i.digest = Text[t].digest
                         /\ i.state = "COMPLETE" <=> Text[t].safe <= Limits.item

\* What every item satisfies, packed or not.
Sane(i) == i.mixed \in {None, "evaded"} /\ Scoped(i) /\ Sized(i) /\ (i.state # "REFERENCED" => i.of = None)

\* The queue of the discovery: groups of paths at a depth within the limit.
Queue(q) ==
    \E S : q \in Seq(S) /\ \A g \in S : DOMAIN g = {"paths", "depth"} /\ g.depth \in 0 .. Limits.depth

SelectionTypes ==
    /\ DOMAIN sel = DOMAIN Idle
    /\ sel.pc \in {"idle", "start", "expand", "prepare", "pack"}
    /\ Queue(sel.queue)
    /\ sel.dependencies \subseteq FileEntries
    /\ sel.entries \subseteq Entries
    /\ sel.todo \subseteq sel.entries
    /\ DOMAIN sel.read = DOMAIN NoRead
    /\ sel.read.tries \in 0 .. Limits.retries
    /\ sel.prepared \in Seq(Item) /\ sel.items \in Seq(Item)
    /\ sel.artifacts \in Nat
    /\ \A k \in sel.keys : k.ref \in Nat

Types ==
    /\ disk \in [Paths -> Texts \cup NoText]
    /\ request \in Requests
    /\ SelectionTypes
    /\ cache \in {None} \cup Seq(Item)
    /\ run \in {"OPEN", "BLOCKED", "FAILED", "UNRESTORED"}
    /\ crashes \in 0 .. MaxCrashes

\* What has been read of the entry so far is one text unless somebody wrote the file.
ReadInv ==
    /\ sel.todo # {} => sel.entry = First(sel.todo)
    /\ sel.read.stage # "stat" =>
          /\ sel.pc = "prepare" /\ sel.todo # {} /\ sel.entry.path \in Paths
          /\ sel.read.first \in Texts
    /\ sel.read.metadata \in {"same", "changed", "evaded"}
    /\ sel.read.stage = "rest" /\ sel.read.metadata = "same" =>
          disk[sel.entry.path] = sel.read.first
    /\ sel.read.stage = "compare" =>
          /\ sel.read.rest \in Texts
          /\ sel.read.metadata = "same" => sel.read.rest = sel.read.first

\* The entry meets the demand.
Meets(e, d) == e.ref = d.ref /\ e.importance = Required /\ (d.complete => e.complete)

\* The item stands for the required entry e.
Stands(i, e) ==
    i.ref = e.ref /\ i.importance = Required /\ i.state # "REFERENCED"
       /\ (e.complete => i.state = "COMPLETE")

\* The package delivers e.
Supplied(items, e) ==
    \E n \in DOMAIN items :
        /\ items[n].ref = e.ref
        /\ \/ Stands(items[n], e)
           \/ /\ items[n].state = "REFERENCED"
              /\ \E m \in DOMAIN items : /\ items[m].ref = items[n].of /\ items[m].state # "REFERENCED"
                                         /\ e.complete => items[m].state = "COMPLETE"

\* What the request asks of files
Filed(r) == r.candidates \cup PathCandidates(r.evidence, r.role)
                \cup GoverningCandidates(r.evidence, r.role)

\* Nothing that is demanded is lost before the package.
EntriesInv ==
    /\ sel.pc = "expand" =>
          /\ sel.entries \subseteq FileEntries
          /\ \A d \in Filed(request) : d.importance = Required => \E e \in sel.entries : Meets(e, d)
    /\ sel.pc \in {"prepare", "pack"} =>
          /\ \A d \in Demands : \E e \in sel.entries : Meets(e, d)
          /\ \A d, e \in sel.entries : d.ref = e.ref => d = e
    /\ sel.pc # "prepare" => sel.todo = {}

Rest(e) == \E n \in DOMAIN sel.prepared : Stands(sel.prepared[n], e)

\* Prepared items: one of each entry at most, in the order of importance.
PreparedInv ==
    /\ \A n \in DOMAIN sel.prepared : Sane(sel.prepared[n]) /\ sel.prepared[n].state # "REFERENCED"
    /\ \A m, n \in DOMAIN sel.prepared :
          m < n => /\ sel.prepared[m].ref # sel.prepared[n].ref
                   /\ sel.prepared[m].importance <= sel.prepared[n].importance
    /\ sel.pc = "prepare" =>
          /\ \A n \in DOMAIN sel.prepared : \A e \in sel.todo :
                sel.prepared[n].ref # e.ref /\ sel.prepared[n].importance <= e.importance
          /\ \A e \in sel.entries : e.importance = Required => e \in sel.todo \/ Rest(e)
          /\ \A n \in DOMAIN sel.prepared : \E e \in sel.entries : sel.prepared[n].ref = e.ref

\* Packed items and the representatives of duplicates: one that was left out stands for
\* nothing that is required.
PackedInv ==
    /\ sel.pc # "pack" => sel.items = <<>> /\ sel.keys = {}
    /\ sel.pc \in {"idle", "start", "expand"} => sel.prepared = <<>>
    /\ \A n \in DOMAIN sel.items : Sane(sel.items[n])
    /\ \A m, n \in DOMAIN sel.items : sel.items[m].ref = sel.items[n].ref => m = n
    /\ \A m \in DOMAIN sel.items, n \in DOMAIN sel.prepared : sel.items[m].ref # sel.prepared[n].ref
    /\ \A k \in sel.keys :
          \/ \A n \in DOMAIN sel.prepared : sel.prepared[n].importance # Required
          \/ \E n \in DOMAIN sel.items : /\ sel.items[n].ref = k.ref /\ sel.items[n].state # "REFERENCED"
                                         /\ sel.items[n].digest = k.digest
    /\ sel.pc = "pack" => \A e \in sel.entries : e.importance = Required => Rest(e) \/ Supplied(sel.items, e)

\* The package fits.
BudgetInv ==
    /\ sel.pc \in {"expand", "prepare", "pack"} => request.control <= MaxAgentOutput
    /\ sel.items # <<>> => request.control + Retained(sel.items) <= MaxAgentOutput
    /\ Retained(sel.items) <= Limits.total
    /\ Len(sel.items) <= 63

\* The package that is kept
CacheInv ==
    /\ cache # None => durable # None
    /\ PackageIsRecorded
    /\ RequiredDelivered

Inv == Types /\ ReadInv /\ EntriesInv /\ PreparedInv /\ PackedInv /\ BudgetInv /\ CacheInv

-----------------------------------------------------------------------------
(* What _scope_match computes.                                              *)

\* The value of match at j, given its value at j + 1
MatchFrom(path, pattern, match, j) ==
    {i \in 1 .. Len(path) + 1 :
        IF j > Len(pattern) THEN i > Len(path)
        ELSE IF pattern[j] = "**"
             THEN j = Len(pattern) \/ \E k \in i .. Len(path) + 1 : k \in match[j + 1]
        ELSE i <= Len(path) /\ PartMatches(path[i], pattern[j]) /\ i + 1 \in match[j + 1]}

IsMatch(path, pattern, match) ==
    match = [j \in 1 .. Len(pattern) + 1 |-> MatchFrom(path, pattern, match, j)]

\* ScopeMatch looks at the first value of a function that satisfies the recursion.
LEMMA ScopeMatchDef ==
    ASSUME NEW path, NEW pattern
    PROVE  ScopeMatch(path, pattern) <=> 1 \in (CHOOSE match : IsMatch(path, pattern, match))[1]
BY DEF ScopeMatch, IsMatch, MatchFrom

\* Cuts of the path: where each part of the pattern, from j on, begins.
Cuts(path, pattern, i, j, s) ==
    /\ s \in [j .. Len(pattern) + 1 -> 1 .. Len(path) + 1]
    /\ s[j] = i /\ s[Len(pattern) + 1] = Len(path) + 1
    /\ \A n \in j .. Len(pattern) :
          IF pattern[n] = "**" THEN s[n] <= s[n + 1]
          ELSE s[n + 1] = s[n] + 1 /\ PartMatches(path[s[n]], pattern[n])

Matches(path, pattern, i, j) == \E s : Cuts(path, pattern, i, j, s)

\* The cuts satisfy the recursion.
LEMMA MatchesFrom ==
    ASSUME NEW path \in Seq(STRING), NEW pattern \in Seq(STRING),
           NEW i \in 1 .. Len(path) + 1, NEW j \in 1 .. Len(pattern) + 1
    PROVE  Matches(path, pattern, i, j) <=>
             IF j > Len(pattern) THEN i > Len(path)
             ELSE IF pattern[j] = "**"
                  THEN j = Len(pattern) \/ \E k \in i .. Len(path) + 1 : Matches(path, pattern, k, j + 1)
             ELSE i <= Len(path) /\ PartMatches(path[i], pattern[j]) /\ Matches(path, pattern, i + 1, j + 1)
<1>0. Len(path) \in Nat /\ Len(pattern) \in Nat
  OBVIOUS
<1> DEFINE End == Len(pattern) + 1
           L == Len(path) + 1
<1>1. CASE j > Len(pattern)
  <2>1. ASSUME Matches(path, pattern, i, j) PROVE i > Len(path)
    BY <1>0, <1>1, <2>1 DEF Matches, Cuts
  <2>2. ASSUME i > Len(path) PROVE Matches(path, pattern, i, j)
    <3>1. Cuts(path, pattern, i, j, [n \in j .. End |-> L])
      BY <1>0, <1>1, <2>2 DEF Cuts
    <3> QED BY <3>1 DEF Matches
  <2> QED BY <1>1, <2>1, <2>2
<1>2. CASE j <= Len(pattern)
  \* Cuts from j + 1 on make cuts from j on.
  <2>1. ASSUME NEW k \in 1 .. L, Matches(path, pattern, k, j + 1),
               IF pattern[j] = "**" THEN i <= k ELSE k = i + 1 /\ PartMatches(path[i], pattern[j])
        PROVE  Matches(path, pattern, i, j)
    <3>1. PICK t : Cuts(path, pattern, k, j + 1, t)
      BY <2>1 DEF Matches
    <3>2. PICK s : s = [n \in j .. End |-> IF n = j THEN i ELSE t[n]]
      OBVIOUS
    <3>3. s[j] = i /\ s[j + 1] = k /\ \A n \in j + 1 .. End : s[n] = t[n]
      BY <1>0, <1>2, <3>1, <3>2 DEF Cuts
    <3>4. s \in [j .. End -> 1 .. L]
      <4>1. ASSUME NEW n \in j .. End PROVE s[n] \in 1 .. L
        <5>1. CASE n = j
          BY <3>3, <5>1
        <5>2. CASE n # j
          <6>1. n \in j + 1 .. End
            BY <1>0, <5>2
          <6> QED BY <3>1, <3>3, <6>1 DEF Cuts
        <5> QED BY <5>1, <5>2
      <4> QED BY <3>2, <4>1
    <3>5. ASSUME NEW n \in j .. Len(pattern)
          PROVE  IF pattern[n] = "**" THEN s[n] <= s[n + 1]
                 ELSE s[n + 1] = s[n] + 1 /\ PartMatches(path[s[n]], pattern[n])
      <4>1. CASE n = j
        BY <2>1, <3>3, <4>1
      <4>2. CASE n # j
        <5>1. n \in j + 1 .. Len(pattern) /\ n \in j + 1 .. End /\ n + 1 \in j + 1 .. End
          BY <1>0, <4>2
        <5>2. s[n] = t[n] /\ s[n + 1] = t[n + 1]
          BY <3>3, <5>1
        <5> QED BY <3>1, <5>1, <5>2 DEF Cuts
      <4> QED BY <4>1, <4>2
    <3>6. s[End] = L
      BY <1>0, <1>2, <3>1, <3>3 DEF Cuts
    <3> QED BY <3>3, <3>4, <3>5, <3>6 DEF Matches, Cuts
  \* Cuts from j on are cuts from j + 1 on.
  <2>2. ASSUME Matches(path, pattern, i, j)
        PROVE  \E k \in 1 .. L :
                  /\ Matches(path, pattern, k, j + 1)
                  /\ IF pattern[j] = "**" THEN i <= k ELSE k = i + 1 /\ PartMatches(path[i], pattern[j])
    <3>1. PICK s : Cuts(path, pattern, i, j, s)
      BY <2>2 DEF Matches
    <3>2. PICK t : t = [n \in j + 1 .. End |-> s[n]]
      OBVIOUS
    <3>3. \A n \in j + 1 .. End : n \in j .. End /\ t[n] = s[n]
      BY <1>0, <3>2
    <3>4. t \in [j + 1 .. End -> 1 .. L]
      BY <3>1, <3>2, <3>3 DEF Cuts
    <3>5. j + 1 \in j + 1 .. End /\ End \in j + 1 .. End
      BY <1>0, <1>2
    <3>6. \A n \in j + 1 .. Len(pattern) :
             n \in j .. Len(pattern) /\ n \in j + 1 .. End /\ n + 1 \in j + 1 .. End
      BY <1>0
    <3>7. Cuts(path, pattern, s[j + 1], j + 1, t)
      BY <3>1, <3>3, <3>4, <3>5, <3>6 DEF Cuts
    <3>8. /\ s[j + 1] \in 1 .. L /\ s[j] = i
          /\ IF pattern[j] = "**" THEN s[j] <= s[j + 1]
             ELSE s[j + 1] = s[j] + 1 /\ PartMatches(path[s[j]], pattern[j])
      <4>1. j \in j .. Len(pattern) /\ j + 1 \in j .. End
        BY <1>0, <1>2
      <4> QED BY <3>1, <4>1 DEF Cuts
    <3> QED BY <3>7, <3>8 DEF Matches
  \* A last "**" takes the rest of the path.
  <2>3. j = Len(pattern) => Matches(path, pattern, L, j + 1)
    <3>1. j = Len(pattern) => Cuts(path, pattern, L, j + 1, [n \in j + 1 .. End |-> L])
      BY <1>0 DEF Cuts
    <3> QED BY <3>1 DEF Matches
  <2>4. i <= L /\ L \in 1 .. L /\ \A k \in i .. L : k \in 1 .. L /\ i <= k
    BY <1>0
  <2>5. CASE pattern[j] = "**"
    BY <1>0, <1>2, <2>1, <2>2, <2>3, <2>4, <2>5
  <2>6. CASE pattern[j] # "**"
    <3>1. i <= Len(path) <=> i + 1 \in 1 .. L
      BY <1>0
    <3> QED BY <1>0, <1>2, <2>1, <2>2, <2>6, <3>1
  <2> QED BY <2>5, <2>6
<1> QED BY <1>0, <1>1, <1>2

\* So they are what the recursion computes, and nothing else satisfies it.
LEMMA ScopeMatchCuts ==
    ASSUME NEW path \in Seq(STRING), NEW pattern \in Seq(STRING)
    PROVE  ScopeMatch(path, pattern) <=> Matches(path, pattern, 1, 1)
<1>0. Len(path) \in Nat /\ Len(pattern) \in Nat
  OBVIOUS
<1> DEFINE I == 1 .. Len(path) + 1
           J == 1 .. Len(pattern) + 1
<1>1. PICK h : h = [j \in J |-> {i \in I : Matches(path, pattern, i, j)}]
  OBVIOUS
<1>2. \A i \in I, j \in J : i \in h[j] <=> Matches(path, pattern, i, j)
  BY <1>1
<1>3. ASSUME NEW j \in J PROVE h[j] = MatchFrom(path, pattern, h, j)
  <2>1. h[j] \subseteq I /\ MatchFrom(path, pattern, h, j) \subseteq I
    BY <1>1 DEF MatchFrom
  <2>2. ASSUME NEW i \in I PROVE i \in h[j] <=> i \in MatchFrom(path, pattern, h, j)
    <3>1. j <= Len(pattern) => j + 1 \in J
      BY <1>0
    <3>2. \A k \in i .. Len(path) + 1 : k \in I
      BY <1>0
    <3>3. i <= Len(path) => i + 1 \in I
      BY <1>0
    <3>4. i \in h[j] <=>
             IF j > Len(pattern) THEN i > Len(path)
             ELSE IF pattern[j] = "**"
                  THEN j = Len(pattern) \/ \E k \in i .. Len(path) + 1 : Matches(path, pattern, k, j + 1)
             ELSE i <= Len(path) /\ PartMatches(path[i], pattern[j]) /\ Matches(path, pattern, i + 1, j + 1)
      BY <1>2, MatchesFrom
    <3>5. j <= Len(pattern) => \A k \in I : k \in h[j + 1] <=> Matches(path, pattern, k, j + 1)
      BY <1>2, <3>1
    <3>6. CASE j > Len(pattern)
      BY <3>4, <3>6 DEF MatchFrom
    <3>7. CASE j <= Len(pattern)
      BY <1>0, <3>2, <3>3, <3>4, <3>5, <3>7 DEF MatchFrom
    <3> QED BY <1>0, <3>6, <3>7
  <2> QED BY <2>1, <2>2
<1>4. IsMatch(path, pattern, h)
  BY <1>1, <1>3 DEF IsMatch
<1>5. PICK g : IsMatch(path, pattern, g) /\ (ScopeMatch(path, pattern) <=> 1 \in g[1])
  BY <1>4, ScopeMatchDef
<1>6. \A j \in J : g[j] = MatchFrom(path, pattern, g, j)
  BY <1>5 DEF IsMatch
<1>7. \A j \in J : g[j] = h[j]
  <2> DEFINE Bad == {n \in Nat : \E j \in J : n = Len(pattern) + 1 - j /\ g[j] # h[j]}
  <2> SUFFICES ASSUME Bad # {} PROVE FALSE
    <3>1. ASSUME NEW j \in J, g[j] # h[j] PROVE Len(pattern) + 1 - j \in Bad
      BY <1>0, <3>1
    <3> QED BY <3>1
  <2>1. PICK n \in Bad : \A m \in Bad : n <= m
    <3> HIDE DEF Bad
    <3>1. Bad \subseteq Nat
      BY DEF Bad
    <3> QED BY <3>1, LeastNatural
  <2>2. PICK j \in J : n = Len(pattern) + 1 - j /\ g[j] # h[j]
    BY <2>1
  <2>3. j <= Len(pattern) => g[j + 1] = h[j + 1]
    <3> SUFFICES ASSUME j <= Len(pattern) PROVE g[j + 1] = h[j + 1]
      OBVIOUS
    <3>1. j + 1 \in J /\ n - 1 \in Nat /\ n - 1 = Len(pattern) + 1 - (j + 1) /\ n \in Nat
      BY <1>0, <2>2
    <3>2. n - 1 \notin Bad
      <4> HIDE DEF Bad
      <4> QED BY <2>1, <3>1
    <3> QED BY <3>1, <3>2
  <2>4. MatchFrom(path, pattern, g, j) = MatchFrom(path, pattern, h, j)
    BY <1>0, <2>3, SMTT(30) DEF MatchFrom
  <2> QED BY <1>3, <1>6, <2>2, <2>4
<1> QED BY <1>0, <1>2, <1>5, <1>7

\* Widths add up to the cuts that they make.
LEMMA Starts ==
    ASSUME NEW m \in Nat, NEW width, \A n \in 1 .. m : width[n] \in Nat
    PROVE  /\ \A n \in 1 .. m + 1 : SumOver(width, 1 .. n - 1) \in Nat
           /\ SumOver(width, 1 .. 1 - 1) = 0
           /\ \A n \in 1 .. m : SumOver(width, 1 .. (n + 1) - 1) = SumOver(width, 1 .. n - 1) + width[n]
<1>1. SumOver(width, 1 .. 1 - 1) = 0
  <2>1. 1 .. 1 - 1 = {}
    OBVIOUS
  <2> QED BY <2>1, SumEmpty
<1>2. ASSUME NEW n \in 1 .. m
      PROVE  /\ SumOver(width, 1 .. n) = SumOver(width, 1 .. n - 1) + width[n]
             /\ SumOver(width, 1 .. n - 1) \in Nat
  <2>1. n \in Nat \ {0} /\ \A i \in 1 .. n : width[i] \in Nat
    OBVIOUS
  <2> QED BY <2>1, SumOneMore
<1>3. ASSUME NEW n \in 1 .. m + 1 PROVE SumOver(width, 1 .. n - 1) \in Nat
  <2>1. CASE n <= m
    BY <1>2, <2>1
  <2>2. CASE n = m + 1
    <3>1. n - 1 = m
      BY <2>2
    <3>2. CASE m = 0
      <4>1. n = 1
        BY <2>2, <3>2
      <4> QED BY <1>1, <4>1
    <3>3. CASE m # 0
      <4>1. m \in 1 .. m
        BY <3>3
      <4>2. SumOver(width, 1 .. m) = SumOver(width, 1 .. m - 1) + width[m] /\ SumOver(width, 1 .. m - 1) \in Nat
        BY <1>2, <4>1
      <4> QED BY <3>1, <4>1, <4>2
    <3> QED BY <3>2, <3>3
  <2> QED BY <2>1, <2>2
<1>4. ASSUME NEW n \in 1 .. m
      PROVE  SumOver(width, 1 .. (n + 1) - 1) = SumOver(width, 1 .. n - 1) + width[n]
  <2>1. (n + 1) - 1 = n
    OBVIOUS
  <2> QED BY <1>2, <2>1
<1> QED BY <1>1, <1>3, <1>4, Zenon

\* _scope_match decides whether the pattern covers the path, for all of both.
THEOREM ScopeMatchMeans ==
    ASSUME NEW path \in Seq(STRING), NEW pattern \in Seq(STRING)
    PROVE  ScopeMatch(path, pattern) <=> Covers(pattern, path)
<1>0. Len(path) \in Nat /\ Len(pattern) \in Nat /\ DOMAIN pattern = 1 .. Len(pattern)
  OBVIOUS
<1> DEFINE M == Len(pattern)
           L == Len(path)
           start(width, n) == 1 + SumOver(width, 1 .. n - 1)
\* From cuts to widths.
<1>1. ASSUME Matches(path, pattern, 1, 1) PROVE Covers(pattern, path)
  <2>1. PICK s : Cuts(path, pattern, 1, 1, s)
    BY <1>1 DEF Matches
  <2>2. s[1] = 1 /\ s[M + 1] = L + 1
    BY <2>1 DEF Cuts
  <2>3. \A n \in 1 .. M + 1 : s[n] \in 1 .. L + 1
    BY <2>1 DEF Cuts
  <2>4. \A n \in 1 .. M : IF pattern[n] = "**" THEN s[n] <= s[n + 1]
                         ELSE s[n + 1] = s[n] + 1 /\ PartMatches(path[s[n]], pattern[n])
    BY <2>1 DEF Cuts
  <2>5. PICK width : width = [n \in 1 .. M |-> s[n + 1] - s[n]]
    OBVIOUS
  <2>6. ASSUME NEW n \in 1 .. M
        PROVE  width[n] \in 0 .. L /\ s[n + 1] = s[n] + width[n]
    <3>1. n \in 1 .. M + 1 /\ n + 1 \in 1 .. M + 1
      BY <1>0
    <3>2. s[n] \in 1 .. L + 1 /\ s[n + 1] \in 1 .. L + 1 /\ s[n] <= s[n + 1]
      BY <1>0, <2>3, <2>4, <3>1
    <3>3. width[n] = s[n + 1] - s[n]
      BY <2>5
    <3> QED BY <1>0, <3>2, <3>3
  <2>7. /\ start(width, 1) = 1
        /\ \A n \in 1 .. M : start(width, n + 1) = start(width, n) + width[n]
    <3>1. \A n \in 1 .. M : width[n] \in Nat
      BY <1>0, <2>6
    <3>2. /\ \A n \in 1 .. M + 1 : SumOver(width, 1 .. n - 1) \in Nat
          /\ SumOver(width, 1 .. 1 - 1) = 0
          /\ \A n \in 1 .. M : SumOver(width, 1 .. (n + 1) - 1) = SumOver(width, 1 .. n - 1) + width[n]
      BY <1>0, <3>1, Starts, Zenon
    <3>3. \A n \in 1 .. M : n \in 1 .. M + 1
      BY <1>0
    <3> QED BY <3>1, <3>2, <3>3
  <2>8. \A n \in 1 .. M + 1 : start(width, n) = s[n]
    <3> HIDE DEF start
    <3> DEFINE Bad == {n \in 1 .. M + 1 : start(width, n) # s[n]}
    <3> SUFFICES ASSUME Bad # {} PROVE FALSE
      OBVIOUS
    <3>1. PICK n \in Bad : \A k \in Bad : n <= k
      <4> HIDE DEF Bad
      <4>1. Bad \subseteq Nat
        BY DEF Bad
      <4> QED BY <4>1, LeastNatural
    <3>2. n # 1
      BY <2>2, <2>7, <3>1
    <3>3. n - 1 \in 1 .. M /\ n - 1 \in 1 .. M + 1 /\ (n - 1) + 1 = n
      BY <1>0, <3>1, <3>2
    <3>4. n - 1 \notin Bad
      <4>1. n \in Nat
        BY <1>0
      <4> HIDE DEF Bad
      <4> QED BY <3>1, <4>1
    <3>5. start(width, n - 1) = s[n - 1]
      BY <3>3, <3>4
    <3>6. start(width, n) = s[n]
      BY <2>6, <2>7, <3>3, <3>5
    <3> QED BY <3>1, <3>6
  <2>9. start(width, M + 1) = L + 1
    <3>1. M + 1 \in 1 .. M + 1
      BY <1>0
    <3> HIDE DEF start
    <3> QED BY <2>2, <2>8, <3>1
  <2>10. ASSUME NEW n \in DOMAIN pattern, pattern[n] # "**"
         PROVE  width[n] = 1 /\ PartMatches(path[start(width, n)], pattern[n])
    <3>1. n \in 1 .. M /\ n \in 1 .. M + 1 /\ n + 1 \in 1 .. M + 1
      BY <1>0
    <3>2. s[n] \in Nat /\ s[n + 1] = s[n] + 1 /\ PartMatches(path[s[n]], pattern[n])
      BY <1>0, <2>3, <2>4, <2>10, <3>1
    <3>3. width[n] = s[n + 1] - s[n]
      BY <2>5, <3>1
    <3>4. start(width, n) = s[n]
      BY <2>8, <3>1
    <3> HIDE DEF start
    <3> QED BY <3>2, <3>3, <3>4
  <2>11. width \in [1 .. M -> 0 .. L]
    BY <2>5, <2>6
  <2> QED BY <2>9, <2>10, <2>11 DEF Covers
\* From widths to cuts.
<1>2. ASSUME Covers(pattern, path) PROVE Matches(path, pattern, 1, 1)
  <2>1. PICK width \in [1 .. M -> 0 .. L] :
           /\ start(width, M + 1) = L + 1
           /\ \A n \in DOMAIN pattern : pattern[n] # "**" =>
                 width[n] = 1 /\ PartMatches(path[start(width, n)], pattern[n])
    BY <1>2 DEF Covers
  <2>2. \A n \in 1 .. M : width[n] \in Nat
    BY <1>0
  <2>3. /\ start(width, 1) = 1
        /\ \A n \in 1 .. M : start(width, n + 1) = start(width, n) + width[n]
        /\ \A n \in 1 .. M + 1 : start(width, n) \in Nat \ {0}
    <3>1. /\ \A n \in 1 .. M + 1 : SumOver(width, 1 .. n - 1) \in Nat
          /\ SumOver(width, 1 .. 1 - 1) = 0
          /\ \A n \in 1 .. M : SumOver(width, 1 .. (n + 1) - 1) = SumOver(width, 1 .. n - 1) + width[n]
      BY <1>0, <2>2, Starts, Zenon
    <3>2. \A n \in 1 .. M : n \in 1 .. M + 1
      BY <1>0
    <3> QED BY <2>2, <3>1, <3>2
  <2> HIDE DEF start
  <2>4. \A n \in 1 .. M + 1 : start(width, n) <= L + 1
    <3> DEFINE Bad == {k \in 0 .. M : start(width, M + 1 - k) > L + 1}
    <3> SUFFICES ASSUME Bad # {} PROVE FALSE
      <4>1. ASSUME NEW n \in 1 .. M + 1, ~(start(width, n) <= L + 1) PROVE M + 1 - n \in Bad
        <5>1. M + 1 - n \in 0 .. M /\ M + 1 - (M + 1 - n) = n
          BY <1>0
        <5> QED BY <1>0, <2>3, <4>1, <5>1
      <4> QED BY <4>1
    <3>1. PICK k \in Bad : \A i \in Bad : k <= i
      <4> HIDE DEF Bad
      <4>1. Bad \subseteq Nat
        BY <1>0 DEF Bad
      <4> QED BY <4>1, LeastNatural
    <3>2. k # 0
      BY <1>0, <2>1, <3>1
    <3>3. k - 1 \in 0 .. M /\ M + 1 - k \in 1 .. M /\ (M + 1 - k) + 1 = M + 1 - (k - 1) /\ k \in Nat
      BY <1>0, <3>1, <3>2
    <3>4. k - 1 \notin Bad
      <4> HIDE DEF Bad
      <4> QED BY <3>1, <3>3
    <3>5. ~(start(width, (M + 1 - k) + 1) > L + 1)
      BY <3>3, <3>4
    <3>6. start(width, M + 1 - k) > L + 1
      BY <3>1
    <3>7. /\ start(width, (M + 1 - k) + 1) = start(width, M + 1 - k) + width[M + 1 - k]
          /\ start(width, M + 1 - k) \in Nat /\ width[M + 1 - k] \in Nat
      <4>1. M + 1 - k \in 1 .. M + 1
        BY <1>0, <3>3
      <4> QED BY <2>2, <2>3, <3>3, <4>1
    <3> QED BY <1>0, <3>5, <3>6, <3>7
  <2>5. PICK s : s = [n \in 1 .. M + 1 |-> start(width, n)]
    OBVIOUS
  <2>6. s \in [1 .. M + 1 -> 1 .. L + 1]
    BY <1>0, <2>3, <2>4, <2>5
  <2>7. s[1] = 1 /\ s[M + 1] = L + 1
    BY <1>0, <2>1, <2>3, <2>5
  <2>8. ASSUME NEW n \in 1 .. M
        PROVE  IF pattern[n] = "**" THEN s[n] <= s[n + 1]
               ELSE s[n + 1] = s[n] + 1 /\ PartMatches(path[s[n]], pattern[n])
    <3>1. n \in 1 .. M + 1 /\ n + 1 \in 1 .. M + 1
      BY <1>0
    <3>2. s[n] = start(width, n) /\ s[n + 1] = start(width, n) + width[n]
      BY <2>3, <2>5, <3>1
    <3>3. start(width, n) \in Nat /\ width[n] \in Nat
      BY <2>2, <2>3, <3>1
    <3>4. pattern[n] # "**" => width[n] = 1 /\ PartMatches(path[start(width, n)], pattern[n])
      BY <1>0, <2>1
    <3> QED BY <3>2, <3>3, <3>4
  <2>9. Cuts(path, pattern, 1, 1, s)
    BY <2>6, <2>7, <2>8 DEF Cuts
  <2> QED BY <2>9 DEF Matches
<1> QED BY <1>1, <1>2, ScopeMatchCuts
-----------------------------------------------------------------------------
(* The order of entries and the merge of candidates.                        *)

\* Every source has a place in the order.
LEMMA Ranks == \A source \in SourceValues : SourceRank(source) \in Nat
<1> SUFFICES ASSUME NEW source \in SourceValues PROVE SourceRank(source) \in Nat
  OBVIOUS
<1>1. DOMAIN Sources \subseteq Nat
  BY DEF Sources
<1>2. \E n \in DOMAIN Sources : Sources[n] = source
  BY DEF SourceValues
<1>3. SourceRank(source) \in DOMAIN Sources
  BY <1>2 DEF SourceRank
<1> QED BY <1>1, <1>3

\* Every entry has a key of four naturals.
LEMMA EntryKeys ==
    \A e \in Entries : /\ e.importance \in 0 .. 2 /\ e.importance \in Nat /\ e.priority \in Nat
                       /\ SourceRank(e.source) \in Nat /\ e.ref \in Nat
<1>1. \A e \in Entries : /\ e.importance \in 0 .. 2 /\ e.priority \in 0 .. 1000
                         /\ e.source \in SourceValues /\ e.ref \in Nat
  <2>1. ASSUME NEW e \in FileEntries
        PROVE  e.importance \in 0 .. 2 /\ e.priority \in 0 .. 1000 /\ e.source \in SourceValues /\ e.ref \in Nat
    BY PathsAssumption DEF FileEntries
  <2>2. ASSUME NEW e \in InlineEntries
        PROVE  e.importance \in 0 .. 2 /\ e.priority \in 0 .. 1000 /\ e.source \in SourceValues /\ e.ref \in Nat
    BY DEF InlineEntries
  <2>3. ASSUME NEW e \in ArtifactEntries
        PROVE  e.importance \in 0 .. 2 /\ e.priority \in 0 .. 1000 /\ e.source \in SourceValues /\ e.ref \in Nat
    BY DEF ArtifactEntries
  <2> QED BY <2>1, <2>2, <2>3 DEF Entries
<1> QED BY <1>1, Ranks, SMTT(30)

\* What it means to be before another entry.
LEMMA BeforeDef ==
    ASSUME NEW a, NEW b
    PROVE  Before(a, b) <=>
             \/ a.importance < b.importance
             \/ a.importance = b.importance /\ a.priority < b.priority
             \/ /\ a.importance = b.importance /\ a.priority = b.priority
                /\ SourceRank(a.source) < SourceRank(b.source)
             \/ /\ a.importance = b.importance /\ a.priority = b.priority
                /\ SourceRank(a.source) = SourceRank(b.source) /\ a.ref < b.ref
<1>1. PICK ka : ka = <<a.importance, a.priority, SourceRank(a.source), a.ref>>
  OBVIOUS
<1>2. PICK kb : kb = <<b.importance, b.priority, SourceRank(b.source), b.ref>>
  OBVIOUS
<1>3. Before(a, b) <=> \E n \in 1 .. 4 : ka[n] < kb[n] /\ \A m \in 1 .. n - 1 : ka[m] = kb[m]
  BY <1>1, <1>2 DEF Before
<1>4. 1 .. 4 = {1, 2, 3, 4} /\ 1 .. 1 - 1 = {} /\ 1 .. 2 - 1 = {1} /\ 1 .. 3 - 1 = {1, 2} /\ 1 .. 4 - 1 = {1, 2, 3}
  OBVIOUS
<1>5. Before(a, b) <=> \/ ka[1] < kb[1]
                       \/ ka[1] = kb[1] /\ ka[2] < kb[2]
                       \/ ka[1] = kb[1] /\ ka[2] = kb[2] /\ ka[3] < kb[3]
                       \/ ka[1] = kb[1] /\ ka[2] = kb[2] /\ ka[3] = kb[3] /\ ka[4] < kb[4]
  BY <1>3, <1>4
<1> QED BY <1>1, <1>2, <1>5

\* The loop over sorted entries takes one of the most important of those left.
LEMMA FirstEntry ==
    ASSUME NEW S, S \subseteq Entries, S # {}
    PROVE  First(S) \in S /\ \A f \in S : First(S).importance <= f.importance
<1>0. \A e \in S : /\ e.importance \in Nat /\ e.priority \in Nat
                   /\ SourceRank(e.source) \in Nat /\ e.ref \in Nat
  BY EntryKeys
<1>1. PICK i \in {e.importance : e \in S} : \A x \in {e.importance : e \in S} : i <= x
  <2>1. {e.importance : e \in S} \subseteq Nat /\ {e.importance : e \in S} # {}
    BY <1>0
  <2> QED BY <2>1, LeastNatural
<1>2. PICK S1 : S1 = {e \in S : e.importance = i}
  OBVIOUS
<1>3. PICK p \in {e.priority : e \in S1} : \A x \in {e.priority : e \in S1} : p <= x
  <2>1. {e.priority : e \in S1} \subseteq Nat /\ {e.priority : e \in S1} # {}
    BY <1>0, <1>1, <1>2
  <2> QED BY <2>1, LeastNatural
<1>4. PICK S2 : S2 = {e \in S1 : e.priority = p}
  OBVIOUS
<1>5. PICK r \in {SourceRank(e.source) : e \in S2} : \A x \in {SourceRank(e.source) : e \in S2} : r <= x
  <2>1. {SourceRank(e.source) : e \in S2} \subseteq Nat /\ {SourceRank(e.source) : e \in S2} # {}
    BY <1>0, <1>2, <1>3, <1>4
  <2> QED BY <2>1, LeastNatural
<1>6. PICK S3 : S3 = {e \in S2 : SourceRank(e.source) = r}
  OBVIOUS
<1>7. PICK y \in {e.ref : e \in S3} : \A x \in {e.ref : e \in S3} : y <= x
  <2>1. {e.ref : e \in S3} \subseteq Nat /\ {e.ref : e \in S3} # {}
    BY <1>0, <1>2, <1>4, <1>5, <1>6
  <2> QED BY <2>1, LeastNatural
<1>8. PICK e \in S3 : e.ref = y
  BY <1>7
<1>9. /\ e \in S /\ e.importance = i /\ e.priority = p /\ SourceRank(e.source) = r
      /\ e \in S1 /\ e \in S2
  BY <1>2, <1>4, <1>6, <1>8
<1>10. ASSUME NEW f \in S PROVE ~Before(f, e)
  <2>1. i <= f.importance /\ f.importance \in Nat /\ i \in Nat
    BY <1>0, <1>1
  <2>2. f.importance = i => p <= f.priority /\ f.priority \in Nat /\ p \in Nat
    BY <1>0, <1>2, <1>3, <1>9
  <2>3. f.importance = i /\ f.priority = p =>
           r <= SourceRank(f.source) /\ SourceRank(f.source) \in Nat /\ r \in Nat
    BY <1>0, <1>2, <1>4, <1>5, <1>9
  <2>4. f.importance = i /\ f.priority = p /\ SourceRank(f.source) = r =>
           y <= f.ref /\ f.ref \in Nat /\ y \in Nat
    BY <1>0, <1>2, <1>4, <1>6, <1>7, <1>8, <1>9
  <2> QED BY <1>8, <1>9, <2>1, <2>2, <2>3, <2>4, BeforeDef
<1>11. PICK x : x = First(S)
  OBVIOUS
<1>12. x \in S /\ \A f \in S \ {x} : ~Before(f, x)
  BY <1>9, <1>10, <1>11 DEF First
<1>13. ASSUME NEW f \in S PROVE x.importance <= f.importance
  <2>1. x.importance \in Nat /\ f.importance \in Nat
    BY <1>0, <1>12
  <2>2. f # x => ~(f.importance < x.importance)
    BY <1>12, BeforeDef
  <2> QED BY <2>1, <2>2
<1> QED BY <1>11, <1>12, <1>13

\* The least of a set of naturals.
LEMMA MinNatural ==
    ASSUME NEW T, T \subseteq Nat, T # {}
    PROVE  Min(T) \in T /\ \A x \in T : Min(T) <= x
BY LeastNatural DEF Min

\* One candidate a path, with the strictest demand of any.
LEMMA Merged ==
    ASSUME NEW S, S \subseteq FileEntries
    PROVE  /\ MergeCandidates(S) \subseteq FileEntries
           /\ \A d, e \in MergeCandidates(S) : d.ref = e.ref => d = e
           /\ \A c \in S : \E e \in MergeCandidates(S) :
                 /\ e.ref = c.ref /\ e.importance <= c.importance
                 /\ c.complete => e.complete
           /\ IsFiniteSet(MergeCandidates(S))
<1> DEFINE Same(p) == {c \in S : c.ref = p}
           Refs == {c.ref : c \in S}
           One(p) == [First(Same(p)) EXCEPT
                        !.importance = Min({c.importance : c \in Same(p)}),
                        !.priority = Min({c.priority : c \in Same(p)}),
                        !.roles = UNION {c.roles : c \in Same(p)},
                        !.complete = \E c \in Same(p) : c.complete]
<1>1. MergeCandidates(S) = {One(p) : p \in Refs}
  BY DEF MergeCandidates
<1>2. ASSUME NEW p \in Refs
      PROVE  /\ One(p) \in FileEntries /\ One(p).ref = p
             /\ \A c \in Same(p) : One(p).importance <= c.importance /\ (c.complete => One(p).complete)
  <2>1. Same(p) # {} /\ Same(p) \subseteq FileEntries /\ Same(p) \subseteq Entries
    BY DEF Entries
  <2>2. PICK f : f = First(Same(p))
    OBVIOUS
  <2>3. f \in Same(p)
    <3> HIDE DEF Same
    <3> QED BY <2>1, <2>2, FirstEntry
  <2>4. f \in FileEntries /\ f.ref = p
    BY <2>1, <2>3
  <2>5. PICK i : i = Min({c.importance : c \in Same(p)})
    OBVIOUS
  <2>6. i \in 0 .. 2 /\ \A c \in Same(p) : i <= c.importance
    <3>1. /\ {c.importance : c \in Same(p)} \subseteq 0 .. 2
          /\ {c.importance : c \in Same(p)} # {}
      <4> HIDE DEF Same
      <4> QED BY <2>1 DEF FileEntries
    <3>2. {c.importance : c \in Same(p)} \subseteq Nat
      BY <3>1
    <3> HIDE DEF Same
    <3>3. i \in {c.importance : c \in Same(p)} /\ \A x \in {c.importance : c \in Same(p)} : i <= x
      BY <2>5, <3>1, <3>2, MinNatural
    <3> QED BY <3>1, <3>3
  <2>7. PICK q : q = Min({c.priority : c \in Same(p)})
    OBVIOUS
  <2>8. q \in 0 .. 1000
    <3>1. Same(p) # {} /\ \A c \in Same(p) : c.priority \in 0 .. 1000
      <4> HIDE DEF Same
      <4> QED BY <2>1 DEF FileEntries
    <3> HIDE DEF Same
    <3>2. \A c \in Same(p) : c.priority \in Nat
      <4>1. PICK bounds : bounds = 0 .. 1000
        OBVIOUS
      <4>2. bounds \subseteq Nat
        BY ONLY <4>1
      <4>3. \A c \in Same(p) : c.priority \in bounds
        BY <3>1, <4>1
      <4> QED BY ONLY <4>2, <4>3
    <3>3. Same(p) # {}
      BY <3>1
    <3>4. q \in {c.priority : c \in Same(p)}
      <4>1. {c.priority : c \in Same(p)} \subseteq Nat /\ {c.priority : c \in Same(p)} # {}
        BY <3>2, <3>3
      <4> QED BY ONLY <2>7, <4>1, MinNatural
    <3>5. PICK c \in Same(p) : q = c.priority
      BY <3>4
    <3> QED BY ONLY <3>1, <3>5
  <2>9. PICK rs : rs = UNION {c.roles : c \in Same(p)}
    OBVIOUS
  <2>10. rs \in SUBSET Roles
    <3> HIDE DEF Same
    <3>1. \A c \in Same(p) : c.roles \in SUBSET Roles
      BY <2>1 DEF FileEntries
    <3> QED BY <2>9, <3>1
  <2>11. PICK b : b = (\E c \in Same(p) : c.complete)
    OBVIOUS
  <2>12. b \in BOOLEAN /\ \A c \in Same(p) : c.complete => b
    BY <2>11
  <2>13. PICK o : o = [f EXCEPT !.importance = i, !.priority = q, !.roles = rs, !.complete = b]
    OBVIOUS
  <2>14. One(p) = o
    BY <2>2, <2>5, <2>7, <2>9, <2>11, <2>13
  <2>15. o \in FileEntries /\ o.ref = p /\ o.importance = i /\ o.complete = b
    <3>1. o = [kind |-> f.kind, ref |-> f.ref, path |-> f.path, source |-> f.source, importance |-> i,
               priority |-> q, class |-> f.class, complete |-> b, roles |-> rs]
      BY ONLY <2>4, <2>13, ZenonT(40) DEF FileEntries
    <3>2. /\ f.kind \in {"FILE"} /\ f.ref \in Paths /\ f.path \in Paths /\ f.source \in SourceValues
          /\ f.class \in Classes
      BY <2>4 DEF FileEntries
    <3>3. o \in FileEntries
      BY <2>6, <2>8, <2>10, <2>12, <3>1, <3>2 DEF FileEntries
    <3> QED BY <2>4, <3>1, <3>3
  <2> HIDE DEF One
  <2> QED BY <2>6, <2>12, <2>14, <2>15
<1>3. IsFiniteSet(MergeCandidates(S))
  <2>1. Refs \subseteq Paths
    BY DEF FileEntries
  <2>2. IsFiniteSet(Refs)
    BY <2>1, PathsAssumption, FS_Subset
  <2>3. PICK f : f = [p \in Refs |-> One(p)]
    OBVIOUS
  <2>4. f \in Surjection(Refs, {One(p) : p \in Refs})
    <3> HIDE DEF One, Refs
    <3> QED BY <2>3 DEF Surjection
  <2> HIDE DEF One, Refs
  <2> QED BY <1>1, <2>2, <2>4, FS_Surjection
<1>4. ASSUME NEW c \in S
      PROVE  \E e \in MergeCandidates(S) :
                /\ e.ref = c.ref /\ e.importance <= c.importance
                /\ c.complete => e.complete
  <2>1. c.ref \in Refs /\ c \in Same(c.ref)
    OBVIOUS
  <2> HIDE DEF One, Same, Refs
  <2> QED BY <1>1, <1>2, <2>1
<1> HIDE DEF One, Same, Refs
<1>5. MergeCandidates(S) \subseteq FileEntries
  BY <1>1, <1>2
<1>6. \A d, e \in MergeCandidates(S) : d.ref = e.ref => d = e
  BY <1>1, <1>2
<1> QED BY <1>3, <1>4, <1>5, <1>6

-----------------------------------------------------------------------------
(* What discovery and the request give.                                     *)

\* _role_priority stays within the bounds of ContextCandidate.priority.
LEMMA Priorities ==
    ASSUME NEW base, base \in 0 .. 1000, NEW role, NEW source
    PROVE  RolePriority(base, role, source) \in 0 .. 1000
<1>1. Max({0, base - 10}) \in 0 .. 1000
  <2>1. CASE base <= 10
    <3>1. 0 \in {0, base - 10} /\ \A x \in {0, base - 10} : 0 >= x
      BY <2>1
    <3>2. Max({0, base - 10}) \in {0, base - 10} /\ \A x \in {0, base - 10} : Max({0, base - 10}) >= x
      BY <3>1 DEF Max
    <3> QED BY <3>2
  <2>2. CASE base > 10
    <3>1. base - 10 \in {0, base - 10} /\ \A x \in {0, base - 10} : base - 10 >= x
      BY <2>2
    <3>2. Max({0, base - 10}) \in {0, base - 10}
      BY <3>1 DEF Max
    <3> QED BY <2>2, <3>2
  <2> QED BY <2>1, <2>2
<1> QED BY <1>1 DEF RolePriority

\* _file_candidate makes a ContextCandidate.
LEMMA FileTyped ==
    ASSUME NEW p \in Paths, NEW source \in SourceValues, NEW importance, importance \in 0 .. 2,
           NEW priority, priority \in 0 .. 1000, NEW class \in Classes, NEW complete \in BOOLEAN
    PROVE  /\ FileCandidate(p, source, importance, priority, class, complete) \in FileEntries
           /\ FileCandidate(p, source, importance, priority, class, complete).ref = p
BY DEF FileCandidate, FileEntries

\* The sources that discovery names are sources.
LEMMA SourceNames ==
    {"ARTIFACT", "CHANGED_PATH", "DEPENDENCY", "DIFF", "GOVERNING", "PRIOR_ATTEMPT",
     "REPAIR_DECISION", "REVIEW", "TASK_PATH", "TEST", "VALIDATION"} \subseteq SourceValues
<1>1. DOMAIN Sources = 1 .. 11
  BY DEF Sources
<1>2. /\ Sources[1] = "ARTIFACT" /\ Sources[2] = "CHANGED_PATH" /\ Sources[3] = "DEPENDENCY"
      /\ Sources[4] = "DIFF" /\ Sources[5] = "GOVERNING" /\ Sources[6] = "PRIOR_ATTEMPT"
      /\ Sources[7] = "REPAIR_DECISION" /\ Sources[8] = "REVIEW" /\ Sources[9] = "TASK_PATH"
      /\ Sources[10] = "TEST" /\ Sources[11] = "VALIDATION"
  BY DEF Sources
<1>3. {1, 2, 3, 4, 5, 6, 7, 8, 9, 10, 11} \subseteq 1 .. 11
  OBVIOUS
<1> QED BY <1>1, <1>2, <1>3 DEF SourceValues

\* _path_candidates gives candidates.
LEMMA PathsTyped ==
    ASSUME NEW evidence \in EvidenceType, NEW role
    PROVE  PathCandidates(evidence, role) \subseteq FileEntries
<1> DEFINE file(p, source, importance, base) ==
               FileCandidate(p, source, importance, RolePriority(base, role, source),
                             "REPOSITORY", importance = Required)
<1>1. ASSUME NEW p \in Paths, NEW source \in SourceValues, NEW importance, importance \in 0 .. 2, NEW base, base \in 0 .. 1000
      PROVE  file(p, source, importance, base) \in FileEntries
  <2>1. RolePriority(base, role, source) \in 0 .. 1000
    BY <1>1, Priorities
  <2>2. "REPOSITORY" \in Classes
    BY DEF Classes
  <2>3. (importance = Required) \in BOOLEAN
    BY Zenon
  <2> QED BY <1>1, <2>1, <2>2, <2>3, FileTyped, ZenonT(40)
<1> HIDE DEF file
<1>2. /\ Required \in 0 .. 2 /\ Preferred \in 0 .. 2
      /\ {30, 35, 50, 60, 70, 75, 110} \subseteq 0 .. 1000
  BY DEF Required, Preferred
<1>3. /\ evidence.explicit \subseteq Paths /\ evidence.changed \subseteq Paths /\ evidence.diff \subseteq Paths
      /\ \A v \in evidence.validation \cup evidence.review \cup evidence.attempts : v.path \in Paths \cup {NoPath}
  BY DEF EvidenceType
<1> DEFINE open == {f \in evidence.review : f.unresolved /\ f.path # NoPath}
<1>4. {file(p, "TASK_PATH", Required, 50) : p \in evidence.explicit} \subseteq FileEntries
  BY <1>1, <1>2, <1>3, SourceNames
<1>5. {file(p, "CHANGED_PATH", Preferred, 60) : p \in evidence.changed} \subseteq FileEntries
  BY <1>1, <1>2, <1>3, SourceNames
<1>6. {file(p, "DIFF", Preferred, 70) : p \in evidence.diff} \subseteq FileEntries
  BY <1>1, <1>2, <1>3, SourceNames
<1>7. {file(v.path, "VALIDATION", Required, 30) : v \in {v \in evidence.validation : v.path # NoPath}}
         \subseteq FileEntries
  BY <1>1, <1>2, <1>3, SourceNames
<1>8. {IF f.severe THEN file(f.path, "REVIEW", Required, 35)
                   ELSE file(f.path, "REVIEW", Preferred, 75) : f \in open} \subseteq FileEntries
  <2>1. \A f \in open : f.path \in Paths
    BY <1>3
  <2> HIDE DEF open
  <2> QED BY <1>1, <1>2, <2>1, SourceNames
<1>9. {file(a.path, "PRIOR_ATTEMPT", Preferred, 110) :
          a \in {a \in evidence.attempts : a.unresolved /\ a.path # NoPath}} \subseteq FileEntries
  BY <1>1, <1>2, <1>3, SourceNames
<1>10. PathCandidates(evidence, role) = UNION {
          {file(p, "TASK_PATH", Required, 50) : p \in evidence.explicit},
          {file(p, "CHANGED_PATH", Preferred, 60) : p \in evidence.changed},
          {file(p, "DIFF", Preferred, 70) : p \in evidence.diff},
          {file(v.path, "VALIDATION", Required, 30) : v \in {v \in evidence.validation : v.path # NoPath}},
          {IF f.severe THEN file(f.path, "REVIEW", Required, 35)
                       ELSE file(f.path, "REVIEW", Preferred, 75) : f \in open},
          {file(a.path, "PRIOR_ATTEMPT", Preferred, 110) :
              a \in {a \in evidence.attempts : a.unresolved /\ a.path # NoPath}}}
  BY Zenon DEF PathCandidates, file
<1> HIDE DEF open
<1> QED BY <1>4, <1>5, <1>6, <1>7, <1>8, <1>9, <1>10, Zenon

\* _governing_candidates gives candidates.
LEMMA GoverningTyped ==
    ASSUME NEW evidence \in EvidenceType, NEW role
    PROVE  GoverningCandidates(evidence, role) \subseteq FileEntries
<1>1. \A g \in evidence.governing : g.path \in Paths /\ g.base \in 0 .. 1000
  BY DEF EvidenceType
<1>2. ASSUME NEW g \in evidence.governing, NEW importance, importance \in 0 .. 2
      PROVE  FileCandidate(g.path, "GOVERNING", importance, RolePriority(g.base, role, "GOVERNING"),
                           "GOVERNANCE", importance = Required) \in FileEntries
  <2>1. RolePriority(g.base, role, "GOVERNING") \in 0 .. 1000
    BY <1>1, Priorities
  <2>2. "GOVERNANCE" \in Classes /\ "GOVERNING" \in SourceValues
    BY SourceNames DEF Classes
  <2>3. (importance = Required) \in BOOLEAN
    BY Zenon
  <2>4. g.path \in Paths
    BY <1>1
  <2> QED BY <1>2, <2>1, <2>2, <2>3, <2>4, FileTyped, ZenonT(40)
<1>3. Required \in 0 .. 2 /\ Preferred \in 0 .. 2
  BY DEF Required, Preferred
<1>4. \A g \in evidence.governing : (IF g.base <= 10 THEN Required ELSE Preferred) \in 0 .. 2
  BY <1>3
<1> QED BY <1>2, <1>4 DEF GoverningCandidates

\* Validation, review and attempt evidence is inline evidence.
LEMMA InlineTyped ==
    ASSUME NEW evidence \in EvidenceType, NEW role
    PROVE  InlineEvidence(evidence, role) \subseteq InlineEntries
<1> DEFINE inline(e, path, source, importance, base, class) ==
               [kind |-> "INLINE", ref |-> e.id, path |-> path, source |-> source,
                importance |-> importance, priority |-> RolePriority(base, role, source),
                class |-> class, complete |-> importance = Required, text |-> e.text]
<1>1. ASSUME NEW e, e.id \in Nat, e.text \in Texts, NEW path \in Paths \cup {NoPath},
             NEW source \in SourceValues, NEW importance, importance \in 0 .. 2, NEW base, base \in 0 .. 1000,
             NEW class \in Classes
      PROVE  inline(e, path, source, importance, base, class) \in InlineEntries
  <2>1. RolePriority(base, role, source) \in 0 .. 1000
    BY <1>1, Priorities
  <2>2. (importance = Required) \in BOOLEAN
    BY Zenon
  <2> QED BY <1>1, <2>1, <2>2 DEF InlineEntries
<1> HIDE DEF inline
<1>2. /\ Required \in 0 .. 2 /\ Preferred \in 0 .. 2
      /\ {25, 30, 80, 110, 40} \subseteq 0 .. 1000
      /\ {"DIAGNOSTIC", "PROVIDER", "LOCAL"} \subseteq Classes
  BY DEF Required, Preferred, Classes
<1>3. /\ \A v \in evidence.validation \cup evidence.review \cup evidence.attempts :
            v.path \in Paths \cup {NoPath} /\ v.id \in Nat /\ v.text \in Texts
      /\ \A d \in evidence.decisions : d.id \in Nat /\ d.text \in Texts
  BY DEF EvidenceType
<1>4. {inline(v, NoPath, "VALIDATION", IF v.required THEN Required ELSE Preferred, 25, "DIAGNOSTIC") :
          v \in {v \in evidence.validation : v.failed}} \subseteq InlineEntries
  <2>1. ASSUME NEW v \in evidence.validation
        PROVE  inline(v, NoPath, "VALIDATION", IF v.required THEN Required ELSE Preferred, 25, "DIAGNOSTIC")
                  \in InlineEntries
    <3>1. /\ (IF v.required THEN Required ELSE Preferred) \in 0 .. 2 /\ 25 \in 0 .. 1000
          /\ v.id \in Nat /\ v.text \in Texts /\ NoPath \in Paths \cup {NoPath}
          /\ "VALIDATION" \in SourceValues /\ "DIAGNOSTIC" \in Classes
      BY <1>2, <1>3, SourceNames
    <3> QED BY <1>1, <3>1
  <2> QED BY <2>1
<1>5. {inline(f, f.path, "REVIEW", IF f.severe THEN Required ELSE Preferred,
              IF f.severe THEN 30 ELSE 80, "PROVIDER") : f \in {f \in evidence.review : f.unresolved}}
         \subseteq InlineEntries
  <2>1. \A f \in evidence.review : /\ (IF f.severe THEN Required ELSE Preferred) \in 0 .. 2
                                   /\ (IF f.severe THEN 30 ELSE 80) \in 0 .. 1000
    BY <1>2
  <2> QED BY <1>1, <1>2, <1>3, <2>1, SourceNames
<1>6. {inline(a, a.path, "PRIOR_ATTEMPT", Preferred, 110, "LOCAL") :
          a \in {a \in evidence.attempts : a.unresolved}} \subseteq InlineEntries
  <2>1. ASSUME NEW a \in evidence.attempts
        PROVE  inline(a, a.path, "PRIOR_ATTEMPT", Preferred, 110, "LOCAL") \in InlineEntries
    <3>1. /\ Preferred \in 0 .. 2 /\ 110 \in 0 .. 1000
          /\ a.id \in Nat /\ a.text \in Texts /\ a.path \in Paths \cup {NoPath}
          /\ "PRIOR_ATTEMPT" \in SourceValues /\ "LOCAL" \in Classes
      BY <1>2, <1>3, SourceNames
    <3> QED BY <1>1, <3>1
  <2> QED BY <2>1
<1>7. {inline(d, NoPath, "REPAIR_DECISION", Required, 40, "LOCAL") :
          d \in {d \in evidence.decisions : d.unresolved}} \subseteq InlineEntries
  <2>1. ASSUME NEW d \in evidence.decisions
        PROVE  inline(d, NoPath, "REPAIR_DECISION", Required, 40, "LOCAL") \in InlineEntries
    <3>1. /\ Required \in 0 .. 2 /\ 40 \in 0 .. 1000
          /\ d.id \in Nat /\ d.text \in Texts /\ NoPath \in Paths \cup {NoPath}
          /\ "REPAIR_DECISION" \in SourceValues /\ "LOCAL" \in Classes
      BY <1>2, <1>3, SourceNames
    <3> QED BY <1>1, <3>1
  <2> QED BY <2>1
<1>8. InlineEvidence(evidence, role) = UNION {
         {inline(v, NoPath, "VALIDATION", IF v.required THEN Required ELSE Preferred, 25, "DIAGNOSTIC") :
             v \in {v \in evidence.validation : v.failed}},
         {inline(f, f.path, "REVIEW", IF f.severe THEN Required ELSE Preferred,
                 IF f.severe THEN 30 ELSE 80, "PROVIDER") : f \in {f \in evidence.review : f.unresolved}},
         {inline(a, a.path, "PRIOR_ATTEMPT", Preferred, 110, "LOCAL") :
             a \in {a \in evidence.attempts : a.unresolved}},
         {inline(d, NoPath, "REPAIR_DECISION", Required, 40, "LOCAL") :
             d \in {d \in evidence.decisions : d.unresolved}}}
  BY Zenon DEF InlineEvidence, inline
<1> QED BY <1>4, <1>5, <1>6, <1>7, <1>8, Zenon

\* What the evidence of a request names.
LEMMA RequestTyped ==
    ASSUME NEW r \in Requests
    PROVE  /\ r.evidence \in EvidenceType /\ r.control \in Nat /\ r.writable \subseteq Paths
           /\ r.disk \in [Paths -> Texts \cup NoText]
           /\ Filed(r) \subseteq FileEntries
           /\ Unfiled(r) \subseteq InlineEntries \cup ArtifactEntries
           /\ \A d, e \in Unfiled(r) : d.ref \notin Paths /\ (d.ref = e.ref => d = e)
<1>1. r \in RequestType
  BY RequestsAssumption
<1>2. /\ r.evidence \in EvidenceType /\ r.control \in Nat /\ r.writable \subseteq Paths
      /\ r.disk \in [Paths -> Texts \cup NoText] /\ r.candidates \subseteq FileEntries
  BY <1>1 DEF RequestType
<1>3. r.evidence.inline \subseteq InlineEntries /\ r.evidence.artifacts \subseteq ArtifactEntries
  BY <1>2 DEF EvidenceType
<1>4. Filed(r) \subseteq FileEntries
  BY <1>2, PathsTyped, GoverningTyped DEF Filed
<1>5. Unfiled(r) \subseteq InlineEntries \cup ArtifactEntries
  BY <1>2, <1>3, InlineTyped DEF Unfiled
<1> QED BY <1>2, <1>4, <1>5, RequestsAssumption

-----------------------------------------------------------------------------
(* Items.                                                                   *)

\* What is known of the entry that the loop is at.
LEMMA EntryTyped ==
    ASSUME NEW e \in Entries
    PROVE  /\ e.kind \in {"FILE", "INLINE", "ARTIFACT"} /\ e.ref \in Nat
           /\ e.path \in Paths \cup {NoPath} /\ e.source \in SourceValues
           /\ e.importance \in 0 .. 2 /\ e.priority \in 0 .. 1000 /\ e.class \in Classes
           /\ e.kind # "INLINE" => e.path \in Paths
           /\ e.kind = "INLINE" => e.text \in Texts
           /\ e.kind = "FILE" => e \in FileEntries
<1>1. CASE e \in FileEntries
  BY <1>1, PathsAssumption, ZenonT(40) DEF FileEntries
<1>2. CASE e \in InlineEntries
  BY <1>2 DEF InlineEntries
<1>3. CASE e \in ArtifactEntries
  BY <1>3 DEF ArtifactEntries
<1> QED BY <1>1, <1>2, <1>3 DEF Entries

\* _truncate_utf8 keeps within the limit of an item.
LEMMA RetainedTyped ==
    ASSUME NEW t \in Texts
    PROVE  RetainedBytes(t) \in 0 .. Limits.item
<1>1. Text[t].safe \in Nat /\ Limits.item \in Nat
  BY SelectionAssumption
<1>2. PICK a : a = Text[t].safe
  OBVIOUS
<1>3. PICK b : b = Limits.item
  OBVIOUS
<1>4. {a, b} \subseteq Nat /\ {a, b} # {}
  BY <1>1, <1>2, <1>3
<1>5. Min({a, b}) \in {a, b} /\ \A x \in {a, b} : Min({a, b}) <= x
  BY <1>4, MinNatural
<1>6. Min({a, b}) \in 0 .. b
  BY <1>1, <1>2, <1>3, <1>5
<1> QED BY <1>2, <1>3, <1>6 DEF RetainedBytes

\* A path that _scope_reason lets through is in the scope, by the meaning of the patterns.
LEMMA ScopeNone ==
    ASSUME NEW p \in Paths, ScopeReason(p) = "NONE"
    PROVE  p \in InScope
<1>1. Parts[p] \in Seq(STRING)
  BY PathsAssumption
<1>2. \A pattern \in Allowed \cup Forbidden : ScopeMatch(Parts[p], pattern) <=> Covers(pattern, Parts[p])
  BY <1>1, PathsAssumption, ScopeMatchMeans
<1>3. ~\E pattern \in Forbidden : ScopeMatch(Parts[p], pattern)
  BY DEF ScopeReason
<1>4. \E pattern \in Allowed : ScopeMatch(Parts[p], pattern)
  BY <1>3 DEF ScopeReason
<1> QED BY <1>2, <1>3, <1>4 DEF InScope

\* An entry that passes every check becomes a sound item that stands for it.
LEMMA ItemSound ==
    ASSUME NEW e \in Entries, NEW t \in Texts, NEW w \in {None, "evaded"},
           PreReason(e) = "NONE", ContentReason(e, t, w) = "NONE"
    PROVE  /\ ContentItem(e, t, w) \in Item /\ Sane(ContentItem(e, t, w))
           /\ ContentItem(e, t, w).ref = e.ref /\ ContentItem(e, t, w).importance = e.importance
           /\ ContentItem(e, t, w).state # "REFERENCED"
           /\ e.complete => ContentItem(e, t, w).state = "COMPLETE"
<1>1. PICK c : c = (IF e.kind = "ARTIFACT" /\ e.provider THEN "PROVIDER" ELSE e.class)
  OBVIOUS
<1>2. PICK s : s = (IF Text[t].safe > Limits.item THEN "TRUNCATED" ELSE "COMPLETE")
  OBVIOUS
<1>4. PICK b : b = RetainedBytes(t)
  OBVIOUS
<1>5. PICK g : g = Text[t].digest
  OBVIOUS
<1>6. PICK i : i = [ref |-> e.ref, path |-> e.path, kind |-> e.kind, source |-> e.source,
                    importance |-> e.importance, priority |-> e.priority, class |-> c,
                    state |-> s, retained |-> b, digest |-> g, of |-> None, mixed |-> w]
  OBVIOUS
<1>7. ContentItem(e, t, w) = i
  BY <1>1, <1>2, <1>4, <1>5, <1>6, Zenon DEF ContentItem
<1>8. w \in {None, "same", "changed", "evaded"}
  OBVIOUS
<1>9. c \in Classes
  <2>1. "PROVIDER" \in Classes /\ e.class \in Classes
    BY EntryTyped DEF Classes
  <2> QED BY <1>1, <2>1
<1>10. s \in {"COMPLETE", "TRUNCATED"} /\ (s = "COMPLETE" <=> Text[t].safe <= Limits.item)
  BY <1>2, SelectionAssumption
<1>11. g \in STRING
  BY <1>5, SelectionAssumption
<1>12. b \in 0 .. Limits.item
  BY <1>4, RetainedTyped
<1>13. /\ e.kind \in {"FILE", "INLINE", "ARTIFACT"} /\ e.ref \in Nat
       /\ e.path \in Paths \cup {NoPath} /\ e.source \in SourceValues
       /\ e.importance \in 0 .. 2 /\ e.priority \in 0 .. 1000
  BY EntryTyped
<1>14. i \in Item
  BY ONLY <1>6, <1>8, <1>9, <1>10, <1>11, <1>12, <1>13 DEF Item
<1>15. /\ i.ref = e.ref /\ i.importance = e.importance /\ i.state = s /\ i.mixed = w /\ i.of = None
       /\ i.kind = e.kind /\ i.path = e.path /\ i.digest = g
  BY ONLY <1>6
<1>16. Scoped(i)
  <2>1. CASE e.kind = "FILE"
    <3>1. e.path \in Paths
      BY <2>1, EntryTyped
    <3>2. ScopeReason(e.path) = "NONE"
      BY <2>1 DEF PreReason
    <3> QED BY <1>15, <3>1, <3>2, ScopeNone DEF Scoped
  <2>2. CASE e.kind = "INLINE"
    <3>1. e.path = NoPath \/ ScopeReason(e.path) = "NONE"
      BY <2>2 DEF PreReason
    <3> QED BY <1>13, <1>15, <3>1, ScopeNone DEF Scoped
  <2> QED BY <1>13, <1>15, <2>1, <2>2 DEF Scoped
<1>17. Sized(i)
  BY <1>5, <1>10, <1>15 DEF Sized
<1>18. e.complete => s = "COMPLETE"
  <2>1. ~(Text[t].safe > Limits.item /\ e.complete)
    BY DEF ContentReason
  <2> QED BY <1>2, <2>1
<1> QED BY <1>7, <1>8, <1>10, <1>14, <1>15, <1>16, <1>17, <1>18 DEF Sane

\* One more item.
LEMMA RetainedMore ==
    ASSUME NEW s \in Seq(Item), NEW x \in Item
    PROVE  /\ Retained(s) \in Nat /\ x.retained \in Nat
           /\ Retained(Append(s, x)) = Retained(s) + x.retained
<1>1. \A i \in Item : i.retained \in Nat
  BY SelectionAssumption DEF Item
<1>2. Len(s) \in Nat /\ DOMAIN s = 1 .. Len(s) /\ \A n \in 1 .. Len(s) : s[n].retained \in Nat
  BY <1>1
<1>3. PICK n : n = Len(s) + 1
  OBVIOUS
<1>4. n \in Nat \ {0} /\ n - 1 = Len(s)
  BY <1>2, <1>3
<1>5. PICK a : a = Append(s, x)
  OBVIOUS
<1>6. DOMAIN a = 1 .. n /\ a[n] = x /\ \A m \in 1 .. Len(s) : a[m] = s[m]
  BY <1>3, <1>5
<1>7. PICK f : f = [m \in DOMAIN a |-> a[m].retained]
  OBVIOUS
<1>8. PICK g : g = [m \in DOMAIN s |-> s[m].retained]
  OBVIOUS
<1>9. \A m \in 1 .. n : f[m] \in Nat
  BY <1>1, <1>2, <1>4, <1>6, <1>7
<1>10. f[n] = x.retained
  BY <1>4, <1>6, <1>7
<1>11. SumOver(f, 1 .. n) = SumOver(f, 1 .. n - 1) + f[n] /\ SumOver(f, 1 .. n - 1) \in Nat
  BY <1>4, <1>9, SumOneMore
<1>12. SumOver(f, 1 .. Len(s)) = SumOver(g, 1 .. Len(s))
  <2>1. IsFiniteSet(1 .. Len(s))
    BY <1>2, FS_Interval
  <2>2. \A m \in 1 .. Len(s) : f[m] = g[m]
    BY <1>2, <1>4, <1>6, <1>7, <1>8
  <2> QED BY <2>1, <2>2, SumSame
<1>13. Retained(a) = SumOver(f, 1 .. n)
  BY <1>6, <1>7 DEF Retained
<1>14. Retained(s) = SumOver(g, 1 .. Len(s))
  BY <1>2, <1>8 DEF Retained
<1> QED BY <1>1, <1>4, <1>5, <1>10, <1>11, <1>12, <1>13, <1>14

\* An empty package retains nothing.
LEMMA RetainedNone == Retained(<<>>) = 0
<1>1. PICK f : f = [n \in DOMAIN (<<>>) |-> (<<>>)[n].retained]
  OBVIOUS
<1>2. DOMAIN (<<>>) = {}
  OBVIOUS
<1> QED BY <1>1, <1>2, SumEmpty DEF Retained

-----------------------------------------------------------------------------
(* Steps that begin or end a selection.                                     *)

\* What the invariant says of the selection and its request
SelInv == SelectionTypes /\ ReadInv /\ EntriesInv /\ PreparedInv /\ PackedInv /\ BudgetInv

\* What it says of the rest
OtherTypes ==
    /\ disk \in [Paths -> Texts \cup NoText]
    /\ request \in Requests
    /\ cache \in {None} \cup Seq(Item)
    /\ run \in {"OPEN", "BLOCKED", "FAILED", "UNRESTORED"}
    /\ crashes \in 0 .. MaxCrashes

\* The invariant in the parts that steps change together.
LEMMA InvParts == Inv <=> OtherTypes /\ SelInv /\ CacheInv
BY DEF Inv, OtherTypes, SelInv, Types

\* A selection that has done nothing yet.
Fresh ==
    /\ DOMAIN sel = DOMAIN Idle /\ sel.pc \in {"idle", "start"}
    /\ sel.queue = <<>> /\ sel.dependencies = {} /\ sel.entries = {} /\ sel.todo = {}
    /\ sel.read = NoRead /\ sel.prepared = <<>> /\ sel.artifacts = 0
    /\ sel.keys = {} /\ sel.items = <<>>

\* There is nothing to show of a selection that has done nothing.
LEMMA FreshInv ==
    ASSUME Fresh
    PROVE  SelInv
<1>1. SelectionTypes
  <2>1. Queue(sel.queue)
    <3>1. PICK S : S = {}
      OBVIOUS
    <3>2. <<>> \in Seq(S) /\ \A g \in S : DOMAIN g = {"paths", "depth"} /\ g.depth \in 0 .. Limits.depth
      BY <3>1
    <3>3. Queue(<<>>)
      BY <3>2, Zenon DEF Queue
    <3> QED BY <3>3 DEF Fresh
  <2>2. NoRead.tries \in 0 .. Limits.retries
    BY SelectionAssumption DEF NoRead
  <2> QED BY <2>1, <2>2 DEF Fresh, SelectionTypes
<1>2. ReadInv
  BY DEF Fresh, ReadInv, NoRead
<1>3. EntriesInv
  BY DEF Fresh, EntriesInv
<1>4. PreparedInv
  <2>1. DOMAIN sel.prepared = {}
    BY DEF Fresh
  <2>2. sel.pc # "prepare"
    BY DEF Fresh
  <2> QED BY <2>1, <2>2 DEF PreparedInv
<1>5. PackedInv
  <2>1. DOMAIN sel.prepared = {} /\ DOMAIN sel.items = {}
    BY DEF Fresh
  <2>2. sel.pc # "pack" /\ sel.items = <<>> /\ sel.keys = {} /\ sel.prepared = <<>>
    BY DEF Fresh
  <2> QED BY <2>1, <2>2 DEF PackedInv
<1>6. BudgetInv
  BY RetainedNone, SelectionAssumption DEF Fresh, BudgetInv
<1> QED BY <1>1, <1>2, <1>3, <1>4, <1>5, <1>6 DEF SelInv

\* No selection is a fresh one.
LEMMA IdleFresh == sel = Idle => Fresh
BY DEF Fresh, Idle

\* The invariant holds at first.
LEMMA InitInv == Init => Inv
<1> SUFFICES ASSUME Init PROVE Inv
  OBVIOUS
<1>1. OtherTypes
  <2>1. request.disk \in [Paths -> Texts \cup NoText]
    BY RequestTyped DEF Init
  <2>2. 0 \in 0 .. MaxCrashes
    BY SelectionAssumption
  <2> QED BY <2>1, <2>2 DEF Init, OtherTypes
<1>2. SelInv
  BY IdleFresh, FreshInv DEF Init
<1>3. CacheInv
  BY DEF Init, CacheInv, PackageIsRecorded, RequiredDelivered
<1> QED BY <1>1, <1>2, <1>3, InvParts

\* The kept package does not depend on the selection.
LEMMA CacheSame ==
    ASSUME CacheInv, UNCHANGED <<request, cache, durable>>
    PROVE  CacheInv'
BY DEF CacheInv, PackageIsRecorded, RequiredDelivered, Demands

\* The types of the rest when a step leaves it alone.
LEMMA OtherSame ==
    ASSUME OtherTypes, UNCHANGED <<disk, request, cache, run, crashes>>
    PROVE  OtherTypes'
BY DEF OtherTypes

\* A selection that fails leaves the package and the record alone.
LEMMA FailInv ==
    ASSUME Inv, NEW blocking, Fail(blocking)
    PROVE  Inv'
<1>1. SelInv'
  <2>1. (sel = Idle)'
    BY DEF Fail
  <2>2. Fresh'
    BY <2>1, IdleFresh, PTL
  <2> QED BY <2>2, FreshInv, PTL
<1>2. OtherTypes'
  BY InvParts DEF Fail, OtherTypes
<1>3. CacheInv'
  BY InvParts, CacheSame DEF Fail
<1> QED BY <1>1, <1>2, <1>3, InvParts, PTL

\* A selection begins; a process dies.
LEMMA BeginInv == Inv /\ Begin => Inv'
<1> SUFFICES ASSUME Inv, Begin PROVE Inv'
  OBVIOUS
<1>1. Fresh'
  <2>1. PICK stamp \in StampedAs :
           sel' = [Idle EXCEPT !.pc = "start", !.restoring = durable # None,
                               !.created = IF stamp = "now" THEN crashes ELSE 0]
    BY DEF Begin
  <2> QED BY <2>1 DEF Fresh, Idle
<1>2. SelInv'
  BY <1>1, FreshInv, PTL
<1>3. OtherTypes' /\ CacheInv'
  BY InvParts, OtherSame, CacheSame DEF Begin, Keep
<1> QED BY <1>2, <1>3, InvParts, PTL

LEMMA CrashInv == Inv /\ Crash => Inv'
<1> SUFFICES ASSUME Inv, Crash PROVE Inv'
  OBVIOUS
<1>1. SelInv'
  <2>1. (sel = Idle)'
    BY DEF Crash
  <2> QED BY <2>1, IdleFresh, FreshInv, PTL
<1>2. OtherTypes'
  BY InvParts, SelectionAssumption DEF Crash, OtherTypes
<1>3. CacheInv'
  BY DEF Crash, CacheInv, PackageIsRecorded, RequiredDelivered
<1> QED BY <1>1, <1>2, <1>3, InvParts, PTL

-----------------------------------------------------------------------------
(* Discovery.                                                               *)

\* The queue: its first group loses a path or goes, and a group may be added.
LEMMA QueueRest ==
    ASSUME NEW q, Queue(q), q # <<>>, NEW P
    PROVE  /\ Queue(Tail(q)) /\ Queue([q EXCEPT ![1].paths = P])
           /\ Head(q).depth \in 0 .. Limits.depth
<1>1. PICK S : q \in Seq(S) /\ \A g \in S : DOMAIN g = {"paths", "depth"} /\ g.depth \in 0 .. Limits.depth
  BY DEF Queue
<1>2. Tail(q) \in Seq(S) /\ Head(q) \in S /\ 1 \in DOMAIN q /\ q[1] \in S
  BY <1>1
<1>3. Queue(Tail(q))
  BY <1>1, <1>2, Zenon DEF Queue
<1>4. PICK h : h = [q[1] EXCEPT !.paths = P]
  OBVIOUS
<1>5. DOMAIN h = {"paths", "depth"} /\ h.depth \in 0 .. Limits.depth
  BY <1>1, <1>2, <1>4
<1>6. PICK T : T = S \cup {h}
  OBVIOUS
<1>7. [q EXCEPT ![1].paths = P] = [q EXCEPT ![1] = h]
  BY <1>4
<1>8. [q EXCEPT ![1] = h] \in Seq(T)
  BY <1>1, <1>2, <1>6
<1>9. \A g \in T : DOMAIN g = {"paths", "depth"} /\ g.depth \in 0 .. Limits.depth
  BY <1>1, <1>5, <1>6
<1>10. Queue([q EXCEPT ![1].paths = P])
  BY <1>7, <1>8, <1>9, Zenon DEF Queue
<1> QED BY <1>1, <1>2, <1>3, <1>10

\* The files found in one parent join the queue together, one level deeper.
LEMMA QueueMore ==
    ASSUME NEW q, Queue(q), NEW P, NEW n, n \in 0 .. Limits.depth
    PROVE  Queue(Append(q, [paths |-> P, depth |-> n]))
<1>1. PICK S : q \in Seq(S) /\ \A g \in S : DOMAIN g = {"paths", "depth"} /\ g.depth \in 0 .. Limits.depth
  BY DEF Queue
<1>2. PICK h : h = [paths |-> P, depth |-> n]
  OBVIOUS
<1>3. DOMAIN h = {"paths", "depth"} /\ h.depth \in 0 .. Limits.depth
  BY <1>2
<1>4. PICK T : T = S \cup {h}
  OBVIOUS
<1>5. Append(q, h) \in Seq(T)
  BY <1>1, <1>4
<1>6. \A g \in T : DOMAIN g = {"paths", "depth"} /\ g.depth \in 0 .. Limits.depth
  BY <1>1, <1>3, <1>4
<1> QED BY <1>2, <1>5, <1>6, Zenon DEF Queue

\* While files are discovered only these parts of the invariant say anything.
Expanding ==
    /\ DOMAIN sel = DOMAIN Idle /\ sel.pc = "expand" /\ sel.todo = {}
    /\ Queue(sel.queue) /\ sel.dependencies \subseteq FileEntries
    /\ sel.entries \subseteq FileEntries
    /\ DOMAIN sel.read = DOMAIN NoRead /\ sel.read.stage = "stat" /\ sel.read.tries \in 0 .. Limits.retries
    /\ sel.read.metadata \in {"same", "changed", "evaded"}
    /\ sel.prepared = <<>> /\ sel.artifacts \in Nat
    /\ sel.keys = {} /\ sel.items = <<>>
    /\ \A d \in Filed(request) : d.importance = Required => \E e \in sel.entries : Meets(e, d)
    /\ request.control <= MaxAgentOutput

\* That is all there is to show while files are discovered.
LEMMA ExpandingInv ==
    ASSUME Expanding
    PROVE  SelInv
<1>1. SelectionTypes
  <2>1. sel.entries \subseteq Entries
    BY DEF Expanding, Entries
  <2> QED BY <2>1 DEF Expanding, SelectionTypes
<1>2. ReadInv
  BY DEF Expanding, ReadInv
<1>3. EntriesInv
  BY DEF Expanding, EntriesInv
<1>4. PreparedInv
  <2>1. DOMAIN sel.prepared = {}
    BY DEF Expanding
  <2>2. sel.pc # "prepare"
    BY DEF Expanding
  <2> QED BY <2>1, <2>2 DEF PreparedInv
<1>5. PackedInv
  <2>1. DOMAIN sel.prepared = {} /\ DOMAIN sel.items = {}
    BY DEF Expanding
  <2>2. sel.pc # "pack" /\ sel.items = <<>> /\ sel.keys = {} /\ sel.prepared = <<>>
    BY DEF Expanding
  <2> QED BY <2>1, <2>2 DEF PackedInv
<1>6. BudgetInv
  BY RetainedNone, SelectionAssumption DEF Expanding, BudgetInv
<1> QED BY <1>1, <1>2, <1>3, <1>4, <1>5, <1>6 DEF SelInv

\* And it is what the invariant says then.
LEMMA InvExpanding ==
    ASSUME Inv, sel.pc = "expand"
    PROVE  Expanding
BY DEF Inv, Types, SelectionTypes, ReadInv, EntriesInv, PackedInv, BudgetInv, Expanding

\* What the request demands of files survives a merge.
LEMMA MergedMeets ==
    ASSUME NEW S, S \subseteq FileEntries, NEW d, \E c \in S : Meets(c, d)
    PROVE  \E e \in MergeCandidates(S) : Meets(e, d)
<1>1. PICK c \in S : Meets(c, d)
  OBVIOUS
<1>2. PICK e \in MergeCandidates(S) : /\ e.ref = c.ref /\ e.importance <= c.importance
                                      /\ c.complete => e.complete
  BY Merged
<1>3. e.importance \in 0 .. 2
  BY Merged DEF FileEntries
<1>4. e.importance = Required
  BY <1>1, <1>2, <1>3 DEF Meets, Required
<1> QED BY <1>1, <1>2, <1>4 DEF Meets

\* The checks before discovery, and the candidates of the request.
LEMMA PreflightInv == Inv /\ Preflight => Inv'
<1> SUFFICES ASSUME Inv, Preflight PROVE Inv'
  OBVIOUS
<1>1. CASE \E blocking : Fail(blocking)
  BY <1>1, FailInv
<1>2. CASE /\ request.control <= MaxAgentOutput
           /\ \E merged \in {MergeCandidates(request.candidates
                               \cup PathCandidates(request.evidence, request.role)
                               \cup GoverningCandidates(request.evidence, request.role))} :
             \E initial \in {Ordered({c \in merged :
                               c.source \in {"TASK_PATH", "CHANGED_PATH", "DIFF"}})} :
                sel' = [sel EXCEPT
                    !.pc = "expand", !.entries = merged,
                    !.visited = {initial[n].ref : n \in DOMAIN initial},
                    !.queue = [n \in DOMAIN initial |->
                                  [paths |-> {initial[n].ref}, depth |-> 0]]]
           /\ Keep
  <2>00. PICK merged \in {MergeCandidates(request.candidates
                               \cup PathCandidates(request.evidence, request.role)
                               \cup GoverningCandidates(request.evidence, request.role))} :
             \E initial \in {Ordered({c \in merged :
                               c.source \in {"TASK_PATH", "CHANGED_PATH", "DIFF"}})} :
                sel' = [sel EXCEPT
                    !.pc = "expand", !.entries = merged,
                    !.visited = {initial[n].ref : n \in DOMAIN initial},
                    !.queue = [n \in DOMAIN initial |->
                                  [paths |-> {initial[n].ref}, depth |-> 0]]]
    BY <1>2
  <2>0. PICK initial \in {Ordered({c \in merged :
                               c.source \in {"TASK_PATH", "CHANGED_PATH", "DIFF"}})} :
           sel' = [sel EXCEPT
                    !.pc = "expand", !.entries = merged,
                    !.visited = {initial[n].ref : n \in DOMAIN initial},
                    !.queue = [n \in DOMAIN initial |-> [paths |-> {initial[n].ref}, depth |-> 0]]]
    BY <2>00
  <2>01. PICK visited : visited = {initial[n].ref : n \in DOMAIN initial}
    OBVIOUS
  <2>02. PICK queue : queue = [n \in DOMAIN initial |-> [paths |-> {initial[n].ref}, depth |-> 0]]
    OBVIOUS
  <2>1. /\ merged = MergeCandidates(Filed(request))
        /\ sel' = [sel EXCEPT !.pc = "expand", !.entries = merged, !.visited = visited, !.queue = queue]
    BY <2>00, <2>0, <2>01, <2>02, Zenon DEF Filed
  <2>2. request \in Requests /\ Filed(request) \subseteq FileEntries
    BY RequestTyped DEF Inv, Types
  <2>3. merged \subseteq FileEntries /\ IsFiniteSet(merged)
    BY <2>1, <2>2, Merged
  <2>4. Queue(queue)
    <3>1. PICK K : K = {c \in merged : c.source \in {"TASK_PATH", "CHANGED_PATH", "DIFF"}}
      OBVIOUS
    <3>2. Cardinality(K) \in Nat
      BY <2>3, <3>1, FS_Subset, FS_CardinalityType
    <3>3. DOMAIN initial = 1 .. Cardinality(K)
      BY <2>0, <3>1 DEF Ordered
    <3>4. PICK S : S = {[paths |-> {initial[n].ref}, depth |-> 0] : n \in DOMAIN initial}
      OBVIOUS
    <3>5. ASSUME NEW g \in S
          PROVE  DOMAIN g = {"paths", "depth"} /\ g.depth = 0
      <4>1. PICK n \in DOMAIN initial : g = [paths |-> {initial[n].ref}, depth |-> 0]
        BY <3>4, <3>5
      <4>2. PICK P : P = {initial[n].ref}
        OBVIOUS
      <4>3. g = [paths |-> P, depth |-> 0]
        BY <4>1, <4>2
      <4> QED BY ONLY <4>3
    <3>6. 0 \in 0 .. Limits.depth
      BY SelectionAssumption
    <3>7. queue \in Seq(S)
      <4>1. queue \in [1 .. Cardinality(K) -> S]
        BY <2>02, <3>3, <3>4
      <4> QED BY <3>2, <4>1, SeqDef
    <3> QED BY <3>5, <3>6, <3>7, Zenon DEF Queue
  <2>5. ASSUME NEW d \in Filed(request), d.importance = Required
        PROVE  \E e \in merged : Meets(e, d)
    <3>1. Meets(d, d)
      BY <2>5 DEF Meets
    <3> QED BY <2>1, <2>2, <3>1, MergedMeets
  <2>6. Filed(request)' = Filed(request)
    BY <1>2 DEF Keep, Filed
  <2>7. /\ DOMAIN sel = DOMAIN Idle /\ sel.todo = {} /\ sel.dependencies \subseteq FileEntries
        /\ DOMAIN sel.read = DOMAIN NoRead /\ sel.read.stage = "stat" /\ sel.read.tries \in 0 .. Limits.retries
        /\ sel.read.metadata \in {"same", "changed", "evaded"}
        /\ sel.prepared = <<>> /\ sel.artifacts \in Nat
        /\ sel.keys = {} /\ sel.items = <<>>
    BY DEF Inv, Types, SelectionTypes, ReadInv, EntriesInv, PackedInv, Preflight
  <2>8. /\ DOMAIN sel' = DOMAIN Idle /\ sel'.pc = "expand" /\ sel'.todo = sel.todo
        /\ sel'.queue = queue /\ sel'.dependencies = sel.dependencies
        /\ sel'.entries = merged /\ sel'.read = sel.read /\ sel'.prepared = sel.prepared
        /\ sel'.artifacts = sel.artifacts /\ sel'.keys = sel.keys /\ sel'.items = sel.items
    BY ONLY <2>1, <2>7 DEF Idle
  <2>9. Expanding'
    BY <1>2, <2>3, <2>4, <2>5, <2>6, <2>7, <2>8 DEF Expanding, Keep
  <2>10. OtherTypes' /\ CacheInv'
    BY <1>2, InvParts, OtherSame, CacheSame DEF Keep
  <2> QED BY <2>9, <2>10, ExpandingInv, InvParts, PTL
<1> QED BY <1>1, <1>2 DEF Preflight

\* The files that a read of one finds are dependencies within the limits.
LEMMA DependenciesTyped ==
    ASSUME NEW S, S \subseteq Paths, NEW depth, depth \in 0 .. Limits.depth
    PROVE  {FileCandidate(q, "DEPENDENCY", Optional, 120 + depth, "REPOSITORY", FALSE) : q \in S}
              \subseteq FileEntries
<1>1. 120 + depth \in 0 .. 1000 /\ Optional \in 0 .. 2
  BY SelectionAssumption DEF Optional
<1>2. "DEPENDENCY" \in SourceValues /\ "REPOSITORY" \in Classes /\ FALSE \in BOOLEAN
  BY SourceNames DEF Classes
<1>3. ASSUME NEW q \in S
      PROVE  FileCandidate(q, "DEPENDENCY", Optional, 120 + depth, "REPOSITORY", FALSE) \in FileEntries
  BY <1>1, <1>2, FileTyped, ZenonT(40)
<1> QED BY <1>3

\* One file of the queue.
LEMMA ExpandInv == Inv /\ Expand => Inv'
<1> SUFFICES ASSUME Inv, Expand PROVE Inv'
  OBVIOUS
<1>1. Expanding
  BY InvExpanding DEF Expand
<1> DEFINE p == Min(Head(sel.queue).paths)
           depth == Head(sel.queue).depth
           tail == IF Head(sel.queue).paths = {p} THEN Tail(sel.queue)
                   ELSE [sel.queue EXCEPT ![1].paths = @ \ {p}]
           room == Limits.dependencies - Cardinality(sel.dependencies)
           readable == disk[p] \in Texts /\ Text[disk[p]].bytes <= Limits.source
                          /\ Text[disk[p]].nature \in {"TEXT", "SECRET"}
           new == {q \in Text[disk[p]].imports : q \notin sel.visited /\ disk[q] \in Texts}
           taken == {q \in new : Cardinality({r \in new : r < q}) < room}
           deps == {FileCandidate(q, "DEPENDENCY", Optional, 120 + depth, "REPOSITORY", FALSE) : q \in taken}
<1>3. \E raced \in Races :
        sel' = IF depth >= Limits.depth \/ raced \/ ~readable
               THEN [sel EXCEPT !.queue = tail]
               ELSE [sel EXCEPT !.visited = @ \cup taken, !.dependencies = @ \cup deps,
                                !.queue = IF taken = {} THEN tail
                                          ELSE Append(tail, [paths |-> taken, depth |-> depth + 1])]
  BY Zenon DEF Expand
<1>4. sel.queue # <<>> /\ Keep
  BY DEF Expand
<1>5. Queue(tail) /\ depth \in 0 .. Limits.depth
  <2>1. Queue(sel.queue)
    BY <1>1 DEF Expanding
  <2>2. PICK P : P = sel.queue[1].paths \ {p}
    OBVIOUS
  <2>3. tail = Tail(sel.queue) \/ tail = [sel.queue EXCEPT ![1].paths = P]
    <3>1. 1 \in DOMAIN sel.queue
      BY <1>4, <2>1 DEF Queue
    <3> HIDE DEF p
    <3> QED BY <2>2, <3>1
  <2>4. /\ Queue(Tail(sel.queue)) /\ Queue([sel.queue EXCEPT ![1].paths = P])
        /\ Head(sel.queue).depth \in 0 .. Limits.depth
    BY <1>4, <2>1, QueueRest
  <2> HIDE DEF tail, p
  <2>5. Queue(tail)
    BY <2>3, <2>4
  <2> QED BY <2>4, <2>5
<1> HIDE DEF p, depth, tail, new, taken, deps, room
<1>6. OtherTypes' /\ CacheInv'
  BY <1>4, InvParts, OtherSame, CacheSame DEF Keep
<1>7. request' = request /\ Filed(request)' = Filed(request)
  BY <1>4 DEF Keep, Filed
<1>8. ASSUME NEW queue, Queue(queue), NEW visited, NEW more, more \subseteq FileEntries,
             sel' = [sel EXCEPT !.visited = visited, !.dependencies = more, !.queue = queue]
      PROVE  Inv'
  <2>1. DOMAIN sel = DOMAIN Idle
    BY <1>1 DEF Expanding
  <2>2. /\ DOMAIN sel' = DOMAIN Idle /\ sel'.pc = sel.pc /\ sel'.todo = sel.todo
        /\ sel'.queue = queue /\ sel'.dependencies = more
        /\ sel'.entries = sel.entries /\ sel'.read = sel.read /\ sel'.prepared = sel.prepared
        /\ sel'.artifacts = sel.artifacts /\ sel'.keys = sel.keys /\ sel'.items = sel.items
    BY ONLY <1>8, <2>1 DEF Idle
  <2>3. Expanding'
    BY <1>1, <1>7, <1>8, <2>2 DEF Expanding
  <2> QED BY <1>6, <2>3, ExpandingInv, InvParts, PTL
<1>9. CASE sel' = [sel EXCEPT !.queue = tail]
  <2>1. DOMAIN sel = DOMAIN Idle
    BY <1>1 DEF Expanding
  <2>2. sel' = [sel EXCEPT !.visited = sel.visited, !.dependencies = sel.dependencies, !.queue = tail]
    BY ONLY <1>9, <2>1 DEF Idle
  <2>3. sel.dependencies \subseteq FileEntries
    BY <1>1 DEF Expanding
  <2> QED BY <1>5, <1>8, <2>2, <2>3
<1>10. CASE /\ depth < Limits.depth /\ disk[p] \in Texts
            /\ sel' = [sel EXCEPT !.visited = @ \cup taken, !.dependencies = @ \cup deps,
                                  !.queue = IF taken = {} THEN tail
                                            ELSE Append(tail, [paths |-> taken, depth |-> depth + 1])]
  <2>1. taken \subseteq Paths
    BY <1>10, SelectionAssumption DEF taken, new
  <2>2. sel.dependencies \cup deps \subseteq FileEntries
    <3>1. deps \subseteq FileEntries
      BY <1>5, <2>1, DependenciesTyped, Zenon DEF deps
    <3> QED BY <1>1, <3>1 DEF Expanding
  <2>3. PICK queue : queue = IF taken = {} THEN tail ELSE Append(tail, [paths |-> taken, depth |-> depth + 1])
    OBVIOUS
  <2>4. Queue(queue)
    <3>1. depth + 1 \in 0 .. Limits.depth
      BY <1>5, <1>10, SelectionAssumption
    <3> QED BY <1>5, <2>3, <3>1, QueueMore
  <2>5. PICK visited, more : visited = sel.visited \cup taken /\ more = sel.dependencies \cup deps
    OBVIOUS
  <2>6. sel' = [sel EXCEPT !.visited = visited, !.dependencies = more, !.queue = queue]
    BY <1>10, <2>3, <2>5
  <2> QED BY <1>8, <2>2, <2>4, <2>5, <2>6
<1>11. depth >= Limits.depth \/ depth < Limits.depth
  BY <1>5, SelectionAssumption
<1> QED BY <1>3, <1>9, <1>10, <1>11

\* _discover_tests gives candidates.
LEMMA TestsTyped ==
    ASSUME NEW S, S \subseteq FileEntries
    PROVE  Tests(S) \subseteq FileEntries
<1>1. 85 \in 0 .. 1000 /\ Preferred \in 0 .. 2
  BY DEF Preferred
<1>2. "TEST" \in SourceValues /\ "TEST" \in Classes /\ FALSE \in BOOLEAN
  BY SourceNames DEF Classes
<1>3. ASSUME NEW q \in Paths
      PROVE  FileCandidate(q, "TEST", Preferred, 85, "TEST", FALSE) \in FileEntries
  BY ONLY <1>1, <1>2, FileTyped, ZenonT(40)
<1>4. PICK stems : stems = {c.ref : c \in {c \in S : TestOf[c.ref] # NoPath}}
  OBVIOUS
<1>5. \A p \in stems : TestOf[p] \in Paths
  <2>1. \A c \in S : c.ref \in Paths
    BY DEF FileEntries
  <2> QED BY <1>4, <2>1, SelectionAssumption
<1>6. PICK named : named = {p \in stems : Cardinality({q \in stems : q < p}) < Limits.tests}
  OBVIOUS
<1>7. Tests(S) = {FileCandidate(TestOf[p], "TEST", Preferred, 85, "TEST", FALSE) :
                    p \in {p \in named : disk[TestOf[p]] \in Texts}}
  BY <1>4, <1>6, Zenon DEF Tests
<1>8. ASSUME NEW x \in Tests(S) PROVE x \in FileEntries
  <2>1. PICK p \in named : x = FileCandidate(TestOf[p], "TEST", Preferred, 85, "TEST", FALSE)
    BY <1>7, <1>8
  <2>2. TestOf[p] \in Paths
    BY <1>5, <1>6
  <2> QED BY <1>3, <2>1, <2>2
<1> QED BY <1>8

\* The end of discovery: everything that is demanded is among the entries.
LEMMA DiscoverTestsInv == Inv /\ DiscoverTests => Inv'
<1> SUFFICES ASSUME Inv, DiscoverTests PROVE Inv'
  OBVIOUS
<1>1. CASE \E blocking : Fail(blocking)
  BY <1>1, FailInv
<1>2. CASE ~ \E blocking : Fail(blocking)
  <2>1. Expanding
    BY InvExpanding DEF DiscoverTests
  <2>2. PICK merged \in {MergeCandidates(sel.entries \cup sel.dependencies)} :
          \E entries \in {MergeCandidates(merged \cup Tests(merged)) \cup Unfiled(request)} :
            /\ sel' = [sel EXCEPT !.pc = "prepare", !.entries = entries,
                                  !.todo = entries, !.entry = Upcoming(entries)]
            /\ Keep
    BY <1>2 DEF DiscoverTests
  <2>3. PICK entries \in {MergeCandidates(merged \cup Tests(merged)) \cup Unfiled(request)} :
            /\ sel' = [sel EXCEPT !.pc = "prepare", !.entries = entries,
                                  !.todo = entries, !.entry = Upcoming(entries)]
            /\ Keep
    BY <2>2
  <2>4. PICK files : files = MergeCandidates(merged \cup Tests(merged))
    OBVIOUS
  <2>5. entries = files \cup Unfiled(request) /\ merged = MergeCandidates(sel.entries \cup sel.dependencies)
    BY <2>2, <2>3, <2>4
  <2>6. sel.entries \cup sel.dependencies \subseteq FileEntries
    BY <2>1 DEF Expanding
  <2>7. merged \cup Tests(merged) \subseteq FileEntries
    BY <2>5, <2>6, Merged, TestsTyped
  <2>8. files \subseteq FileEntries /\ \A d, e \in files : d.ref = e.ref => d = e
    BY <2>4, <2>7, Merged
  <2>9. /\ request \in Requests /\ Unfiled(request) \subseteq InlineEntries \cup ArtifactEntries
        /\ \A d, e \in Unfiled(request) : d.ref \notin Paths /\ (d.ref = e.ref => d = e)
    BY RequestTyped DEF Inv, Types
  <2>10. entries \subseteq Entries
    BY <2>5, <2>8, <2>9 DEF Entries
  <2>11. \A d, e \in entries : d.ref = e.ref => d = e
    <3>1. \A d \in files : d.ref \in Paths
      BY <2>8 DEF FileEntries
    <3> QED BY <2>5, <2>8, <2>9, <3>1
  <2>12. ASSUME NEW d \in Demands
         PROVE  \E e \in entries : Meets(e, d)
    <3>1. d.importance = Required /\ (d \in Filed(request) \/ d \in Unfiled(request))
      BY <2>12 DEF Demands, Filed
    <3>2. CASE d \in Filed(request)
      <4>1. \E e \in sel.entries \cup sel.dependencies : Meets(e, d)
        BY <2>1, <3>1, <3>2 DEF Expanding
      <4>2. \E e \in merged \cup Tests(merged) : Meets(e, d)
        BY <2>5, <2>6, <4>1, MergedMeets
      <4>3. \E e \in files : Meets(e, d)
        BY <2>4, <2>7, <4>2, MergedMeets
      <4> QED BY <2>5, <4>3
    <3>3. CASE d \in Unfiled(request)
      BY <2>5, <3>1, <3>3 DEF Meets
    <3> QED BY <3>1, <3>2, <3>3
  <2>13. Demands' = Demands /\ request' = request /\ disk' = disk
    BY <2>3 DEF Keep, Demands
  <2>14. /\ DOMAIN sel = DOMAIN Idle /\ Queue(sel.queue) /\ sel.dependencies \subseteq FileEntries
         /\ DOMAIN sel.read = DOMAIN NoRead /\ sel.read.stage = "stat" /\ sel.read.tries \in 0 .. Limits.retries
         /\ sel.read.metadata \in {"same", "changed", "evaded"}
         /\ sel.prepared = <<>> /\ sel.artifacts \in Nat
         /\ sel.keys = {} /\ sel.items = <<>> /\ request.control <= MaxAgentOutput
    BY <2>1 DEF Expanding
  <2>15. PICK first : first = Upcoming(entries)
    OBVIOUS
  <2>16. sel' = [sel EXCEPT !.pc = "prepare", !.entries = entries, !.todo = entries, !.entry = first]
    BY <2>3, <2>15
  <2>17. /\ DOMAIN sel' = DOMAIN Idle /\ sel'.pc = "prepare" /\ sel'.todo = entries
         /\ sel'.queue = sel.queue /\ sel'.dependencies = sel.dependencies
         /\ sel'.entries = entries /\ sel'.entry = first /\ sel'.read = sel.read /\ sel'.prepared = sel.prepared
         /\ sel'.artifacts = sel.artifacts /\ sel'.keys = sel.keys /\ sel'.items = sel.items
    BY ONLY <2>14, <2>16 DEF Idle
  <2>18. DOMAIN sel'.prepared = {} /\ DOMAIN sel'.items = {}
    BY <2>14, <2>17
  <2>19. SelectionTypes'
    BY <2>10, <2>14, <2>17 DEF SelectionTypes
  <2>20. ReadInv'
    BY <2>14, <2>15, <2>17 DEF ReadInv, Upcoming
  <2>21. EntriesInv'
    BY <2>11, <2>12, <2>13, <2>17 DEF EntriesInv
  <2>22. PreparedInv'
    BY <2>17, <2>18 DEF PreparedInv
  <2>23. PackedInv'
    BY <2>14, <2>17, <2>18 DEF PackedInv
  <2>24. BudgetInv'
    BY <2>13, <2>14, <2>17, RetainedNone, SelectionAssumption DEF BudgetInv
  <2>25. OtherTypes' /\ CacheInv'
    BY <2>3, InvParts, OtherSame, CacheSame DEF Keep
  <2> QED BY <2>19, <2>20, <2>21, <2>22, <2>23, <2>24, <2>25, InvParts, PTL DEF SelInv
<1> QED BY <1>1, <1>2

-----------------------------------------------------------------------------
(* Preparation.                                                             *)

\* The entry that the loop is at, and what comes after it.
LEMMA AtEntry ==
    ASSUME Inv, sel.pc = "prepare", sel.todo # {}
    PROVE  /\ Entry \in sel.todo /\ Entry \in sel.entries /\ Entry \in Entries
           /\ \A e \in sel.todo : Entry.importance <= e.importance
           /\ \A e \in sel.todo : e # Entry => e.ref # Entry.ref
<1>1. sel.todo \subseteq Entries /\ sel.todo \subseteq sel.entries /\ Entry = First(sel.todo)
  BY DEF Inv, Types, SelectionTypes, ReadInv, Entry
<1>2. Entry \in sel.todo /\ \A e \in sel.todo : Entry.importance <= e.importance
  BY <1>1, FirstEntry
<1>3. \A d, e \in sel.entries : d.ref = e.ref => d = e
  BY DEF Inv, EntriesInv
<1> QED BY <1>1, <1>2, <1>3

Advanced ==
    /\ DOMAIN sel' = DOMAIN sel /\ sel'.pc = sel.pc /\ sel'.entries = sel.entries
    /\ sel'.queue = sel.queue /\ sel'.dependencies = sel.dependencies
    /\ sel'.todo = sel.todo \ {Entry} /\ sel'.entry = Upcoming(sel.todo \ {Entry})
    /\ sel'.read = NoRead /\ sel'.artifacts \in Nat /\ sel'.prepared \in Seq(Item)
    /\ sel'.keys = sel.keys /\ sel'.items = sel.items

\* The loop goes on to the next entry.
LEMMA AdvanceInv ==
    ASSUME Inv, sel.pc = "prepare", sel.todo # {}, Keep, Advanced, PreparedInv'
    PROVE  Inv'
<1>1. PICK todo, first : todo = sel.todo \ {Entry} /\ first = Upcoming(todo)
  OBVIOUS
<1>3. /\ DOMAIN sel = DOMAIN Idle /\ Queue(sel.queue) /\ sel.dependencies \subseteq FileEntries
      /\ sel.entries \subseteq Entries /\ sel.todo \subseteq sel.entries
      /\ sel.keys = {} /\ sel.items = <<>> /\ request.control <= MaxAgentOutput
      /\ \A d \in Demands : \E e \in sel.entries : Meets(e, d)
      /\ \A d, e \in sel.entries : d.ref = e.ref => d = e
  BY DEF Inv, Types, SelectionTypes, EntriesInv, PackedInv, BudgetInv
<1>4. /\ DOMAIN sel' = DOMAIN Idle /\ sel'.pc = sel.pc /\ sel'.todo = todo
      /\ sel'.queue = sel.queue /\ sel'.dependencies = sel.dependencies
      /\ sel'.entries = sel.entries /\ sel'.entry = first /\ sel'.read = NoRead
      /\ sel'.prepared \in Seq(Item)
      /\ sel'.artifacts \in Nat /\ sel'.keys = sel.keys /\ sel'.items = sel.items
  BY <1>1, <1>3 DEF Advanced
<1>5. Demands' = Demands /\ request' = request
  BY DEF Keep, Demands
<1>6. SelectionTypes'
  <2>1. NoRead.tries \in 0 .. Limits.retries
    BY SelectionAssumption DEF NoRead
  <2>2. sel'.keys = {} /\ sel'.items \in Seq(Item)
    <3>1. sel.items \in Seq(Item)
      BY DEF Inv, Types, SelectionTypes
    <3> QED BY <1>3, <1>4, <3>1
  <2>3. sel'.todo \subseteq sel'.entries
    BY <1>1, <1>3, <1>4
  <2> QED BY <1>3, <1>4, <2>1, <2>2, <2>3 DEF SelectionTypes
<1>7. ReadInv'
  <2>1. NoRead.stage = "stat" /\ NoRead.metadata = "same"
    BY DEF NoRead
  <2> QED BY <1>1, <1>4, <2>1 DEF ReadInv, Upcoming
<1>8. EntriesInv'
  BY <1>3, <1>4, <1>5 DEF EntriesInv
<1>10. PackedInv'
  <2>1. DOMAIN sel'.items = {} /\ sel'.keys = {}
    BY <1>3, <1>4
  <2> QED BY <1>3, <1>4, <2>1 DEF PackedInv
<1>11. BudgetInv'
  BY <1>3, <1>4, <1>5, RetainedNone, SelectionAssumption DEF BudgetInv
<1>12. OtherTypes' /\ CacheInv'
  BY InvParts, OtherSame, CacheSame DEF Keep
<1> QED BY <1>6, <1>7, <1>8, <1>10, <1>11, <1>12, InvParts, PTL DEF SelInv

\* An entry that is not required is left out.
LEMMA DropInv ==
    ASSUME Inv, sel.pc = "prepare", sel.todo # {}, Entry.importance # Required, Keep,
           NEW a \in Nat, NEW x,
           sel' = [sel EXCEPT !.todo = @ \ {Entry}, !.entry = Upcoming(sel.todo \ {Entry}), !.read = NoRead,
                              !.artifacts = a, !.excluded = x]
    PROVE  Inv'
<1>1. DOMAIN sel = DOMAIN Idle /\ sel.prepared \in Seq(Item)
  BY DEF Inv, Types, SelectionTypes
<1>2. PICK todo, first : todo = sel.todo \ {Entry} /\ first = Upcoming(todo)
  OBVIOUS
<1>3. sel' = [sel EXCEPT !.todo = todo, !.entry = first, !.read = NoRead,
                         !.artifacts = a, !.excluded = x]
  BY <1>2
<1>4. /\ DOMAIN sel' = DOMAIN sel /\ sel'.pc = sel.pc /\ sel'.entries = sel.entries
      /\ sel'.queue = sel.queue /\ sel'.dependencies = sel.dependencies
      /\ sel'.todo = todo /\ sel'.entry = first /\ sel'.read = NoRead /\ sel'.artifacts = a
      /\ sel'.prepared = sel.prepared /\ sel'.keys = sel.keys /\ sel'.items = sel.items
  BY ONLY <1>1, <1>3 DEF Idle
<1>5. Advanced
  BY <1>1, <1>2, <1>4 DEF Advanced
<1>6. PreparedInv'
  <2>1. \A e \in sel.entries : e.importance = Required => e # Entry
    OBVIOUS
  <2> QED BY <1>2, <1>4, <2>1 DEF Inv, PreparedInv, Rest
<1> QED BY <1>5, <1>6, AdvanceInv

\* An entry becomes an item.
LEMMA TakeInv ==
    ASSUME Inv, sel.pc = "prepare", sel.todo # {}, Keep,
           NEW a \in Nat, NEW t \in Texts, NEW w \in {None, "evaded"},
           PreReason(Entry) = "NONE", ContentReason(Entry, t, w) = "NONE",
           sel' = [sel EXCEPT !.todo = @ \ {Entry}, !.entry = Upcoming(sel.todo \ {Entry}), !.read = NoRead,
                              !.artifacts = a, !.prepared = Append(@, ContentItem(Entry, t, w))]
    PROVE  Inv'
<1>1. DOMAIN sel = DOMAIN Idle /\ sel.prepared \in Seq(Item)
  BY DEF Inv, Types, SelectionTypes
<1>2. PICK todo, first : todo = sel.todo \ {Entry} /\ first = Upcoming(todo)
  OBVIOUS
<1>3. PICK item, prepared : item = ContentItem(Entry, t, w) /\ prepared = Append(sel.prepared, item)
  OBVIOUS
<1>4. sel' = [sel EXCEPT !.todo = todo, !.entry = first, !.read = NoRead,
                         !.artifacts = a, !.prepared = prepared]
  BY <1>2, <1>3
<1>5. /\ DOMAIN sel' = DOMAIN sel /\ sel'.pc = sel.pc /\ sel'.entries = sel.entries
      /\ sel'.queue = sel.queue /\ sel'.dependencies = sel.dependencies
      /\ sel'.todo = todo /\ sel'.entry = first /\ sel'.read = NoRead /\ sel'.artifacts = a
      /\ sel'.prepared = prepared /\ sel'.keys = sel.keys /\ sel'.items = sel.items
  BY ONLY <1>1, <1>4 DEF Idle
<1>7. /\ Entry \in sel.todo /\ Entry \in sel.entries /\ Entry \in Entries
      /\ \A e \in sel.todo : Entry.importance <= e.importance
      /\ \A e \in sel.todo : e # Entry => e.ref # Entry.ref
  BY AtEntry
<1>8. /\ item \in Item /\ Sane(item) /\ item.ref = Entry.ref /\ item.importance = Entry.importance
      /\ item.state # "REFERENCED" /\ (Entry.complete => item.state = "COMPLETE")
  BY <1>3, <1>7, ItemSound
<1>9. prepared \in Seq(Item)
  BY <1>1, <1>3, <1>8
<1>10. PICK L : L = Len(sel.prepared)
  OBVIOUS
<1>11. /\ L \in Nat /\ DOMAIN sel.prepared = 1 .. L /\ DOMAIN prepared = 1 .. L + 1
       /\ prepared[L + 1] = item /\ \A n \in 1 .. L : prepared[n] = sel.prepared[n]
  BY <1>1, <1>3, <1>8, <1>10
<1>12. /\ \A n \in 1 .. L : Sane(prepared[n]) /\ prepared[n].state # "REFERENCED"
       /\ \A m, n \in 1 .. L : m < n => /\ prepared[m].ref # prepared[n].ref
                                        /\ prepared[m].importance <= prepared[n].importance
       /\ \A n \in 1 .. L : \A e \in sel.todo :
             prepared[n].ref # e.ref /\ prepared[n].importance <= e.importance
       /\ \A e \in sel.entries : e.importance = Required =>
             e \in sel.todo \/ \E n \in 1 .. L : Stands(prepared[n], e)
       /\ \A n \in 1 .. L : \E e \in sel.entries : prepared[n].ref = e.ref
  BY <1>11 DEF Inv, PreparedInv, Rest
<1>13. \A n \in 1 .. L + 1 : n \in 1 .. L \/ n = L + 1
  BY <1>11
<1>14. \A n \in 1 .. L : n \in 1 .. L + 1 /\ n < L + 1
  BY <1>11
<1>15. L + 1 \in 1 .. L + 1
  BY <1>11
<1>16. \A n \in 1 .. L + 1 : Sane(prepared[n]) /\ prepared[n].state # "REFERENCED"
  BY <1>8, <1>11, <1>12, <1>13
<1>17. ASSUME NEW m \in 1 .. L + 1, NEW n \in 1 .. L + 1, m < n
       PROVE  prepared[m].ref # prepared[n].ref /\ prepared[m].importance <= prepared[n].importance
  <2>1. m \in 1 .. L
    BY <1>11, <1>17
  <2>2. CASE n \in 1 .. L
    BY <1>12, <1>17, <2>1, <2>2
  <2>3. CASE n = L + 1
    BY <1>7, <1>8, <1>11, <1>12, <2>1, <2>3
  <2> QED BY <1>13, <2>2, <2>3
<1>18. \A n \in 1 .. L + 1 : \A e \in todo : prepared[n].ref # e.ref /\ prepared[n].importance <= e.importance
  BY <1>2, <1>7, <1>8, <1>11, <1>12, <1>13
<1>19. ASSUME NEW e \in sel.entries, e.importance = Required
       PROVE  e \in todo \/ \E n \in 1 .. L + 1 : Stands(prepared[n], e)
  <2>1. CASE e = Entry
    <3>1. Stands(prepared[L + 1], e)
      BY <1>8, <1>11, <1>19, <2>1 DEF Stands
    <3> QED BY <1>15, <3>1
  <2>2. CASE e # Entry
    BY <1>2, <1>12, <1>14, <1>19, <2>2
  <2> QED BY <2>1, <2>2
<1>20. \A n \in 1 .. L + 1 : \E e \in sel.entries : prepared[n].ref = e.ref
  BY <1>7, <1>8, <1>11, <1>12, <1>13
<1>21. PreparedInv'
  BY <1>5, <1>11, <1>16, <1>17, <1>18, <1>19, <1>20 DEF PreparedInv, Rest
<1>22. Advanced
  BY <1>2, <1>5, <1>9 DEF Advanced
<1> QED BY <1>21, <1>22, AdvanceInv

\* An exclusion fails the selection or drops an entry that is not required.
LEMMA ExcludeInv ==
    ASSUME Inv, sel.pc = "prepare", sel.todo # {}, NEW reason, NEW next, Exclude(Entry, reason, next),
           NEW a \in Nat, next = Advance \/ next = [Advance EXCEPT !.artifacts = a]
    PROVE  Inv'
<1>1. CASE Fail(reason \in BLOCKING)
  BY <1>1, FailInv
<1>2. CASE /\ Entry.importance # Required /\ Keep
           /\ sel' = [next EXCEPT !.excluded = @ \cup {Excluded(Entry, reason)}]
  <2>1. DOMAIN sel = DOMAIN Idle /\ sel.artifacts \in Nat
    BY DEF Inv, Types, SelectionTypes
  <2>21. PICK todo : todo = sel.todo \ {Entry}
    OBVIOUS
  <2>22. PICK first : first = Upcoming(todo)
    OBVIOUS
  <2>2. PICK n : n = [sel EXCEPT !.todo = todo, !.entry = first, !.read = NoRead]
    OBVIOUS
  <2>23. Advance = n
    BY <2>21, <2>22, <2>2, Zenon DEF Advance
  <2>3. PICK b \in Nat :
          next = [sel EXCEPT !.todo = todo, !.entry = first, !.read = NoRead, !.artifacts = b]
    <3>1. CASE next = n
      <4>1. next = [sel EXCEPT !.todo = todo, !.entry = first, !.read = NoRead, !.artifacts = sel.artifacts]
        BY ONLY <2>1, <2>2, <3>1 DEF Idle
      <4> QED BY <2>1, <4>1
    <3>2. CASE next = [n EXCEPT !.artifacts = a]
      <4>1. next = [sel EXCEPT !.todo = todo, !.entry = first, !.read = NoRead, !.artifacts = a]
        BY ONLY <2>1, <2>2, <3>2 DEF Idle
      <4> QED BY <4>1
    <3> QED BY <2>23, <3>1, <3>2
  <2>4. PICK x : x = next.excluded \cup {Excluded(Entry, reason)}
    OBVIOUS
  <2>5. sel' = [next EXCEPT !.excluded = x]
    BY <1>2, <2>4
  <2>6. sel' = [sel EXCEPT !.todo = todo, !.entry = first, !.read = NoRead, !.artifacts = b, !.excluded = x]
    BY ONLY <2>1, <2>3, <2>5 DEF Idle
  <2>7. sel' = [sel EXCEPT !.todo = @ \ {Entry}, !.entry = Upcoming(sel.todo \ {Entry}), !.read = NoRead,
                           !.artifacts = b, !.excluded = x]
    BY <2>21, <2>22, <2>6
  <2> QED BY <1>2, <2>7, DropInv
<1> QED BY <1>1, <1>2 DEF Exclude

\* The content of an entry is known, and was read in one piece.
LEMMA TakeContentInv ==
    ASSUME Inv, sel.pc = "prepare", sel.todo # {}, PreReason(Entry) = "NONE",
           NEW t \in Texts, NEW w \in {None, "evaded"}, TakeContent(t, w)
    PROVE  Inv'
<1>1. sel.artifacts \in Nat /\ DOMAIN sel = DOMAIN Idle
  BY DEF Inv, Types, SelectionTypes
<1>2. Text[t].bytes \in Nat
  BY SelectionAssumption
<1>3. PICK total : total = sel.artifacts + (IF Entry.kind = "ARTIFACT" THEN Text[t].bytes ELSE 0)
  OBVIOUS
<1>4. total \in Nat
  BY <1>1, <1>2, <1>3
<1>5. PICK next : next = [Advance EXCEPT !.artifacts = total]
  OBVIOUS
<1>6. \/ \E reason : Exclude(Entry, reason, Advance)
      \/ Exclude(Entry, "AGGREGATE_LIMIT", next)
      \/ /\ ContentReason(Entry, t, w) = "NONE"
         /\ sel' = [next EXCEPT !.prepared = Append(@, ContentItem(Entry, t, w))]
         /\ Keep
  <2>1. \/ Exclude(Entry, ContentReason(Entry, t, w), Advance)
        \/ Exclude(Entry, "AGGREGATE_LIMIT",
                   [Advance EXCEPT !.artifacts = sel.artifacts
                                      + (IF Entry.kind = "ARTIFACT" THEN Text[t].bytes ELSE 0)])
        \/ /\ ContentReason(Entry, t, w) = "NONE"
           /\ sel' = [[Advance EXCEPT !.artifacts = sel.artifacts
                                      + (IF Entry.kind = "ARTIFACT" THEN Text[t].bytes ELSE 0)]
                         EXCEPT !.prepared = Append(@, ContentItem(Entry, t, w))]
           /\ Keep
    BY Zenon DEF TakeContent
  <2> QED BY <1>3, <1>5, <2>1, Zenon
<1>7. CASE \E reason : Exclude(Entry, reason, Advance)
  <2>1. PICK reason : Exclude(Entry, reason, Advance)
    BY <1>7
  <2> QED BY <1>4, <2>1, ExcludeInv
<1>8. CASE Exclude(Entry, "AGGREGATE_LIMIT", next)
  BY <1>4, <1>5, <1>8, ExcludeInv
<1>9. CASE /\ ContentReason(Entry, t, w) = "NONE"
           /\ sel' = [next EXCEPT !.prepared = Append(@, ContentItem(Entry, t, w))]
           /\ Keep
  <2>21. PICK todo : todo = sel.todo \ {Entry}
    OBVIOUS
  <2>22. PICK first : first = Upcoming(todo)
    OBVIOUS
  <2>1. PICK n : n = [sel EXCEPT !.todo = todo, !.entry = first, !.read = NoRead]
    OBVIOUS
  <2>23. next = [n EXCEPT !.artifacts = total]
    BY <1>5, <2>21, <2>22, <2>1, Zenon DEF Advance
  <2>2. next = [sel EXCEPT !.todo = todo, !.entry = first, !.read = NoRead, !.artifacts = total]
    BY ONLY <1>1, <2>1, <2>23 DEF Idle
  <2>3. next.prepared = sel.prepared
    BY ONLY <1>1, <2>2 DEF Idle
  <2>4. PICK prepared : prepared = Append(sel.prepared, ContentItem(Entry, t, w))
    OBVIOUS
  <2>5. sel' = [next EXCEPT !.prepared = prepared]
    BY <1>9, <2>3, <2>4
  <2>6. sel' = [sel EXCEPT !.todo = todo, !.entry = first, !.read = NoRead, !.artifacts = total,
                           !.prepared = prepared]
    BY ONLY <1>1, <2>2, <2>5 DEF Idle
  <2>7. sel' = [sel EXCEPT !.todo = @ \ {Entry}, !.entry = Upcoming(sel.todo \ {Entry}), !.read = NoRead,
                           !.artifacts = total, !.prepared = Append(@, ContentItem(Entry, t, w))]
    BY <2>21, <2>22, <2>4, <2>6
  <2> QED BY <1>4, <1>9, <2>7, TakeInv
<1> QED BY <1>6, <1>7, <1>8, <1>9

\* Entries that are refused, and inline evidence.
LEMMA RefuseInv == Inv /\ Refuse => Inv'
<1> SUFFICES ASSUME Inv, Refuse PROVE Inv'
  OBVIOUS
<1> QED BY ExcludeInv DEF Refuse

LEMMA PrepareInlineInv == Inv /\ PrepareInline => Inv'
<1> SUFFICES ASSUME Inv, PrepareInline PROVE Inv'
  OBVIOUS
<1>1. Entry.text \in Texts
  BY AtEntry, EntryTyped DEF PrepareInline
<1> QED BY <1>1, TakeContentInv DEF PrepareInline

\* What changes only what was read of the entry keeps everything else.
LEMMA ReadStepInv ==
    ASSUME Inv, sel.pc = "prepare", NEW read, sel' = [sel EXCEPT !.read = read],
           DOMAIN read = DOMAIN NoRead, read.tries \in 0 .. Limits.retries, ReadInv',
           OtherTypes', UNCHANGED <<request, cache, durable>>
    PROVE  Inv'
<1>1. DOMAIN sel = DOMAIN Idle
  BY DEF Inv, Types, SelectionTypes
<1>2. /\ DOMAIN sel' = DOMAIN sel /\ sel'.pc = sel.pc /\ sel'.queue = sel.queue
      /\ sel'.dependencies = sel.dependencies /\ sel'.entries = sel.entries /\ sel'.todo = sel.todo
      /\ sel'.entry = sel.entry /\ sel'.read = read /\ sel'.prepared = sel.prepared
      /\ sel'.artifacts = sel.artifacts /\ sel'.keys = sel.keys /\ sel'.items = sel.items
  BY ONLY <1>1, sel' = [sel EXCEPT !.read = read] DEF Idle
<1>3. Demands' = Demands
  BY DEF Demands
<1>4. SelectionTypes'
  BY <1>2 DEF Inv, Types, SelectionTypes
<1>5. EntriesInv'
  BY <1>2, <1>3 DEF Inv, EntriesInv
<1>6. PreparedInv'
  BY <1>2 DEF Inv, PreparedInv, Rest
<1>7. PackedInv'
  BY <1>2 DEF Inv, PackedInv, Rest
<1>8. BudgetInv'
  BY <1>2 DEF Inv, BudgetInv
<1>9. CacheInv'
  BY InvParts, CacheSame
<1> QED BY <1>4, <1>5, <1>6, <1>7, <1>8, <1>9, InvParts, PTL DEF SelInv

\* What a read is at.
LEMMA AtRead ==
    ASSUME Inv, NEW stage, Reading(stage)
    PROVE  /\ sel.pc = "prepare" /\ sel.todo # {} /\ PreReason(Entry) = "NONE" /\ Entry.path \in Paths
           /\ sel.read.stage = stage /\ DOMAIN sel.read = DOMAIN NoRead
           /\ sel.read.tries \in 0 .. Limits.retries
           /\ DOMAIN sel = DOMAIN Idle /\ Entry = First(sel.todo)
BY AtEntry, EntryTyped DEF Reading, Inv, Types, SelectionTypes, ReadInv, Entry

\* A read in three steps, with writes between them.
LEMMA ReadBeginInv == Inv /\ ReadBegin => Inv'
<1> SUFFICES ASSUME Inv, ReadBegin PROVE Inv'
  OBVIOUS
<1>1. /\ sel.pc = "prepare" /\ sel.todo # {} /\ Entry.path \in Paths
      /\ DOMAIN sel.read = DOMAIN NoRead /\ sel.read.tries \in 0 .. Limits.retries
      /\ DOMAIN sel = DOMAIN Idle /\ Entry = First(sel.todo)
  BY AtRead DEF ReadBegin
<1>2. CASE Exclude(Entry, disk[Entry.path], Advance)
  BY <1>1, <1>2, ExcludeInv
<1>3. CASE /\ disk[Entry.path] \in Texts /\ Keep
           /\ sel' = [sel EXCEPT !.read.stage = "rest", !.read.first = disk[Entry.path]]
  <2>1. PICK first, read : first = disk[Entry.path] /\ read = [sel.read EXCEPT !.stage = "rest", !.first = first]
    OBVIOUS
  <2>2. sel' = [sel EXCEPT !.read = read]
    BY ONLY <1>1, <1>3, <2>1 DEF Idle, NoRead
  <2>3. /\ DOMAIN read = DOMAIN NoRead /\ read.stage = "rest" /\ read.first = first
        /\ read.tries = sel.read.tries /\ read.metadata = sel.read.metadata
    BY ONLY <1>1, <2>1 DEF NoRead
  <2>4. sel'.read = read /\ sel'.entry = sel.entry /\ sel'.todo = sel.todo /\ sel'.pc = sel.pc
    BY ONLY <1>1, <2>2 DEF Idle
  <2>5. ReadInv'
    BY <1>1, <1>3, <2>1, <2>3, <2>4 DEF Inv, ReadInv, Entry, Keep
  <2>6. OtherTypes' /\ UNCHANGED <<request, cache, durable>>
    BY <1>3, InvParts, OtherSame DEF Keep
  <2> QED BY <1>1, <2>2, <2>3, <2>5, <2>6, ReadStepInv
<1> QED BY <1>2, <1>3 DEF ReadBegin

LEMMA ReadRestInv == Inv /\ ReadRest => Inv'
<1> SUFFICES ASSUME Inv, ReadRest PROVE Inv'
  OBVIOUS
<1>1. /\ sel.pc = "prepare" /\ sel.todo # {} /\ Entry.path \in Paths /\ sel.read.stage = "rest"
      /\ DOMAIN sel.read = DOMAIN NoRead /\ sel.read.tries \in 0 .. Limits.retries
      /\ DOMAIN sel = DOMAIN Idle /\ Entry = First(sel.todo)
  BY AtRead DEF ReadRest
<1>2. PICK rest, read : /\ rest = (IF disk[Entry.path] \in Texts THEN disk[Entry.path] ELSE sel.read.first)
                        /\ read = [sel.read EXCEPT !.stage = "compare", !.rest = rest]
  OBVIOUS
<1>3. /\ sel' = [sel EXCEPT !.read.stage = "compare", !.read.rest = rest]
      /\ Keep
  BY <1>2 DEF ReadRest
<1>4. sel' = [sel EXCEPT !.read = read]
  BY ONLY <1>1, <1>2, <1>3 DEF Idle, NoRead
<1>5. /\ DOMAIN read = DOMAIN NoRead /\ read.stage = "compare" /\ read.first = sel.read.first
      /\ read.tries = sel.read.tries /\ read.rest = rest /\ read.metadata = sel.read.metadata
  BY ONLY <1>1, <1>2 DEF NoRead
<1>6. sel'.read = read /\ sel'.entry = sel.entry /\ sel'.todo = sel.todo /\ sel'.pc = sel.pc
  BY ONLY <1>1, <1>4 DEF Idle
<1>7. /\ sel.read.first \in Texts /\ sel.read.metadata \in {"same", "changed", "evaded"}
      /\ sel.read.metadata = "same" => disk[Entry.path] = sel.read.first
  BY <1>1 DEF Inv, ReadInv, Entry
<1>8. ReadInv'
  BY <1>1, <1>2, <1>5, <1>6, <1>7 DEF ReadInv, Entry
<1>9. OtherTypes' /\ UNCHANGED <<request, cache, durable>>
  BY <1>3, InvParts, OtherSame DEF Keep
<1> QED BY <1>1, <1>4, <1>5, <1>8, <1>9, ReadStepInv

LEMMA ReadCompareInv == Inv /\ ReadCompare => Inv'
<1> SUFFICES ASSUME Inv, ReadCompare PROVE Inv'
  OBVIOUS
<1>1. /\ sel.pc = "prepare" /\ sel.todo # {} /\ Entry.path \in Paths /\ sel.read.stage = "compare"
      /\ PreReason(Entry) = "NONE" /\ sel.read.tries \in 0 .. Limits.retries
      /\ DOMAIN sel = DOMAIN Idle /\ Entry = First(sel.todo)
  BY AtRead DEF ReadCompare
<1>2. ASSUME NEW reason, Exclude(Entry, reason, Advance)
      PROVE  Inv'
  BY <1>1, <1>2, ExcludeInv
<1>3. CASE ~Changed /\ TakeRead
  <2>1. /\ sel.read.first \in Texts /\ sel.read.rest \in Texts
        /\ sel.read.metadata = "evaded" \/ sel.read.rest = sel.read.first
    BY <1>1, <1>3 DEF Inv, ReadInv, Changed
  <2>2. PICK w : w = (IF sel.read.first = sel.read.rest THEN None ELSE sel.read.metadata)
    OBVIOUS
  <2>3. w \in {None, "evaded"}
    BY <2>1, <2>2
  <2>4. PICK t \in {sel.read.first, sel.read.rest} : TakeContent(t, w)
    BY <1>3, <2>2 DEF TakeRead
  <2> QED BY <1>1, <2>1, <2>3, <2>4, TakeContentInv
<1>4. CASE /\ sel.read.tries < Limits.retries /\ Keep
           /\ sel' = [sel EXCEPT !.read = [NoRead EXCEPT !.tries = sel.read.tries + 1]]
  <2>1. PICK n, read : n = sel.read.tries + 1 /\ read = [NoRead EXCEPT !.tries = n]
    OBVIOUS
  <2>2. sel' = [sel EXCEPT !.read = read]
    BY <1>4, <2>1
  <2>3. n \in 0 .. Limits.retries
    BY <1>1, <1>4, <2>1, SelectionAssumption
  <2>4. /\ DOMAIN read = DOMAIN NoRead /\ read.stage = "stat" /\ read.tries = n
        /\ read.metadata = "same"
    BY ONLY <2>1 DEF NoRead
  <2>5. sel'.read = read /\ sel'.entry = sel.entry /\ sel'.todo = sel.todo /\ sel'.pc = sel.pc
    BY ONLY <1>1, <2>2 DEF Idle
  <2>6. ReadInv'
    BY <1>1, <2>4, <2>5 DEF ReadInv, Entry
  <2>7. OtherTypes' /\ UNCHANGED <<request, cache, durable>>
    BY <1>4, InvParts, OtherSame DEF Keep
  <2> QED BY <1>1, <2>2, <2>3, <2>4, <2>6, <2>7, ReadStepInv
<1> QED BY <1>2, <1>3, <1>4 DEF ReadCompare

\* Every entry has been looked at: the required ones are all prepared.
LEMMA PreparedStepInv == Inv /\ Prepared => Inv'
<1> SUFFICES ASSUME Inv, Prepared PROVE Inv'
  OBVIOUS
<1>1. /\ sel.pc = "prepare" /\ sel.todo = {} /\ sel' = [sel EXCEPT !.pc = "pack"] /\ Keep
      /\ DOMAIN sel = DOMAIN Idle
  BY DEF Prepared, Inv, Types, SelectionTypes
<1>2. /\ DOMAIN sel' = DOMAIN sel /\ sel'.pc = "pack" /\ sel'.queue = sel.queue
      /\ sel'.dependencies = sel.dependencies /\ sel'.entries = sel.entries /\ sel'.todo = sel.todo
      /\ sel'.entry = sel.entry /\ sel'.read = sel.read /\ sel'.prepared = sel.prepared
      /\ sel'.artifacts = sel.artifacts /\ sel'.keys = sel.keys /\ sel'.items = sel.items
  BY ONLY <1>1 DEF Idle
<1>3. Demands' = Demands /\ request' = request
  BY <1>1 DEF Demands, Keep
<1>4. SelectionTypes'
  BY <1>2 DEF Inv, Types, SelectionTypes
<1>5. ReadInv'
  BY <1>1, <1>2 DEF Inv, ReadInv
<1>6. EntriesInv'
  BY <1>1, <1>2, <1>3 DEF Inv, EntriesInv
<1>7. PreparedInv'
  BY <1>2 DEF Inv, PreparedInv
<1>8. PackedInv'
  <2>1. sel.items = <<>> /\ sel.keys = {}
    BY <1>1 DEF Inv, PackedInv
  <2>2. DOMAIN sel.items = {}
    BY <2>1
  <2>3. \A e \in sel.entries : e.importance = Required => Rest(e)
    BY <1>1 DEF Inv, PreparedInv
  <2>4. \A e \in sel.entries : e.importance = Required => Rest(e)'
    BY <1>2, <2>3 DEF Rest
  <2> QED BY <1>2, <2>1, <2>2, <2>4 DEF PackedInv
<1>9. BudgetInv'
  BY <1>1, <1>2, <1>3 DEF Inv, BudgetInv
<1>10. OtherTypes' /\ CacheInv'
  BY <1>1, InvParts, OtherSame, CacheSame DEF Keep
<1> QED BY <1>4, <1>5, <1>6, <1>7, <1>8, <1>9, <1>10, InvParts, PTL DEF SelInv

\* A write during a read changes nothing of the selection but how the metadata compares.
LEMMA WrittenInv ==
    ASSUME Inv, sel.read.stage # "stat", NEW m \in {"changed", "evaded"},
           sel' = [sel EXCEPT !.read.metadata = m], OtherTypes', UNCHANGED <<request, cache, durable>>
    PROVE  Inv'
<1>1. /\ DOMAIN sel = DOMAIN Idle /\ DOMAIN sel.read = DOMAIN NoRead
      /\ sel.read.tries \in 0 .. Limits.retries /\ sel.pc = "prepare"
  BY DEF Inv, Types, SelectionTypes, ReadInv
<1>2. PICK read : read = [sel.read EXCEPT !.metadata = m]
  OBVIOUS
<1>3. sel' = [sel EXCEPT !.read = read]
  BY ONLY <1>1, <1>2, sel' = [sel EXCEPT !.read.metadata = m] DEF Idle, NoRead
<1>4. /\ DOMAIN read = DOMAIN NoRead /\ read.tries = sel.read.tries /\ read.metadata = m
      /\ read.stage = sel.read.stage /\ read.first = sel.read.first /\ read.rest = sel.read.rest
  BY ONLY <1>1, <1>2 DEF NoRead
<1>5. sel'.read = read /\ sel'.entry = sel.entry /\ sel'.todo = sel.todo /\ sel'.pc = sel.pc
  BY ONLY <1>1, <1>3 DEF Idle
<1>6. ReadInv'
  BY <1>4, <1>5 DEF Inv, ReadInv
<1> QED BY <1>1, <1>3, <1>4, <1>6, ReadStepInv

\* One that keeps size and time of modification.
LEMMA EvadingWriteInv == Inv /\ EvadingWrite => Inv'
<1> SUFFICES ASSUME Inv, EvadingWrite PROVE Inv'
  OBVIOUS
<1>1. PICK p \in request.writable, t \in Texts :
        /\ sel.read.stage # "stat" /\ disk' = [disk EXCEPT ![p] = t]
        /\ sel' = [sel EXCEPT !.read.metadata = "evaded"]
  BY DEF EvadingWrite, ReadUnderWay
<1>2. UNCHANGED <<request, cache, durable, run, crashes>>
  BY DEF EvadingWrite
<1>3. disk \in [Paths -> Texts \cup NoText] /\ p \in Paths
  BY RequestTyped DEF Inv, Types
<1>4. OtherTypes'
  BY <1>1, <1>2, <1>3, InvParts DEF OtherTypes
<1> QED BY <1>1, <1>2, <1>4, WrittenInv

\* A write changes the metadata for the read that it meets, and for nothing else.
LEMMA WriteInv == Inv /\ Write => Inv'
<1> SUFFICES ASSUME Inv, Write PROVE Inv'
  OBVIOUS
<1>1. PICK p \in request.writable, t \in Texts \cup {"MISSING"} :
        /\ disk' = [disk EXCEPT ![p] = t]
        /\ sel' = IF sel.read.stage # "stat" /\ Entry.path = p
                  THEN [sel EXCEPT !.read.metadata = "changed"] ELSE sel
  BY DEF Write, ReadUnderWay
<1>2. UNCHANGED <<request, cache, durable, run, crashes>>
  BY DEF Write
<1>3. disk \in [Paths -> Texts \cup NoText] /\ p \in Paths /\ t \in Texts \cup NoText
  BY RequestTyped DEF Inv, Types, NoText
<1>4. OtherTypes'
  BY <1>1, <1>2, <1>3, InvParts DEF OtherTypes
<1>5. CASE sel.read.stage # "stat" /\ Entry.path = p
  <2>1. sel' = [sel EXCEPT !.read.metadata = "changed"]
    BY <1>1, <1>5
  <2> QED BY <1>2, <1>4, <1>5, <2>1, WrittenInv
<1>6. CASE ~(sel.read.stage # "stat" /\ Entry.path = p)
  <2>1. sel' = sel
    BY <1>1, <1>6
  <2>2. sel.read.stage # "stat" => sel.entry.path \in Paths /\ sel.entry.path # p
    BY <1>6 DEF Inv, ReadInv, Entry
  <2>3. sel.read.stage # "stat" => disk'[sel.entry.path] = disk[sel.entry.path]
    BY <1>1, <1>3, <2>2
  <2>4. ReadInv'
    <3>1. sel.read.stage = "rest" => disk'[sel.entry.path] = disk[sel.entry.path]
      BY <2>3
    <3> QED BY <2>1, <3>1 DEF Inv, ReadInv
  <2>5. Demands' = Demands
    BY <1>2 DEF Demands
  <2>6. SelectionTypes' /\ EntriesInv' /\ PreparedInv' /\ PackedInv' /\ BudgetInv'
    <3>1. SelectionTypes'
      BY <2>1 DEF Inv, Types, SelectionTypes
    <3>2. EntriesInv'
      BY <1>2, <2>1, <2>5 DEF Inv, EntriesInv
    <3>3. PreparedInv'
      BY <2>1 DEF Inv, PreparedInv, Rest
    <3>4. PackedInv'
      BY <2>1 DEF Inv, PackedInv, Rest
    <3>5. BudgetInv'
      BY <1>2, <2>1 DEF Inv, BudgetInv
    <3> QED BY <3>1, <3>2, <3>3, <3>4, <3>5
  <2>7. CacheInv'
    BY <1>2, InvParts, CacheSame
  <2> QED BY <1>4, <2>4, <2>6, <2>7, InvParts, PTL DEF SelInv
<1> QED BY <1>5, <1>6

-----------------------------------------------------------------------------
(* The package.                                                             *)

\* The first manifest is recorded while no package is kept.
LEMMA PersistInv == Inv /\ Persist => Inv'
<1> SUFFICES ASSUME Inv, Persist PROVE Inv'
  OBVIOUS
<1>1. /\ durable = None /\ UNCHANGED <<disk, request, sel, cache, run, crashes>>
  BY DEF Persist
<1>2. cache = None
  BY <1>1 DEF Inv, CacheInv
<1>3. CacheInv'
  BY <1>1, <1>2 DEF CacheInv, PackageIsRecorded, RequiredDelivered
<1>4. Demands' = Demands
  BY <1>1 DEF Demands
<1>5. OtherTypes'
  BY <1>1, InvParts, OtherSame
<1>6. SelectionTypes'
  BY <1>1 DEF Inv, Types, SelectionTypes
<1>7. ReadInv'
  BY <1>1 DEF Inv, ReadInv
<1>8. EntriesInv'
  BY <1>1, <1>4 DEF Inv, EntriesInv
<1>9. PreparedInv'
  BY <1>1 DEF Inv, PreparedInv, Rest
<1>10. PackedInv'
  BY <1>1 DEF Inv, PackedInv, Rest
<1>11. BudgetInv'
  BY <1>1 DEF Inv, BudgetInv
<1> QED BY <1>3, <1>5, <1>6, <1>7, <1>8, <1>9, <1>10, <1>11, InvParts, PTL DEF SelInv

\* A package that holds what every required entry needs delivers what is demanded.
LEMMA SuppliedDelivers ==
    ASSUME NEW items \in Seq(Item), NEW d, NEW e, Meets(e, d), Supplied(items, e),
           \A n \in DOMAIN items : Sane(items[n]),
           \A m, n \in DOMAIN items : items[m].ref = items[n].ref => m = n
    PROVE  /\ Delivers(items, d.ref) # {}
           /\ d.complete => \A i \in Delivers(items, d.ref) : i.state = "COMPLETE"
<1>1. e.ref = d.ref /\ (d.complete => e.complete)
  BY DEF Meets
<1>2. \A n \in DOMAIN items : items[n].ref \in Nat
  <2>1. \A i \in Item : i.ref \in Nat
    BY DEF Item
  <2> QED BY <2>1
<1>3. PICK n \in DOMAIN items :
        /\ items[n].ref = e.ref
        /\ \/ Stands(items[n], e)
           \/ /\ items[n].state = "REFERENCED"
              /\ \E m \in DOMAIN items : /\ items[m].ref = items[n].of /\ items[m].state # "REFERENCED"
                                         /\ e.complete => items[m].state = "COMPLETE"
  BY DEF Supplied
<1>4. ASSUME NEW k \in DOMAIN items, items[k].state # "REFERENCED",
             \/ items[k].ref = d.ref
             \/ \E m \in DOMAIN items : items[m].ref = d.ref /\ items[m].of = items[k].ref
      PROVE  items[k] \in Delivers(items, d.ref)
  BY <1>4 DEF Delivers
<1>5. ASSUME NEW i \in Delivers(items, d.ref)
      PROVE  \E k \in DOMAIN items :
                /\ i = items[k] /\ items[k].state # "REFERENCED"
                /\ \/ k = n
                   \/ items[n].of = items[k].ref
  BY <1>1, <1>3, <1>5 DEF Delivers
<1>6. CASE Stands(items[n], e)
  <2>1. /\ items[n].state # "REFERENCED" /\ (e.complete => items[n].state = "COMPLETE")
    BY <1>6 DEF Stands
  <2>2. items[n].of = None
    BY <2>1 DEF Sane
  <2>3. \A k \in DOMAIN items : items[n].of # items[k].ref
    BY <1>2, <2>2, SelectionAssumption
  <2>4. \A i \in Delivers(items, d.ref) : i = items[n]
    BY <1>5, <2>3
  <2> QED BY <1>1, <1>3, <1>4, <2>1, <2>4
<1>7. CASE items[n].state = "REFERENCED"
  <2>1. PICK m \in DOMAIN items : /\ items[m].ref = items[n].of /\ items[m].state # "REFERENCED"
                                  /\ e.complete => items[m].state = "COMPLETE"
    BY <1>3, <1>7 DEF Stands
  <2>2. items[m] \in Delivers(items, d.ref)
    BY <1>1, <1>3, <1>4, <2>1
  <2>3. \A i \in Delivers(items, d.ref) : i = items[m]
    BY <1>5, <1>7, <2>1
  <2> QED BY <1>1, <2>1, <2>2, <2>3
<1> QED BY <1>3, <1>6, <1>7

\* A package is kept only when its manifest is the one on record.
LEMMA KeepPackageInv == Inv /\ KeepPackage => Inv'
<1> SUFFICES ASSUME Inv, KeepPackage PROVE Inv'
  OBVIOUS
<1>1. CASE Fail(TRUE)
  BY <1>1, FailInv
<1>2. CASE /\ Manifest = durable /\ cache' = sel.items /\ sel' = Idle
           /\ UNCHANGED <<disk, request, durable, run, crashes>>
  <2>1. SelInv'
    <3>1. (sel = Idle)'
      BY <1>2
    <3> QED BY <3>1, IdleFresh, FreshInv, PTL
  <2>2. sel.items \in Seq(Item)
    BY DEF Inv, Types, SelectionTypes
  <2>3. OtherTypes'
    BY <1>2, <2>2, InvParts DEF OtherTypes
  <2>4. sel.pc = "pack" /\ sel.prepared = <<>> /\ durable # None
    BY DEF KeepPackage, Selected
  <2>5. durable.items = [n \in DOMAIN sel.items |-> ManifestItem(sel.items[n])]
    BY <1>2 DEF Manifest
  <2>6. PackageIsRecorded'
    BY <1>2, <2>5 DEF PackageIsRecorded
  <2>7. \A e \in sel.entries : e.importance = Required => Supplied(sel.items, e)
    <3>1. DOMAIN sel.prepared = {}
      BY <2>4
    <3> QED BY <2>4, <3>1 DEF Inv, PackedInv, Rest
  <2>8. Demands' = Demands
    BY <1>2 DEF Demands
  <2>9. RequiredDelivered'
    <3>1. ASSUME NEW d \in Demands
          PROVE  /\ Delivers(sel.items, d.ref) # {}
                 /\ d.complete => \A i \in Delivers(sel.items, d.ref) : i.state = "COMPLETE"
      <4>1. PICK e \in sel.entries : Meets(e, d)
        BY <2>4, <3>1 DEF Inv, EntriesInv
      <4>2. Supplied(sel.items, e)
        BY <2>7, <4>1 DEF Meets
      <4>3. /\ \A n \in DOMAIN sel.items : Sane(sel.items[n])
            /\ \A m, n \in DOMAIN sel.items : sel.items[m].ref = sel.items[n].ref => m = n
        BY DEF Inv, PackedInv
      <4> QED BY <2>2, <4>1, <4>2, <4>3, SuppliedDelivers
    <3> QED BY <1>2, <2>8, <3>1 DEF RequiredDelivered
  <2>10. CacheInv'
    BY <1>2, <2>4, <2>6, <2>9 DEF CacheInv
  <2> QED BY <2>1, <2>3, <2>10, InvParts, PTL
<1> QED BY <1>1, <1>2 DEF KeepPackage


\* What the invariant says while items are packed.
Packing ==
    /\ DOMAIN sel = DOMAIN Idle /\ sel.pc = "pack" /\ sel.todo = {}
    /\ sel.prepared \in Seq(Item) /\ sel.items \in Seq(Item)
    /\ sel.read.stage = "stat" /\ request.control <= MaxAgentOutput

\* It is what the invariant says then.
LEMMA AtPack ==
    ASSUME Inv, sel.pc = "pack"
    PROVE  Packing
BY DEF Inv, Types, SelectionTypes, ReadInv, EntriesInv, BudgetInv, Packing

\* A step of the packing that keeps what is said of items, keys and limits.
LEMMA PackStepInv ==
    ASSUME Inv, sel.pc = "pack", Keep,
           /\ DOMAIN sel' = DOMAIN sel /\ sel'.pc = sel.pc /\ sel'.queue = sel.queue
           /\ sel'.dependencies = sel.dependencies /\ sel'.entries = sel.entries /\ sel'.todo = sel.todo
           /\ sel'.entry = sel.entry /\ sel'.read = sel.read /\ sel'.artifacts = sel.artifacts,
           sel'.prepared \in Seq(Item), sel'.items \in Seq(Item), \A k \in sel'.keys : k.ref \in Nat,
           PreparedInv', PackedInv', BudgetInv'
    PROVE  Inv'
<1>1. Demands' = Demands /\ request' = request
  BY DEF Demands, Keep
<1>2. SelectionTypes'
  BY DEF Inv, Types, SelectionTypes
<1>3. ReadInv'
  BY AtPack DEF Inv, ReadInv, Packing
<1>4. EntriesInv'
  BY <1>1 DEF Inv, EntriesInv
<1>5. OtherTypes' /\ CacheInv'
  BY InvParts, OtherSame, CacheSame DEF Keep
<1> QED BY <1>2, <1>3, <1>4, <1>5, InvParts, PTL DEF SelInv

\* The first prepared item goes, the others stay in order.
LEMMA TailPrepared ==
    ASSUME Inv, sel.pc = "pack", sel.prepared # <<>>, sel'.prepared = Tail(sel.prepared), sel'.pc = sel.pc
    PROVE  /\ Tail(sel.prepared) \in Seq(Item) /\ Head(sel.prepared) \in Item
           /\ Sane(Head(sel.prepared)) /\ Head(sel.prepared).state # "REFERENCED"
           /\ PreparedInv'
           /\ \A n \in DOMAIN Tail(sel.prepared) :
                 /\ \E m \in DOMAIN sel.prepared : Tail(sel.prepared)[n] = sel.prepared[m]
                 /\ Tail(sel.prepared)[n].ref # Head(sel.prepared).ref
                 /\ Head(sel.prepared).importance <= Tail(sel.prepared)[n].importance
           /\ \A m \in DOMAIN sel.items : sel.items[m].ref # Head(sel.prepared).ref
           /\ \A e : Rest(e) => Stands(Head(sel.prepared), e) \/ Rest(e)'
<1>1. sel.prepared \in Seq(Item)
  BY DEF Inv, Types, SelectionTypes
<1>2. PICK s : s = sel.prepared
  OBVIOUS
<1>3. PICK L : L = Len(s)
  OBVIOUS
<1>4. L \in Nat /\ L >= 1 /\ DOMAIN s = 1 .. L /\ Head(s) = s[1] /\ s[1] \in Item
  BY <1>1, <1>2, <1>3
<1>5. PICK r : r = Tail(s)
  OBVIOUS
<1>6. r \in Seq(Item) /\ DOMAIN r = 1 .. L - 1 /\ \A n \in 1 .. L - 1 : r[n] = s[n + 1]
  BY <1>1, <1>2, <1>3, <1>4, <1>5
<1>7. \A n \in 1 .. L - 1 : n + 1 \in 1 .. L /\ 1 < n + 1
  BY <1>4
<1>8. 1 \in 1 .. L
  BY <1>4
<1>9. /\ \A n \in 1 .. L : Sane(s[n]) /\ s[n].state # "REFERENCED"
      /\ \A m, n \in 1 .. L : m < n => s[m].ref # s[n].ref /\ s[m].importance <= s[n].importance
  BY <1>2, <1>4 DEF Inv, PreparedInv
<1>10. sel'.prepared = r
  BY <1>2, <1>5
<1>11. \A m, n \in 1 .. L - 1 : m < n => m + 1 < n + 1
  BY <1>4
<1>12. PreparedInv'
  <2>1. \A n \in DOMAIN r : Sane(r[n]) /\ r[n].state # "REFERENCED"
    BY <1>6, <1>7, <1>9
  <2>2. \A m, n \in DOMAIN r : m < n => r[m].ref # r[n].ref /\ r[m].importance <= r[n].importance
    BY <1>6, <1>7, <1>9, <1>11
  <2> QED BY <1>10, <2>1, <2>2 DEF PreparedInv
<1>13. \A n \in DOMAIN r : /\ \E m \in DOMAIN s : r[n] = s[m]
                           /\ r[n].ref # s[1].ref /\ s[1].importance <= r[n].importance
  BY <1>4, <1>6, <1>7, <1>8, <1>9
<1>14. \A m \in DOMAIN sel.items : sel.items[m].ref # s[1].ref
  BY <1>2, <1>4, <1>8 DEF Inv, PackedInv
<1>15. ASSUME NEW e, Rest(e)
       PROVE  Stands(s[1], e) \/ Rest(e)'
  <2>1. PICK n \in 1 .. L : Stands(s[n], e)
    BY <1>2, <1>4, <1>15 DEF Rest
  <2>2. CASE n = 1
    BY <2>1, <2>2
  <2>3. CASE n # 1
    <3>1. n - 1 \in 1 .. L - 1 /\ (n - 1) + 1 = n
      BY <1>4, <2>3
    <3>2. r[n - 1] = s[n]
      BY <1>6, <3>1
    <3>3. n - 1 \in DOMAIN r /\ Stands(r[n - 1], e)
      BY <1>6, <2>1, <3>1, <3>2
    <3> QED BY <1>10, <3>3 DEF Rest
  <2> QED BY <2>2, <2>3
<1> QED BY <1>2, <1>4, <1>5, <1>6, <1>8, <1>9, <1>12, <1>13, <1>14, <1>15

\* An item that is not required is left out of the package: nothing required is left.
LEMMA PackDropInv ==
    ASSUME Inv, sel.pc = "pack", sel.prepared # <<>>, Keep,
           Head(sel.prepared).importance # Required,
           /\ DOMAIN sel' = DOMAIN sel /\ sel'.pc = sel.pc /\ sel'.queue = sel.queue
           /\ sel'.dependencies = sel.dependencies /\ sel'.entries = sel.entries /\ sel'.todo = sel.todo
           /\ sel'.entry = sel.entry /\ sel'.read = sel.read /\ sel'.artifacts = sel.artifacts,
           sel'.prepared = Tail(sel.prepared), sel'.items = sel.items, \A k \in sel'.keys : k.ref \in Nat
    PROVE  Inv'
<1>1. PICK h, r : h = Head(sel.prepared) /\ r = Tail(sel.prepared)
  OBVIOUS
<1>2. /\ r \in Seq(Item) /\ h \in Item /\ PreparedInv'
      /\ \A n \in DOMAIN r :
            /\ \E m \in DOMAIN sel.prepared : r[n] = sel.prepared[m]
            /\ h.importance <= r[n].importance
      /\ \A e : Rest(e) => Stands(h, e) \/ Rest(e)'
  BY <1>1, TailPrepared
<1>3. \A i \in Item : i.importance \in Nat
  BY DEF Item
<1>4. \A n \in DOMAIN r : r[n].importance # Required
  <2>1. \A n \in DOMAIN r : r[n] \in Item
    BY <1>2
  <2> QED BY <1>1, <1>2, <1>3, <2>1 DEF Required
<1>5. sel.items \in Seq(Item)
  BY DEF Inv, Types, SelectionTypes
<1>6. PackedInv'
  <2>1. /\ \A n \in DOMAIN sel.items : Sane(sel.items[n])
        /\ \A m, n \in DOMAIN sel.items : sel.items[m].ref = sel.items[n].ref => m = n
    BY DEF Inv, PackedInv
  <2>2. \A m \in DOMAIN sel.items, n \in DOMAIN r : sel.items[m].ref # r[n].ref
    BY <1>2 DEF Inv, PackedInv
  <2>3. ASSUME NEW e \in sel.entries, e.importance = Required
        PROVE  Rest(e)' \/ Supplied(sel.items, e)
    <3>1. Rest(e) \/ Supplied(sel.items, e)
      BY <2>3 DEF Inv, PackedInv
    <3>2. ~Stands(h, e)
      BY <1>1 DEF Stands
    <3> QED BY <1>2, <3>1, <3>2
  <2> QED BY <1>1, <1>4, <2>1, <2>2, <2>3 DEF PackedInv
<1>7. BudgetInv'
  BY DEF Inv, BudgetInv, Keep
<1> QED BY <1>1, <1>2, <1>5, <1>6, <1>7, PackStepInv

\* An item joins the package, as it is or as a reference to the one with its digest.
LEMMA PackAppendInv ==
    ASSUME Inv, sel.pc = "pack", sel.prepared # <<>>, Keep, NEW packed, NEW same,
           same = {k \in sel.keys : k.digest = Head(sel.prepared).digest /\ k.class = Head(sel.prepared).class},
           /\ same = {} => packed = Head(sel.prepared)
           /\ same # {} => packed.state = "REFERENCED" /\ \E k \in same : packed.of = k.ref,
           /\ packed \in Item /\ Sane(packed)
           /\ packed.ref = Head(sel.prepared).ref /\ packed.importance = Head(sel.prepared).importance,
           \A k \in sel'.keys : \/ k \in sel.keys
                                \/ same = {} /\ k.ref = packed.ref /\ k.digest = packed.digest,
           /\ DOMAIN sel' = DOMAIN sel /\ sel'.pc = sel.pc /\ sel'.queue = sel.queue
           /\ sel'.dependencies = sel.dependencies /\ sel'.entries = sel.entries /\ sel'.todo = sel.todo
           /\ sel'.entry = sel.entry /\ sel'.read = sel.read /\ sel'.artifacts = sel.artifacts,
           sel'.prepared = Tail(sel.prepared), sel'.items = Append(sel.items, packed),
           ~Full(packed), ~(Retained(sel.items) + packed.retained > ItemBudget)
    PROVE  Inv'
<1>1. PICK h, r : h = Head(sel.prepared) /\ r = Tail(sel.prepared)
  OBVIOUS
<1>2. /\ r \in Seq(Item) /\ h \in Item /\ Sane(h) /\ h.state # "REFERENCED" /\ PreparedInv'
      /\ \A n \in DOMAIN r :
            /\ \E m \in DOMAIN sel.prepared : r[n] = sel.prepared[m]
            /\ r[n].ref # h.ref
      /\ \A m \in DOMAIN sel.items : sel.items[m].ref # h.ref
      /\ \A e : Rest(e) => Stands(h, e) \/ Rest(e)'
  BY <1>1, TailPrepared
<1>3. /\ sel.items \in Seq(Item) /\ sel.prepared \in Seq(Item) /\ request.control <= MaxAgentOutput
      /\ \A k \in sel.keys : k.ref \in Nat
  BY AtPack DEF Packing, Inv, Types, SelectionTypes
<1>5. /\ packed \in Item /\ Sane(packed) /\ packed.ref = h.ref /\ packed.importance = h.importance
      /\ same = {} => packed = h
      /\ same # {} => packed.state = "REFERENCED" /\ \E k \in same : packed.of = k.ref
  BY <1>1
<1>6. PICK L, items : L = Len(sel.items) /\ items = Append(sel.items, packed)
  OBVIOUS
<1>7. /\ L \in Nat /\ DOMAIN sel.items = 1 .. L /\ DOMAIN items = 1 .. L + 1 /\ items \in Seq(Item)
      /\ items[L + 1] = packed /\ \A n \in 1 .. L : items[n] = sel.items[n]
      /\ Len(items) = L + 1
  BY <1>3, <1>5, <1>6
<1>8. /\ \A n \in 1 .. L + 1 : n \in 1 .. L \/ n = L + 1
      /\ \A n \in 1 .. L : n \in 1 .. L + 1
      /\ L + 1 \in 1 .. L + 1
  BY <1>7
<1>9. sel'.items = items /\ sel'.prepared = r
  BY <1>1, <1>6
<1>10. /\ \A n \in 1 .. L : Sane(items[n])
       /\ \A m, n \in 1 .. L : items[m].ref = items[n].ref => m = n
       /\ \A n \in 1 .. L : items[n].ref # packed.ref
       /\ \A m \in 1 .. L, n \in DOMAIN r : items[m].ref # r[n].ref
  <2>1. /\ \A n \in DOMAIN sel.items : Sane(sel.items[n])
        /\ \A m, n \in DOMAIN sel.items : sel.items[m].ref = sel.items[n].ref => m = n
    BY DEF Inv, PackedInv
  <2>2. \A m \in DOMAIN sel.items, n \in DOMAIN r : sel.items[m].ref # r[n].ref
    BY <1>2 DEF Inv, PackedInv
  <2>3. \A n \in 1 .. L : n \in DOMAIN sel.items /\ items[n] = sel.items[n]
    BY <1>7
  <2>4. \A n \in 1 .. L : items[n].ref # packed.ref
    BY <1>2, <1>5, <2>3
  <2>5. \A n \in 1 .. L : Sane(items[n])
    BY <2>1, <2>3
  <2>6. \A m, n \in 1 .. L : items[m].ref = items[n].ref => m = n
    BY <2>1, <2>3
  <2>7. \A m \in 1 .. L, n \in DOMAIN r : items[m].ref # r[n].ref
    BY <2>2, <2>3
  <2> QED BY <2>4, <2>5, <2>6, <2>7
<1>11. /\ \A n \in DOMAIN items : Sane(items[n])
       /\ \A m, n \in DOMAIN items : items[m].ref = items[n].ref => m = n
       /\ \A m \in DOMAIN items, n \in DOMAIN r : items[m].ref # r[n].ref
  <2>1. \A n \in DOMAIN items : n \in 1 .. L \/ (n = L + 1 /\ items[n] = packed)
    BY <1>7, <1>8
  <2>2. \A n \in DOMAIN items : Sane(items[n])
    BY <1>5, <1>10, <2>1
  <2>3. ASSUME NEW m \in DOMAIN items, NEW n \in DOMAIN items, items[m].ref = items[n].ref
        PROVE  m = n
    <3>1. CASE m \in 1 .. L
      BY <1>10, <2>1, <2>3, <3>1
    <3>2. CASE m = L + 1 /\ items[m] = packed
      BY <1>10, <2>1, <2>3, <3>2
    <3> QED BY <2>1, <3>1, <3>2
  <2>4. ASSUME NEW m \in DOMAIN items, NEW n \in DOMAIN r
        PROVE  items[m].ref # r[n].ref
    <3>1. CASE m \in 1 .. L
      BY <1>10, <3>1
    <3>2. CASE items[m] = packed
      BY <1>2, <1>5, <3>2
    <3> QED BY <2>1, <3>1, <3>2
  <2> QED BY <2>2, <2>3, <2>4
\* A representative in the package
<1>12. ASSUME NEW k \in sel.keys
       PROVE  \/ \A n \in DOMAIN sel.prepared : sel.prepared[n].importance # Required
              \/ \E n \in 1 .. L : /\ items[n].ref = k.ref /\ items[n].state # "REFERENCED"
                                   /\ items[n].digest = k.digest
  <2>1. \/ \A n \in DOMAIN sel.prepared : sel.prepared[n].importance # Required
        \/ \E n \in 1 .. L : /\ sel.items[n].ref = k.ref /\ sel.items[n].state # "REFERENCED"
                             /\ sel.items[n].digest = k.digest
    BY <1>7, <1>12 DEF Inv, PackedInv
  <2> QED BY <1>7, <2>1
<1>13. ASSUME NEW k \in sel'.keys
       PROVE  /\ k.ref \in Nat
              /\ \/ \A n \in DOMAIN r : r[n].importance # Required
                 \/ \E n \in DOMAIN items : /\ items[n].ref = k.ref /\ items[n].state # "REFERENCED"
                                            /\ items[n].digest = k.digest
  <2>1. CASE k \in sel.keys
    <3>1. CASE \A n \in DOMAIN sel.prepared : sel.prepared[n].importance # Required
      BY <1>2, <1>3, <2>1, <3>1
    <3>2. CASE \E n \in 1 .. L : /\ items[n].ref = k.ref /\ items[n].state # "REFERENCED"
                                 /\ items[n].digest = k.digest
      BY <1>3, <1>7, <1>8, <2>1, <3>2
    <3> QED BY <1>12, <2>1, <3>1, <3>2
  <2>2. CASE k \notin sel.keys
    <3>1. same = {}
      BY <1>13, <2>2
    <3>2. k.ref = packed.ref /\ k.digest = packed.digest
      BY <1>13, <2>2
    <3>3. packed.ref \in Nat
      BY <1>5, ZenonT(40) DEF Item
    <3>4. packed.state # "REFERENCED"
      BY <1>2, <1>5, <3>1
    <3> QED BY <1>7, <1>8, <3>2, <3>3, <3>4
  <2> QED BY <2>1, <2>2
<1>14. ASSUME NEW e, Supplied(sel.items, e)
       PROVE  Supplied(items, e)
  <2>1. PICK n \in 1 .. L :
          /\ sel.items[n].ref = e.ref
          /\ \/ Stands(sel.items[n], e)
             \/ /\ sel.items[n].state = "REFERENCED"
                /\ \E m \in 1 .. L :
                     /\ sel.items[m].ref = sel.items[n].of /\ sel.items[m].state # "REFERENCED"
                     /\ e.complete => sel.items[m].state = "COMPLETE"
    BY <1>7, <1>14 DEF Supplied
  <2>2. /\ n \in DOMAIN items /\ items[n] = sel.items[n]
        /\ \A m \in 1 .. L : m \in DOMAIN items /\ items[m] = sel.items[m]
    BY <1>7, <1>8
  <2> QED BY <2>1, <2>2 DEF Supplied
<1>15. ASSUME NEW e, Stands(h, e)
       PROVE  Supplied(items, e)
  <2>1. h.ref = e.ref /\ h.importance = Required /\ (e.complete => h.state = "COMPLETE")
    BY <1>15 DEF Stands
  <2>2. CASE same = {}
    <3>1. items[L + 1] = h /\ L + 1 \in DOMAIN items
      BY <1>5, <1>7, <1>8, <2>2
    <3> QED BY <1>15, <2>1, <3>1 DEF Supplied
  <2>3. CASE same # {}
    <3>1. PICK k \in same : packed.of = k.ref /\ packed.state = "REFERENCED"
      BY <1>5, <2>3
    <3>2. k \in sel.keys /\ k.digest = h.digest
      BY <1>1, <3>1
    <3>3. 1 \in DOMAIN sel.prepared /\ sel.prepared[1] = h
      BY <1>1, <1>3
    <3>4. PICK n \in 1 .. L : /\ items[n].ref = k.ref /\ items[n].state # "REFERENCED"
                              /\ items[n].digest = k.digest
      BY <1>12, <2>1, <3>2, <3>3
    <3>5. e.complete => items[n].state = "COMPLETE"
      <4>1. PICK s \in Texts : h.digest = Text[s].digest /\ (h.state = "COMPLETE" <=> Text[s].safe <= Limits.item)
        BY <1>2 DEF Sane, Sized
      <4>2. PICK t \in Texts : /\ items[n].digest = Text[t].digest
                               /\ items[n].state = "COMPLETE" <=> Text[t].safe <= Limits.item
        BY <1>10, <3>4 DEF Sane, Sized
      <4>3. Text[s].safe = Text[t].safe
        BY <3>2, <3>4, <4>1, <4>2, SelectionAssumption
      <4> QED BY <2>1, <4>1, <4>2, <4>3
    <3>6. n \in DOMAIN items /\ L + 1 \in DOMAIN items /\ items[L + 1] = packed
      BY <1>7, <1>8, <3>4
    <3> QED BY <1>5, <2>1, <3>1, <3>4, <3>5, <3>6 DEF Supplied
  <2> QED BY <2>2, <2>3
<1>16. ASSUME NEW e \in sel.entries, e.importance = Required
       PROVE  Rest(e)' \/ Supplied(items, e)
  <2>1. Rest(e) \/ Supplied(sel.items, e)
    BY <1>16 DEF Inv, PackedInv
  <2> QED BY <1>2, <1>14, <1>15, <2>1
<1>17. PackedInv'
  <2>1. \A k \in sel'.keys :
          \/ \A n \in DOMAIN r : r[n].importance # Required
          \/ \E n \in DOMAIN items : /\ items[n].ref = k.ref /\ items[n].state # "REFERENCED"
                                     /\ items[n].digest = k.digest
    BY <1>13
  <2>2. \A e \in sel.entries : e.importance = Required => Rest(e)' \/ Supplied(items, e)
    BY <1>16
  <2>3. sel'.pc = "pack"
    OBVIOUS
  <2>4. \A e \in sel'.entries : e.importance = Required => Rest(e)' \/ Supplied(sel'.items, e)
    BY <1>9, <2>2
  <2>5. /\ \A n \in DOMAIN sel'.items : Sane(sel'.items[n])
        /\ \A m, n \in DOMAIN sel'.items : sel'.items[m].ref = sel'.items[n].ref => m = n
        /\ \A m \in DOMAIN sel'.items, n \in DOMAIN sel'.prepared : sel'.items[m].ref # sel'.prepared[n].ref
    BY <1>9, <1>11
  <2>6. \A k \in sel'.keys :
          \/ \A n \in DOMAIN sel'.prepared : sel'.prepared[n].importance # Required
          \/ \E n \in DOMAIN sel'.items : /\ sel'.items[n].ref = k.ref /\ sel'.items[n].state # "REFERENCED"
                                          /\ sel'.items[n].digest = k.digest
    BY <1>9, <2>1
  <2> QED BY ONLY <2>3, <2>4, <2>5, <2>6 DEF PackedInv
<1>18. BudgetInv'
  <2>1. /\ Retained(sel.items) \in Nat /\ packed.retained \in Nat
        /\ Retained(items) = Retained(sel.items) + packed.retained
    BY <1>3, <1>5, <1>6, RetainedMore
  <2>2. request.control \in Nat
    BY RequestTyped DEF Inv, Types
  <2>3. PICK a, b : a = Limits.total /\ b = MaxAgentOutput - request.control
    OBVIOUS
  <2>4. a \in Nat /\ b \in Nat
    <3>1. Limits.total \in Nat /\ MaxAgentOutput \in Nat
      BY SelectionAssumption
    <3> QED BY <1>3, <2>2, <2>3, <3>1
  <2>5. ItemBudget <= a /\ ItemBudget <= b /\ ItemBudget \in Nat
    <3>1. {a, b} \subseteq Nat /\ {a, b} # {}
      BY <2>4
    <3>2. Min({a, b}) \in {a, b} /\ \A x \in {a, b} : Min({a, b}) <= x
      BY <3>1, MinNatural
    <3>3. ItemBudget = Min({a, b})
      BY <2>3 DEF ItemBudget
    <3> QED BY <2>4, <3>2, <3>3
  <2>6. Retained(items) <= a /\ Retained(items) <= b
    BY <2>1, <2>4, <2>5
  <2>7. L + 1 <= 63
    <3>1. PICK c : c = Limits.items
      OBVIOUS
    <3>2. {c, 63} \subseteq Nat /\ {c, 63} # {}
      BY <3>1, SelectionAssumption
    <3>3. Min({c, 63}) \in {c, 63} /\ \A x \in {c, 63} : Min({c, 63}) <= x
      BY <3>2, MinNatural
    <3>4. ~(L >= Min({c, 63}))
      BY <1>6, <3>1 DEF Full
    <3> QED BY <1>7, <3>2, <3>3, <3>4
  <2>8. request.control + Retained(items) <= MaxAgentOutput
    BY <2>1, <2>2, <2>3, <2>6, SelectionAssumption, SMTT(30)
  <2>9. Retained(items) <= Limits.total /\ Len(items) <= 63
    BY <1>7, <2>3, <2>6, <2>7
  <2> QED BY <1>3, <1>9, <2>8, <2>9 DEF BudgetInv, Keep
<1>19. sel'.prepared \in Seq(Item) /\ sel'.items \in Seq(Item) /\ \A k \in sel'.keys : k.ref \in Nat
  BY <1>2, <1>7, <1>9, <1>13
<1> QED BY <1>2, <1>17, <1>18, <1>19, PackStepInv


\* One prepared item is packed, as itself or as a reference, or left out.
LEMMA PackInv == Inv /\ Pack => Inv'
<1> SUFFICES ASSUME Inv, Pack PROVE Inv'
  OBVIOUS
<1> DEFINE item == Head(sel.prepared)
           same == {k \in sel.keys : k.digest = item.digest /\ k.class = item.class}
           packed == IF same = {} THEN item
                     ELSE [item EXCEPT !.state = "REFERENCED", !.retained = 0,
                                       !.of = (CHOOSE k \in same : TRUE).ref]
           keys == IF same = {} THEN sel.keys \cup {[digest |-> item.digest, class |-> item.class,
                                                     ref |-> item.ref]} ELSE sel.keys
           next == [sel EXCEPT
               !.prepared = Tail(@),
               !.keys = IF same = {} THEN @ \cup {[digest |-> item.digest, class |-> item.class,
                                                   ref |-> item.ref]} ELSE @]
           heavy == Retained(sel.items) + packed.retained > ItemBudget
<1>1. sel.pc = "pack" /\ sel.prepared # <<>>
  BY DEF Pack
<1>2. \/ Exclude(packed, "ITEM_LIMIT", next)
      \/ Exclude(packed, "AGGREGATE_LIMIT", next)
      \/ ~Full(packed) /\ ~heavy /\ sel' = [next EXCEPT !.items = Append(@, packed)] /\ Keep
  BY Zenon DEF Pack
<1>3. DOMAIN sel = DOMAIN Idle
  BY DEF Inv, Types, SelectionTypes
<1>4. PICK r : r = Tail(sel.prepared)
  OBVIOUS
<1>5. PICK ks : ks = keys
  OBVIOUS
<1>6. next = [sel EXCEPT !.prepared = r, !.keys = ks]
  BY <1>4, <1>5
<1>7. /\ DOMAIN next = DOMAIN sel /\ next.pc = sel.pc /\ next.queue = sel.queue
      /\ next.dependencies = sel.dependencies /\ next.entries = sel.entries /\ next.todo = sel.todo
      /\ next.entry = sel.entry /\ next.read = sel.read /\ next.artifacts = sel.artifacts
      /\ next.prepared = r /\ next.keys = ks /\ next.items = sel.items
  <2>1. PICK n : n = [sel EXCEPT !.prepared = r, !.keys = ks]
    OBVIOUS
  <2>2. /\ DOMAIN n = DOMAIN sel /\ n.pc = sel.pc /\ n.queue = sel.queue
        /\ n.dependencies = sel.dependencies /\ n.entries = sel.entries /\ n.todo = sel.todo
        /\ n.entry = sel.entry /\ n.read = sel.read /\ n.artifacts = sel.artifacts
        /\ n.prepared = r /\ n.keys = ks /\ n.items = sel.items
    BY ONLY <1>3, <2>1 DEF Idle
  <2>3. next = n
    BY <1>6, <2>1
  <2> HIDE DEF next
  <2> QED BY <2>2, <2>3
<1>8. same = {} \/ same # {}
  OBVIOUS
<1>9. packed.importance = item.importance
  <2>1. item \in Item
    BY <1>1 DEF Inv, Types, SelectionTypes
  <2>2. PICK h, x : h = item /\ x = (CHOOSE k \in same : TRUE).ref
    OBVIOUS
  <2>3. packed = h \/ packed = [h EXCEPT !.state = "REFERENCED", !.retained = 0, !.of = x]
    BY <2>2
  <2>4. h \in Item
    BY <2>1, <2>2
  <2> HIDE DEF packed
  <2>5. packed.importance = h.importance
    BY ONLY <2>3, <2>4, ZenonT(40) DEF Item
  <2> QED BY <2>2, <2>5
<1>10. \A k \in ks : k.ref \in Nat
  <2>1. \A k \in sel.keys : k.ref \in Nat
    BY DEF Inv, Types, SelectionTypes
  <2>2. item.ref \in Nat
    <3>1. item \in Item
      BY <1>1 DEF Inv, Types, SelectionTypes
    <3> QED BY <3>1 DEF Item
  <2>3. PICK k0 : k0 = [digest |-> item.digest, class |-> item.class, ref |-> item.ref]
    OBVIOUS
  <2>4. k0.ref = item.ref
    BY <2>3
  <2>5. ks \subseteq sel.keys \cup {k0}
    BY <1>5, <2>3
  <2> HIDE DEF item
  <2> QED BY <2>1, <2>2, <2>4, <2>5
<1>11. ASSUME NEW reason, Exclude(packed, reason, next)
       PROVE  Inv'
  <2>1. CASE Fail(reason \in BLOCKING)
    BY <2>1, FailInv
  <2>2. CASE /\ packed.importance # Required /\ Keep
             /\ sel' = [next EXCEPT !.excluded = @ \cup {Excluded(packed, reason)}]
    <3>1. PICK n, x : n = next /\ x = next.excluded \cup {Excluded(packed, reason)}
      OBVIOUS
    <3>2. sel' = [n EXCEPT !.excluded = x]
      <4> HIDE DEF next, packed
      <4> QED BY <2>2, <3>1
    <3>3. DOMAIN n = DOMAIN sel
      BY <1>7, <3>1
    <3>4. /\ DOMAIN sel' = DOMAIN sel /\ sel'.pc = n.pc /\ sel'.queue = n.queue
          /\ sel'.dependencies = n.dependencies /\ sel'.entries = n.entries /\ sel'.todo = n.todo
          /\ sel'.entry = n.entry /\ sel'.read = n.read /\ sel'.artifacts = n.artifacts
          /\ sel'.prepared = n.prepared /\ sel'.keys = n.keys /\ sel'.items = n.items
      BY ONLY <1>3, <3>2, <3>3 DEF Idle
    <3> HIDE DEF next, packed, keys, same
    <3>5. /\ DOMAIN sel' = DOMAIN sel /\ sel'.pc = sel.pc /\ sel'.queue = sel.queue
          /\ sel'.dependencies = sel.dependencies /\ sel'.entries = sel.entries /\ sel'.todo = sel.todo
          /\ sel'.entry = sel.entry /\ sel'.read = sel.read /\ sel'.artifacts = sel.artifacts
          /\ sel'.prepared = Tail(sel.prepared) /\ sel'.keys = ks /\ sel'.items = sel.items
      BY <1>4, <1>7, <3>1, <3>4
    <3>6. Head(sel.prepared).importance # Required
      BY <1>9, <2>2
    <3> HIDE DEF item
    <3> QED BY <1>1, <1>10, <2>2, <3>5, <3>6, PackDropInv
  <2> QED BY <1>11, <2>1, <2>2 DEF Exclude
<1>12. CASE ~Full(packed) /\ ~heavy /\ sel' = [next EXCEPT !.items = Append(@, packed)] /\ Keep
  <2>1. PICK n, p, x : n = next /\ p = packed /\ x = Append(sel.items, packed)
    OBVIOUS
  <2>2. sel' = [n EXCEPT !.items = x]
    <3> HIDE DEF next, packed
    <3> QED BY <1>7, <1>12, <2>1
  <2>3. DOMAIN n = DOMAIN sel
    BY <1>7, <2>1
  <2>4. /\ DOMAIN sel' = DOMAIN sel /\ sel'.pc = n.pc /\ sel'.queue = n.queue
        /\ sel'.dependencies = n.dependencies /\ sel'.entries = n.entries /\ sel'.todo = n.todo
        /\ sel'.entry = n.entry /\ sel'.read = n.read /\ sel'.artifacts = n.artifacts
        /\ sel'.prepared = n.prepared /\ sel'.keys = n.keys /\ sel'.items = x
    BY ONLY <1>3, <2>2, <2>3 DEF Idle
  <2>5. /\ DOMAIN sel' = DOMAIN sel /\ sel'.pc = sel.pc /\ sel'.queue = sel.queue
        /\ sel'.dependencies = sel.dependencies /\ sel'.entries = sel.entries /\ sel'.todo = sel.todo
        /\ sel'.entry = sel.entry /\ sel'.read = sel.read /\ sel'.artifacts = sel.artifacts
        /\ sel'.prepared = Tail(sel.prepared) /\ sel'.keys = ks /\ sel'.items = Append(sel.items, p)
    <3> HIDE DEF next, packed, keys, same
    <3> QED BY <1>4, <1>7, <2>1, <2>4
  <2>6. PICK s : s = same
    OBVIOUS
  <2>7. s = {k \in sel.keys : k.digest = Head(sel.prepared).digest /\ k.class = Head(sel.prepared).class}
    BY <2>6
  <2>8. PICK h : h = Head(sel.prepared)
    OBVIOUS
  <2>9. h \in Item /\ Sane(h)
    <3>1. 1 \in DOMAIN sel.prepared /\ h = sel.prepared[1] /\ h \in Item
      BY <1>1, <2>8 DEF Inv, Types, SelectionTypes
    <3> QED BY <3>1 DEF Inv, PreparedInv
  <2>11. /\ s = {} => p = h
         /\ s # {} => p = [h EXCEPT !.state = "REFERENCED", !.retained = 0, !.of = (CHOOSE k \in s : TRUE).ref]
    BY <2>1, <2>6, <2>8
  <2>12. /\ s = {} => p = h
         /\ s # {} => p.state = "REFERENCED" /\ \E k \in s : p.of = k.ref
         /\ p \in Item /\ Sane(p) /\ p.ref = h.ref /\ p.importance = h.importance
    <3>1. CASE s = {}
      BY <2>9, <2>11, <3>1
    <3>2. CASE s # {}
      <4>1. PICK k : k = (CHOOSE q \in s : TRUE)
        OBVIOUS
      <4>2. k \in s
        BY <3>2, <4>1
      <4>3. PICK target : target = k.ref
        OBVIOUS
      <4>4. p = [h EXCEPT !.state = "REFERENCED", !.retained = 0, !.of = target]
        BY <2>11, <3>2, <4>1, <4>3
      <4>5. target \in Nat
        <5>1. \A j \in sel.keys : j.ref \in Nat
          BY DEF Inv, Types, SelectionTypes
        <5> HIDE DEF same
        <5> QED BY <2>7, <4>2, <4>3, <5>1
      <4>6. p = [ref |-> h.ref, path |-> h.path, kind |-> h.kind, source |-> h.source,
                 importance |-> h.importance, priority |-> h.priority, class |-> h.class,
                 state |-> "REFERENCED", retained |-> 0, digest |-> h.digest, of |-> target,
                 mixed |-> h.mixed]
        BY ONLY <2>9, <4>4, ZenonT(40) DEF Item
      <4>7. /\ h.ref \in Nat /\ h.path \in Paths \cup {NoPath} /\ h.kind \in {"FILE", "INLINE", "ARTIFACT"}
            /\ h.source \in SourceValues /\ h.importance \in 0 .. 2 /\ h.priority \in 0 .. 1000
            /\ h.class \in Classes /\ h.digest \in STRING /\ h.mixed \in {None, "same", "changed", "evaded"}
        BY ONLY <2>9 DEF Item
      <4>8. 0 \in 0 .. Limits.item
        BY SelectionAssumption
      <4>9. p \in Item
        BY ONLY <4>5, <4>6, <4>7, <4>8 DEF Item
      <4>10. /\ p.ref = h.ref /\ p.importance = h.importance /\ p.kind = h.kind
             /\ p.path = h.path /\ p.mixed = h.mixed /\ p.state = "REFERENCED" /\ p.of = target
        BY ONLY <4>6
      <4>11. Sane(p)
        BY <2>9, <4>10 DEF Sane, Scoped, Sized
      <4> HIDE DEF same, packed, item
      <4> QED BY <3>2, <4>2, <4>3, <4>9, <4>10, <4>11
    <3> QED BY <3>1, <3>2
  <2>13. \A k \in ks : k \in sel.keys \/ (s = {} /\ k.ref = p.ref /\ k.digest = p.digest)
    <3>1. PICK k0 : k0 = [digest |-> h.digest, class |-> h.class, ref |-> h.ref]
      OBVIOUS
    <3>2. k0.ref = h.ref /\ k0.digest = h.digest
      BY ONLY <3>1
    <3>3. \A k \in ks : k \in sel.keys \/ (s = {} /\ k = k0)
      BY <1>5, <2>6, <2>8, <3>1
    <3> QED BY <2>12, <3>2, <3>3
  <2>10. ~Full(p) /\ ~(Retained(sel.items) + p.retained > ItemBudget) /\ Keep
    <3> HIDE DEF next, packed
    <3> QED BY <1>12, <2>1
  <2> HIDE DEF next, packed, keys, same, item, heavy
  <2> QED BY <1>1, <2>5, <2>7, <2>8, <2>10, <2>12, <2>13, PackAppendInv
<1> HIDE DEF next, packed, keys, same, item, heavy
<1> QED BY <1>2, <1>11, <1>12

-----------------------------------------------------------------------------
(* The theorems.                                                            *)

\* Every step keeps the invariant.
LEMMA StutterInv ==
    ASSUME Inv, UNCHANGED vars
    PROVE  Inv'
<1>1. UNCHANGED <<disk, request, sel, cache, durable, run, crashes>>
  BY DEF vars
<1>2. Demands' = Demands
  BY <1>1 DEF Demands
<1>3. OtherTypes' /\ CacheInv'
  BY <1>1, InvParts, OtherSame, CacheSame
<1>4. SelectionTypes'
  BY <1>1 DEF Inv, Types, SelectionTypes
<1>5. ReadInv'
  BY <1>1 DEF Inv, ReadInv
<1>6. EntriesInv'
  BY <1>1, <1>2 DEF Inv, EntriesInv
<1>7. PreparedInv'
  BY <1>1 DEF Inv, PreparedInv, Rest
<1>8. PackedInv'
  BY <1>1 DEF Inv, PackedInv, Rest
<1>9. BudgetInv'
  BY <1>1 DEF Inv, BudgetInv
<1> QED BY <1>3, <1>4, <1>5, <1>6, <1>7, <1>8, <1>9, InvParts, PTL DEF SelInv

LEMMA NextInv == Inv /\ [Next]_vars => Inv'
<1> SUFFICES ASSUME Inv, [Next]_vars PROVE Inv'
  OBVIOUS
<1>1. CASE Step
  BY <1>1, BeginInv, PreflightInv, ExpandInv, DiscoverTestsInv, RefuseInv, PrepareInlineInv,
     ReadBeginInv, ReadRestInv, ReadCompareInv, PreparedStepInv, PackInv, PersistInv,
     KeepPackageInv DEF Step
<1>2. CASE Crash
  BY <1>2, CrashInv
<1>3. CASE Write
  BY <1>3, WriteInv
<1>4. CASE EvadingWrite
  BY <1>4, EvadingWriteInv
<1>5. CASE UNCHANGED vars
  BY <1>5, StutterInv
<1> QED BY <1>1, <1>2, <1>3, <1>4, <1>5 DEF Next

\* The inductive invariant holds for all requests, files, limits and patterns.
THEOREM Invariance == Spec => []Inv
<1> QED BY InitInv, NextInv, PTL DEF Spec

\* Every state is well formed, and no item is larger than the limit of one (_truncate_utf8).
THEOREM TypesCorrect == Spec => []TypeOK
<1>1. Inv => TypeOK
  BY DEF Inv, Types, SelectionTypes, TypeOK
<1> QED BY <1>1, Invariance, PTL

\* A package a provider may see delivers every piece of required evidence, complete where a
\* requirement asks for that (select, _merge_candidates, _required_failure).
THEOREM DeliveryCorrect == Spec => []RequiredDelivered
<1>1. Inv => RequiredDelivered
  BY DEF Inv, CacheInv
<1> QED BY <1>1, Invariance, PTL

\* The package fits the agent's request (ContextLimits, agent_references).
THEOREM BudgetCorrect == Spec => []WithinBudget
<1>1. Inv => WithinBudget
  BY DEF Inv, BudgetInv, WithinBudget
<1> QED BY <1>1, Invariance, PTL

\* What is read while somebody writes is one version of the file or nothing, unless a write
\* left size and time of modification as they were (LocalContextFileReader.read,
\* _read_with_retry).
THEOREM VersionCorrect == Spec => []ContentIsOneVersion
<1>1. Inv => ContentIsOneVersion
  BY DEF Inv, PackedInv, Sane, ContentIsOneVersion
<1> QED BY <1>1, Invariance, PTL

\* Nothing is retained under a name outside the task's scope, by the meaning of the patterns
\* (_scope_match, _scope_reason).
THEOREM ScopeCorrect == Spec => []ScopeEnforced
<1>1. Inv => ScopeEnforced
  BY DEF Inv, PackedInv, Sane, Scoped, ScopeEnforced
<1> QED BY <1>1, Invariance, PTL

\* The package of a process is the one the recorded manifest describes
\* (_restore_context_package).
THEOREM RecordCorrect == Spec => []PackageIsRecorded
<1>1. Inv => PackageIsRecorded
  BY DEF Inv, CacheInv
<1> QED BY <1>1, Invariance, PTL
=============================================================================
