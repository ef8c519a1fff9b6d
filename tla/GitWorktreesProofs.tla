------------------------- MODULE GitWorktreesProofs -------------------------
(***************************************************************************)
(* Theorems of GitWorktrees for any processes, identifiers, paths,         *)
(* branches, repositories, commits and number of crashes.                  *)
(*                                                                         *)
(* The inductive invariant says who may write an ownership record (the one *)
(* process inside the lock of its identifier), what that process knows of  *)
(* the record it writes next, and that the branch of an established        *)
(* identifier exists and was made for it: Git's refusal of an existing     *)
(* branch is what keeps two identifiers apart, their locks do not.         *)
(***************************************************************************)
EXTENDS GitWorktrees, TLAPS

\* The process is inside the lock of its identifier.
Holding(p) == process[p] # Idle /\ ~At(p, "acquire")

\* One process per lock, and the lock file of a running one is there.
LockInv ==
    /\ \A p \in Processes : Holding(p) => process[p].id \in lock
    /\ \A p, q \in Processes :
         Holding(p) /\ Holding(q) /\ process[p].id = process[q].id => p = q

Creating == {"recheck", "add", "verify", "activate"}
Cleaning == {"check", "remove", "deregistered", "removed"}

\* What a process has learned inside the lock is still true.
KnowledgeOf(p) ==
    LET r == record[process[p].id] IN
    /\ process[p].pc \in Creating \cup {"exists", "partial"} => process[p].op = "create"
    /\ process[p].pc \in Cleaning \cup {"load"} => process[p].op = "cleanup"
    /\ process[p] # Idle /\ process[p].op = "create" => process[p].repository = source
    /\ process[p].pc \in Creating => r = RecordOf(p, "CREATING")
    /\ process[p].pc = "partial" => r \in {RecordOf(p, "CREATING"), RecordOf(p, "ACTIVE")}
    /\ process[p].pc \in Cleaning => r = RecordOf(p, "ACTIVE")
    /\ process[p].pc = "remove" => process[p].repository = source

Knowledge == \A p \in Processes : KnowledgeOf(p)

\* The identifier's worktree was added by its own creation.
Established(i) ==
    /\ record[i] # None
    /\ \/ record[i].status = "ACTIVE"
       \/ \E p \in Processes : process[p].pc \in {"verify", "activate"} /\ process[p].id = i

Here(i) == record[i].repository = source

\* The branch of an established identifier exists and is that of no other.
BranchInv ==
    /\ \A i \in Ids : Established(i) /\ Here(i) => BranchOf[i] \in branches
    /\ \A i, j \in Ids :
         /\ Established(i) /\ Established(j) /\ BranchOf[i] = BranchOf[j]
         /\ record[i].repository = record[j].repository
         => i = j

\* A worktree that was not added by hand stands at its owner's path, and the branch of
\* its owner was established by nobody else.
Owned(path) ==
    LET j == tree[path].owner IN
    /\ record[j] # None /\ Here(j)
    /\ PathOf[j] = path /\ BranchOf[j] \in branches
    /\ \A i \in Ids : Established(i) /\ Here(i) /\ BranchOf[i] = BranchOf[j] => i = j

TreeInv == \A path \in Paths : tree[path] # None /\ tree[path].owner # None => Owned(path)

Inv == TypeOK /\ LockInv /\ Knowledge /\ BranchInv /\ TreeInv

-----------------------------------------------------------------------------
(* How a process moves.                                                     *)

\* A process at one of its steps is busy, and Idle is at none.
LEMMA BusyAt ==
    ASSUME TypeOK, NEW p \in Processes
    PROVE  /\ process[p].pc \in Steps => process[p] \in Busy /\ process[p] # Idle
           /\ process[p] # Idle => process[p] \in Busy
           /\ process[p] \in Busy => process[p].pc \in Steps
BY DEF TypeOK, Busy, Idle, Steps

\* Goto changes the step of one process and nothing else about any.
LEMMA GotoStep ==
    ASSUME TypeOK, NEW p \in Processes, process[p].pc \in Steps, NEW pc \in Steps, Goto(p, pc)
    PROVE  /\ process' \in [Processes -> Busy \cup {Idle}]
           /\ process'[p] \in Busy
           /\ process'[p].pc = pc
           /\ process'[p].op = process[p].op
           /\ process'[p].id = process[p].id
           /\ process'[p].repository = process[p].repository
           /\ process'[p].base = process[p].base
           /\ \A q \in Processes : q # p => process'[q] = process[q]
<1>1. process[p] \in Busy
  BY BusyAt
<1>2. process' = [process EXCEPT ![p] = [process[p] EXCEPT !.pc = pc]]
  BY DEF Goto
<1>3. [process[p] EXCEPT !.pc = pc] \in Busy
  BY <1>1 DEF Busy
<1> QED BY <1>1, <1>2, <1>3 DEF TypeOK, Busy

\* A process that ends its call leaves the others alone.
LEMMA IdleStep ==
    ASSUME TypeOK, NEW p \in Processes, process' = [process EXCEPT ![p] = Idle]
    PROVE  /\ process' \in [Processes -> Busy \cup {Idle}]
           /\ process'[p] = Idle
           /\ \A q \in Processes : q # p => process'[q] = process[q]
BY DEF TypeOK

\* The record a process writes is a record.
LEMMA RecordOfType ==
    ASSUME TypeOK, NEW p \in Processes, process[p].pc \in Steps,
           NEW s \in {"CREATING", "ACTIVE", "PARTIAL", "REMOVED"}
    PROVE  RecordOf(p, s) \in Record /\ RecordOf(p, s) # None /\ process[p].id \in Ids
BY BusyAt, NoneAssumption DEF RecordOf, Record, Busy

\* WriteRemoved replaces the ACTIVE record that cleanup read.
LEMMA WriteRemovedForm ==
    ASSUME TypeOK, NEW p \in Processes, KnowledgeOf(p), WriteRemoved(p)
    PROVE  record' \in {record, [record EXCEPT ![process[p].id] = RecordOf(p, "REMOVED")]}
<1>1. record[process[p].id] = RecordOf(p, "ACTIVE")
  BY DEF KnowledgeOf, WriteRemoved, At, Cleaning
<1>2. process[p].id \in Ids
  BY BusyAt DEF WriteRemoved, At, Steps, Busy
<1>3. [RecordOf(p, "ACTIVE") EXCEPT !.status = "REMOVED"] = RecordOf(p, "REMOVED")
  BY DEF RecordOf
<1>4. \/ record' = [record EXCEPT ![process[p].id] =
                       [record[process[p].id] EXCEPT !.status = "REMOVED"]]
      \/ record' = record
  BY DEF WriteRemoved
<1> QED BY <1>1, <1>2, <1>3, <1>4

\* What users do by hand: no branch disappears, nothing but the worktrees and branches
\* changes, and no worktree gets an owner that it did not have.
LEMMA HandStep ==
    ASSUME TypeOK, NEW path \in Paths, UseWorktree(path) \/ AddByHand(path)
    PROVE  /\ tree' \in [Paths -> Tree \cup {None}]
           /\ branches \subseteq branches' /\ branches' \subseteq Branches
           /\ UNCHANGED <<disk, source, process, crashes>>
           /\ \A q \in Paths : tree'[q] # None /\ tree'[q].owner # None =>
                tree[q] # None /\ tree'[q].owner = tree[q].owner /\ tree[q] \in Tree
<1>1. CASE UseWorktree(path)
  <2>1. tree[path] \in Tree /\ tree \in [Paths -> Tree \cup {None}]
    BY <1>1 DEF UseWorktree, TypeOK
  <2>2. PICK t : /\ tree' = [tree EXCEPT ![path] = t]
                 /\ \/ \E c \in Content : t = [tree[path] EXCEPT !.content = c]
                    \/ \E c \in Commits : t = [tree[path] EXCEPT !.head = c]
                    \/ t = [tree[path] EXCEPT !.branch = ~tree[path].branch]
                    \/ t = None
    <3>1. CASE \E c \in Content : tree' = [tree EXCEPT ![path].content = c]
      BY <3>1
    <3>2. CASE \E c \in Commits : tree' = [tree EXCEPT ![path].head = c]
      BY <3>2
    <3>3. CASE tree' = [tree EXCEPT ![path].branch = ~@]
      BY <3>3
    <3>4. CASE tree' = [tree EXCEPT ![path] = None]
      BY <3>4
    <3> QED BY <1>1, <3>1, <3>2, <3>3, <3>4 DEF UseWorktree
  <2>3. t = None \/ (t \in Tree /\ t.owner = tree[path].owner)
    BY <2>1, <2>2 DEF Tree
  <2>4. UNCHANGED <<disk, branches, source, process, crashes>>
    BY <1>1 DEF UseWorktree
  <2>5. tree' \in [Paths -> Tree \cup {None}]
    BY <2>1, <2>2, <2>3
  <2>6. ASSUME NEW q \in Paths, tree'[q] # None, tree'[q].owner # None
        PROVE  tree[q] # None /\ tree'[q].owner = tree[q].owner /\ tree[q] \in Tree
    <3>1. CASE q = path
      BY <1>1, <2>1, <2>2, <2>3, <2>6, <3>1 DEF UseWorktree
    <3>2. CASE q # path
      BY <2>1, <2>2, <2>6, <3>2
    <3> QED BY <3>1, <3>2
  <2> QED BY <2>4, <2>5, <2>6 DEF TypeOK
<1>2. CASE AddByHand(path)
  <2>1. PICK onBranch \in BOOLEAN, c \in Commits :
           tree' = [tree EXCEPT ![path] =
              [branch |-> onBranch, head |-> c, content |-> "clean", owner |-> None]]
    BY <1>2 DEF AddByHand
  <2>2. [branch |-> onBranch, head |-> c, content |-> "clean", owner |-> None] \in Tree
    BY DEF Tree, Content
  <2>3. {BranchOf[i] : i \in {j \in Ids : PathOf[j] = path}} \subseteq Branches
    BY WorktreeAssumption
  <2>4. branches \subseteq branches' /\ branches' \subseteq Branches
    BY <1>2, <2>3 DEF AddByHand, TypeOK
  <2>5. tree' \in [Paths -> Tree \cup {None}]
    BY <2>1, <2>2 DEF TypeOK
  <2>6. \A q \in Paths : tree'[q] # None /\ tree'[q].owner # None =>
             tree'[q] = tree[q] /\ tree[q] \in Tree
    BY <2>1, <2>2 DEF TypeOK
  <2> QED BY <1>2, <2>4, <2>5, <2>6 DEF AddByHand
<1> QED BY <1>1, <1>2

-----------------------------------------------------------------------------
(* Types.                                                                   *)

\* Every step of a process keeps the types; WriteRemoved updates the record it read.
LEMMA ProcessStepType ==
    ASSUME TypeOK, NEW p \in Processes, KnowledgeOf(p), ProcessStep(p)
    PROVE  TypeOK'
<1> USE DEF At
<1>1. CASE Acquire(p)
  <2>1. process[p].pc \in Steps /\ process[p].id \in Ids
    BY <1>1, BusyAt DEF Acquire, Steps, Busy
  <2>2. CASE process[p].id \in lock
    BY <1>1, <2>1, <2>2, IdleStep DEF Acquire, TypeOK, git
  <2>3. CASE process[p].id \notin lock
    <3>1. \E pc \in Steps : Goto(p, pc)
      BY <1>1, <2>3 DEF Acquire, Steps
    <3> QED BY <1>1, <2>1, <2>3, <3>1, GotoStep DEF Acquire, TypeOK, git
  <2> QED BY <2>2, <2>3
<1>2. CASE WriteCreating(p)
  <2>1. process[p].pc \in Steps
    BY <1>2 DEF WriteCreating, Steps
  <2>2. \E pc \in Steps : Goto(p, pc)
    BY <1>2 DEF WriteCreating, Steps
  <2> QED BY <1>2, <2>1, <2>2, GotoStep, RecordOfType DEF WriteCreating, TypeOK, git
<1>3. CASE Recheck(p)
  <2>1. process[p].pc \in Steps
    BY <1>3 DEF Recheck, Steps
  <2>2. \E pc \in Steps : Goto(p, pc)
    BY <1>3 DEF Recheck, Steps
  <2> QED BY <1>3, <2>1, <2>2, GotoStep DEF Recheck, TypeOK, git, disk
<1>4. CASE GitAdd(p)
  <2>1. process[p].pc \in Steps /\ process[p].id \in Ids /\ process[p].base \in Commits
    BY <1>4, BusyAt DEF GitAdd, Steps, Busy
  <2>2. \E pc \in Steps : Goto(p, pc)
    BY <1>4 DEF GitAdd, Steps
  <2> DEFINE added == [branch |-> TRUE, head |-> process[p].base, content |-> "clean",
                       owner |-> process[p].id]
  <2>3. added \in Tree
    BY <2>1 DEF Tree, Content
  <2>4. tree' \in {tree, [tree EXCEPT ![Target(p)] = added]}
    BY <1>4 DEF GitAdd, AddTree
  <2>5. tree' \in [Paths -> Tree \cup {None}]
    BY <2>3, <2>4 DEF TypeOK
  <2>6. branches' \subseteq Branches
    BY <1>4, <2>1, WorktreeAssumption DEF GitAdd, AddTree, TypeOK
  <2> QED BY <1>4, <2>1, <2>2, <2>5, <2>6, GotoStep DEF GitAdd, TypeOK, disk
<1>5. CASE VerifyCreated(p)
  <2>1. process[p].pc \in Steps
    BY <1>5 DEF VerifyCreated, Steps
  <2>2. \E pc \in Steps : Goto(p, pc)
    BY <1>5 DEF VerifyCreated, Steps
  <2> QED BY <1>5, <2>1, <2>2, GotoStep DEF VerifyCreated, TypeOK, git, disk
<1>6. CASE Activate(p)
  <2>1. process[p].pc \in Steps
    BY <1>6 DEF Activate, Steps
  <2>2. \E pc \in Steps : Goto(p, pc)
    BY <1>6 DEF Activate, Steps
  <2> QED BY <1>6, <2>1, <2>2, GotoStep, RecordOfType DEF Activate, TypeOK, git
<1>7. CASE PreservePartial(p)
  <2>1. process[p].pc \in Steps
    BY <1>7 DEF PreservePartial, Steps
  <2>2. \E pc \in Steps : Goto(p, pc)
    BY <1>7 DEF PreservePartial, Steps
  <2> QED BY <1>7, <2>1, <2>2, GotoStep, RecordOfType DEF PreservePartial, TypeOK, git
<1>8. CASE Release(p)
  BY <1>8, IdleStep DEF Release, TypeOK, git
<1>9. CASE CleanupLoad(p)
  <2>1. process[p] \in Busy
    BY <1>9, BusyAt DEF CleanupLoad, Steps
  <2>2. CASE record[process[p].id] # None /\ record[process[p].id].status = "ACTIVE"
    <3>1. record[process[p].id] \in Record
      BY <2>1, <2>2 DEF TypeOK, Busy
    <3>2. process' = [process EXCEPT ![p] =
             [process[p] EXCEPT !.pc = "check", !.repository = record[process[p].id].repository,
                                !.base = record[process[p].id].base]]
      BY <1>9, <2>2 DEF CleanupLoad, TypeOK
    <3>3. process'[p] \in Busy
      BY <2>1, <3>1, <3>2 DEF Busy, Record, Steps, TypeOK
    <3> QED BY <1>9, <3>2, <3>3 DEF CleanupLoad, TypeOK, git, disk
  <2>3. CASE ~(record[process[p].id] # None /\ record[process[p].id].status = "ACTIVE")
    <3>1. process[p].pc \in Steps /\ Goto(p, "release") /\ "release" \in Steps
      BY <1>9, <2>3 DEF CleanupLoad, Steps
    <3> QED BY <1>9, <3>1, GotoStep DEF CleanupLoad, TypeOK, git, disk
  <2> QED BY <2>2, <2>3
<1>10. CASE CleanupCheck(p)
  <2>1. process[p].pc \in Steps
    BY <1>10 DEF CleanupCheck, Steps
  <2>2. \E pc \in Steps : Goto(p, pc)
    BY <1>10 DEF CleanupCheck, Steps
  <2> QED BY <1>10, <2>1, <2>2, GotoStep DEF CleanupCheck, TypeOK, git, disk
<1>11. CASE GitRemove(p)
  <2>1. process[p].pc \in Steps
    BY <1>11 DEF GitRemove, Steps
  <2>2. \E pc \in Steps : Goto(p, pc)
    BY <1>11 DEF GitRemove, Steps
  <2>3. tree' \in [Paths -> Tree \cup {None}]
    BY <1>11 DEF GitRemove, TypeOK
  <2> QED BY <1>11, <2>1, <2>2, <2>3, GotoStep DEF GitRemove, TypeOK, disk
<1>12. CASE ConfirmDeregistered(p)
  <2>1. process[p].pc \in Steps
    BY <1>12 DEF ConfirmDeregistered, Steps
  <2>2. \E pc \in Steps : Goto(p, pc)
    BY <1>12 DEF ConfirmDeregistered, Steps
  <2> QED BY <1>12, <2>1, <2>2, GotoStep DEF ConfirmDeregistered, TypeOK, git, disk
<1>13. CASE WriteRemoved(p)
  <2>1. process[p].pc \in Steps
    BY <1>13 DEF WriteRemoved, Steps
  <2>2. \E pc \in Steps : Goto(p, pc)
    BY <1>13 DEF WriteRemoved, Steps
  <2>3. record' \in [Ids -> Record \cup {None}]
    BY <1>13, <2>1, WriteRemovedForm, RecordOfType DEF TypeOK
  <2> QED BY <1>13, <2>1, <2>2, <2>3, GotoStep DEF WriteRemoved, TypeOK, git
<1> QED BY <1>1, <1>2, <1>3, <1>4, <1>5, <1>6, <1>7, <1>8, <1>9, <1>10, <1>11, <1>12, <1>13
        DEF ProcessStep

\* Every step keeps the types.
LEMMA TypeStep ==
    ASSUME TypeOK, Knowledge, [Next]_vars
    PROVE  TypeOK'
<1>1. CASE \E p \in Processes : ProcessStep(p)
  BY <1>1, ProcessStepType DEF Knowledge
<1>2. CASE \E p \in Processes : Crash(p)
  <2>1. PICK p \in Processes : Crash(p)
    BY <1>2
  <2>2. crashes' \in 0 .. MaxCrashes
    BY <2>1, WorktreeAssumption DEF Crash, TypeOK
  <2> QED BY <2>1, <2>2, IdleStep DEF Crash, TypeOK, disk, git
<1>3. CASE \E p \in Processes, i \in Ids : CreateBegin(p, i) \/ CleanupBegin(p, i)
  <2>1. PICK p \in Processes, i \in Ids : CreateBegin(p, i) \/ CleanupBegin(p, i)
    BY <1>3
  <2>0. (CHOOSE c \in Commits : TRUE) \in Commits
    BY WorktreeAssumption
  <2>2. PICK op \in {"create", "cleanup"}, base \in Commits : process' = [process EXCEPT ![p] =
           [pc |-> "acquire", op |-> op, id |-> i, repository |-> source, base |-> base]]
    BY <2>0, <2>1 DEF CreateBegin, CleanupBegin, Identity
  <2>3. [pc |-> "acquire", op |-> op, id |-> i, repository |-> source, base |-> base] \in Busy
    BY DEF TypeOK, Busy, Steps
  <2> QED BY <2>1, <2>2, <2>3 DEF CreateBegin, CleanupBegin, TypeOK, disk, git
<1>4. CASE \E i \in Ids : RemoveStaleLock(i)
  BY <1>4 DEF RemoveStaleLock, TypeOK, git
<1>5. CASE \E path \in Paths : UseWorktree(path) \/ AddByHand(path)
  BY <1>5, HandStep DEF TypeOK, disk
<1>6. CASE ReplaceRepository
  BY <1>6 DEF ReplaceRepository, TypeOK, disk
<1>7. CASE UNCHANGED vars
  BY <1>7 DEF vars, TypeOK
<1> QED BY <1>1, <1>2, <1>3, <1>4, <1>5, <1>6, <1>7 DEF Next

-----------------------------------------------------------------------------
(* What a step of a process touches.                                        *)

\* The record a process writes, at which step and with which status.
Writes == {<<"exists", "CREATING">>, <<"activate", "ACTIVE">>, <<"partial", "PARTIAL">>,
           <<"removed", "REMOVED">>}

\* A process only writes the record of its own identifier, inside the lock, and the
\* first one only where there was none.
LEMMA RecordStep ==
    ASSUME TypeOK, NEW p \in Processes, KnowledgeOf(p), ProcessStep(p), record' # record
    PROVE  \E s \in {"CREATING", "ACTIVE", "PARTIAL", "REMOVED"} :
             /\ record' = [record EXCEPT ![process[p].id] = RecordOf(p, s)]
             /\ <<process[p].pc, s>> \in Writes
             /\ s = "CREATING" => record[process[p].id] = None
             /\ Holding(p)
<1> USE DEF At
<1>1. CASE WriteCreating(p)
  BY <1>1, BusyAt DEF WriteCreating, Writes, Holding, Steps
<1>2. CASE Activate(p)
  BY <1>2, BusyAt DEF Activate, Writes, Holding, Steps
<1>3. CASE PreservePartial(p)
  BY <1>3, BusyAt DEF PreservePartial, Writes, Holding, Steps
<1>4. CASE WriteRemoved(p)
  BY <1>4, BusyAt, WriteRemovedForm DEF WriteRemoved, Writes, Holding, Steps
<1> QED BY <1>1, <1>2, <1>3, <1>4
        DEF ProcessStep, Acquire, Recheck, GitAdd, VerifyCreated, Release, CleanupLoad,
            CleanupCheck, GitRemove, ConfirmDeregistered, disk

\* A step of a process leaves the others and the source repository alone, and ends
\* the call or goes on with the same operation and identifier.
LEMMA MoveStep ==
    ASSUME TypeOK, NEW p \in Processes, ProcessStep(p)
    PROVE  /\ process[p].pc \in Steps
           /\ source' = source
           /\ \A q \in Processes : q # p => process'[q] = process[q]
           /\ \/ process'[p] = Idle
              \/ /\ process'[p] \in Busy
                 /\ process'[p].id = process[p].id /\ process'[p].op = process[p].op
                 /\ process'[p].pc # "acquire"
<1> USE DEF At
<1>1. process[p].pc \in Steps
  BY DEF ProcessStep, Acquire, WriteCreating, Recheck, GitAdd, VerifyCreated, Activate,
         PreservePartial, Release, CleanupLoad, CleanupCheck, GitRemove,
         ConfirmDeregistered, WriteRemoved, Steps
<1>2. source' = source
  BY DEF ProcessStep, Acquire, WriteCreating, Recheck, GitAdd, VerifyCreated, Activate,
         PreservePartial, Release, CleanupLoad, CleanupCheck, GitRemove,
         ConfirmDeregistered, WriteRemoved, git
<1>3. CASE CleanupLoad(p) /\ ~Goto(p, "release")
  <2>1. process' = [process EXCEPT ![p] =
             [process[p] EXCEPT !.pc = "check", !.repository = record[process[p].id].repository,
                                !.base = record[process[p].id].base]]
    BY <1>3 DEF CleanupLoad, TypeOK
  <2>2. record[process[p].id] \in Record /\ process[p] \in Busy
    BY <1>1, <1>3, BusyAt DEF CleanupLoad, TypeOK, Busy
  <2>3. [process[p] EXCEPT !.pc = "check", !.repository = record[process[p].id].repository,
                           !.base = record[process[p].id].base] \in Busy
    BY <2>2 DEF Busy, Record, Steps
  <2> QED BY <1>1, <1>2, <2>1, <2>2, <2>3 DEF TypeOK, Busy
<1>4. CASE process' = [process EXCEPT ![p] = Idle]
  BY <1>1, <1>2, <1>4, IdleStep
<1>5. CASE \E pc \in Steps \ {"acquire"} : Goto(p, pc)
  BY <1>1, <1>2, <1>5, GotoStep
<1>6. ~CleanupLoad(p) =>
        \/ process' = [process EXCEPT ![p] = Idle]
        \/ \E pc \in Steps \ {"acquire"} : Goto(p, pc)
  BY DEF ProcessStep, Acquire, WriteCreating, Recheck, GitAdd, VerifyCreated, Activate,
         PreservePartial, Release, CleanupCheck, GitRemove,
         ConfirmDeregistered, WriteRemoved, Steps
<1>7. "release" \in Steps \ {"acquire"}
  BY DEF Steps
<1> QED BY <1>3, <1>4, <1>5, <1>6, <1>7

-----------------------------------------------------------------------------
(* The lock.                                                                *)

\* Acquire takes a lock that nobody holds, and only its holder, or the operator once
\* there is no holder, removes it.
LEMMA LockStep ==
    ASSUME TypeOK, LockInv, [Next]_vars
    PROVE  LockInv'
<1>1. ASSUME NEW p \in Processes, ProcessStep(p)
      PROVE  LockInv'
  <2>1. CASE Acquire(p)
    <3>1. CASE process[p].id \in lock
      BY <1>1, <2>1, <3>1, MoveStep, IdleStep DEF Acquire, LockInv, Holding, At
    <3>2. CASE process[p].id \notin lock
      <4>1. lock' = lock \cup {process[p].id} /\ process'[p].id = process[p].id
        BY <1>1, <2>1, <3>2, MoveStep, GotoStep DEF Acquire, Steps
      <4>2. \A q \in Processes : q # p => process'[q] = process[q]
        BY <1>1, MoveStep
      <4> QED BY <3>2, <4>1, <4>2 DEF LockInv, Holding, At
    <3> QED BY <3>1, <3>2
  <2>2. CASE Release(p)
    <3>1. lock' = lock \ {process[p].id} /\ process'[p] = Idle /\ Holding(p)
      BY <2>2, BusyAt, IdleStep DEF Release, Holding, At, Steps
    <3>2. \A q \in Processes : q # p => process'[q] = process[q]
      BY <1>1, MoveStep
    <3> QED BY <3>1, <3>2 DEF LockInv, Holding, At
  <2>3. CASE ~Acquire(p) /\ ~Release(p)
    <3>1. lock' = lock /\ Holding(p)
      BY <1>1, <2>3, BusyAt
         DEF ProcessStep, WriteCreating, Recheck, GitAdd, VerifyCreated, Activate,
             PreservePartial, CleanupLoad, CleanupCheck, GitRemove,
             ConfirmDeregistered, WriteRemoved, disk, At, Holding, Steps
    <3> QED BY <1>1, <3>1, MoveStep DEF LockInv, Holding, At
  <2> QED BY <2>1, <2>2, <2>3
<1>2. ASSUME NEW p \in Processes, Crash(p)
      PROVE  LockInv'
  BY <1>2, IdleStep DEF Crash, LockInv, Holding, At, disk
<1>3. ASSUME NEW p \in Processes, NEW i \in Ids, CreateBegin(p, i) \/ CleanupBegin(p, i)
      PROVE  LockInv'
  BY <1>3 DEF CreateBegin, CleanupBegin, LockInv, Holding, At, disk, TypeOK
<1>4. ASSUME NEW i \in Ids, RemoveStaleLock(i)
      PROVE  LockInv'
  BY <1>4 DEF RemoveStaleLock, LockInv, Holding, At
<1>5. CASE UNCHANGED <<lock, process>>
  BY <1>5 DEF LockInv, Holding, At
<1> QED BY <1>1, <1>2, <1>3, <1>4, <1>5
        DEF Next, vars, UseWorktree, AddByHand, ReplaceRepository, disk

-----------------------------------------------------------------------------
(* What a process knows.                                                    *)

\* A step of another process does not invalidate it: that one holds another lock.
LEMMA KnowledgeOfOthers ==
    ASSUME TypeOK, LockInv, Knowledge, NEW p \in Processes, ProcessStep(p),
           NEW q \in Processes, q # p
    PROVE  KnowledgeOf(q)'
<1>1. process'[q] = process[q] /\ source' = source /\ process[p].pc \in Steps
  BY MoveStep
<1>2. KnowledgeOf(q)
  BY DEF Knowledge
<1>3. CASE ~Holding(q)
  BY <1>1, <1>2, <1>3 DEF KnowledgeOf, Holding, At, Idle, Creating, Cleaning
<1>4. CASE Holding(q)
  <2>1. process[q].id \in Ids
    BY <1>4, BusyAt DEF Holding, Busy
  <2>2. record' # record => process[p].id # process[q].id
    BY <1>4, RecordStep DEF Knowledge, LockInv
  <2>3. record'[process[q].id] = record[process[q].id]
    BY <2>1, <2>2, RecordStep DEF Knowledge, TypeOK
  <2> QED BY <1>1, <1>2, <2>3 DEF KnowledgeOf, RecordOf
<1> QED BY <1>3, <1>4

\* A process's own step establishes what it knows at the next one.
LEMMA KnowledgeOfSelf ==
    ASSUME TypeOK, LockInv, Knowledge, NEW p \in Processes, ProcessStep(p)
    PROVE  KnowledgeOf(p)'
<1> USE DEF At
<1>1. KnowledgeOf(p) /\ process[p] \in Busy /\ process[p].pc \in Steps
  BY MoveStep, BusyAt DEF Knowledge
<1>2. process[p].id \in Ids /\ process[p] # Idle
  BY <1>1 DEF Busy, Idle
<1>3. source' = source
  BY MoveStep
<1>4. CASE process'[p] = Idle
  BY <1>4 DEF KnowledgeOf, Idle, Creating, Cleaning
<1>5. ASSUME Acquire(p), process'[p] # Idle
      PROVE  KnowledgeOf(p)'
  <2>1. process[p].op \in {"create", "cleanup"}
    BY <1>1 DEF Busy
  <2>2. Goto(p, IF process[p].op = "create" THEN "exists" ELSE "load")
    BY <1>5, IdleStep DEF Acquire
  <2>3. /\ process'[p].pc = IF process[p].op = "create" THEN "exists" ELSE "load"
        /\ process'[p].op = process[p].op /\ process'[p].repository = process[p].repository
    BY <1>1, <2>2, GotoStep DEF Steps
  <2> QED BY <1>1, <1>2, <1>3, <2>1, <2>3 DEF KnowledgeOf, Creating, Cleaning
<1>6. CASE WriteCreating(p)
  <2>1. CASE Goto(p, "recheck") /\ record' = [record EXCEPT ![process[p].id] = RecordOf(p, "CREATING")]
    <3>1. record'[process'[p].id] = RecordOf(p, "CREATING")'
      BY <1>1, <1>2, <2>1, GotoStep DEF TypeOK, RecordOf, Steps
    <3> QED BY <1>1, <1>2, <1>3, <1>6, <2>1, <3>1, GotoStep
            DEF WriteCreating, KnowledgeOf, Creating, Cleaning, Steps
  <2>2. CASE Goto(p, "release") /\ record' = record
    BY <1>1, <1>2, <1>3, <1>6, <2>2, GotoStep
       DEF WriteCreating, KnowledgeOf, Creating, Cleaning, Steps
  <2> QED BY <1>6, <2>1, <2>2 DEF WriteCreating
<1>7. CASE Recheck(p)
  BY <1>1, <1>2, <1>3, <1>7, GotoStep
     DEF Recheck, KnowledgeOf, RecordOf, Creating, Cleaning, Steps, disk
<1>8. CASE GitAdd(p)
  BY <1>1, <1>2, <1>3, <1>8, GotoStep
     DEF GitAdd, KnowledgeOf, RecordOf, Creating, Cleaning, Steps, disk
<1>9. CASE VerifyCreated(p)
  BY <1>1, <1>2, <1>3, <1>9, GotoStep
     DEF VerifyCreated, KnowledgeOf, RecordOf, Creating, Cleaning, Steps, disk
<1>10. CASE Activate(p)
  <2>1. record'[process[p].id] \in {RecordOf(p, "CREATING"), RecordOf(p, "ACTIVE")}
    BY <1>1, <1>2, <1>10 DEF Activate, KnowledgeOf, Creating, TypeOK
  <2>2. PICK next \in {"release", "partial"} : Goto(p, next)
    BY <1>10 DEF Activate
  <2>3. /\ process'[p].pc \in {"release", "partial"} /\ process'[p].id = process[p].id
        /\ process'[p].op = process[p].op /\ process'[p].repository = process[p].repository
        /\ process'[p].base = process[p].base
    BY <1>1, <2>2, GotoStep DEF Steps
  <2> QED BY <1>1, <1>2, <1>3, <1>10, <2>1, <2>3
          DEF Activate, KnowledgeOf, RecordOf, Creating, Cleaning
<1>11. CASE PreservePartial(p)
  BY <1>1, <1>2, <1>3, <1>11, GotoStep
     DEF PreservePartial, KnowledgeOf, Creating, Cleaning, Steps
<1>12. CASE WriteRemoved(p)
  BY <1>1, <1>2, <1>3, <1>12, GotoStep
     DEF WriteRemoved, KnowledgeOf, Creating, Cleaning, Steps
<1>13. CASE Release(p)
  BY <1>4, <1>13, IdleStep DEF Release
<1>14. CASE CleanupLoad(p)
  <2> DEFINE r == record[process[p].id]
  <2>1. CASE r # None /\ r.status = "ACTIVE"
    <3>1. r \in Record
      BY <1>2, <2>1 DEF TypeOK
    <3>2. process' = [process EXCEPT ![p] =
             [process[p] EXCEPT !.pc = "check", !.repository = r.repository, !.base = r.base]]
      BY <1>14, <2>1 DEF CleanupLoad, TypeOK
    <3>3. /\ process'[p].pc = "check" /\ process'[p].id = process[p].id
          /\ process'[p].repository = r.repository /\ process'[p].base = r.base
          /\ process'[p].op = process[p].op
      BY <1>1, <3>2 DEF TypeOK, Busy
    <3>4. r = RecordOf(p, "ACTIVE")'
      BY <2>1, <3>1, <3>3 DEF Record, RecordOf
    <3>5. process[p].op = "cleanup"
      BY <1>1, <1>14 DEF CleanupLoad, KnowledgeOf
    <3> QED BY <1>3, <1>14, <3>3, <3>4, <3>5
            DEF CleanupLoad, KnowledgeOf, Creating, Cleaning, disk
  <2>2. CASE ~(r # None /\ r.status = "ACTIVE")
    BY <1>1, <1>2, <1>3, <1>14, <2>2, GotoStep
       DEF CleanupLoad, KnowledgeOf, Creating, Cleaning, Steps
  <2> QED BY <2>1, <2>2
<1>15. CASE CleanupCheck(p)
  BY <1>1, <1>2, <1>3, <1>15, GotoStep
     DEF CleanupCheck, Verified, Identity, KnowledgeOf, RecordOf, Creating, Cleaning, Steps, disk
<1>16. CASE GitRemove(p)
  BY <1>1, <1>2, <1>3, <1>16, GotoStep
     DEF GitRemove, KnowledgeOf, RecordOf, Creating, Cleaning, Steps, disk
<1>17. CASE ConfirmDeregistered(p)
  BY <1>1, <1>2, <1>3, <1>17, GotoStep
     DEF ConfirmDeregistered, KnowledgeOf, RecordOf, Creating, Cleaning, Steps, disk
<1> QED BY <1>4, <1>5, <1>6, <1>7, <1>8, <1>9, <1>10, <1>11, <1>12, <1>13, <1>14, <1>15, <1>16, <1>17 DEF ProcessStep

\* No step invalidates what a process knows.
LEMMA KnowledgeStep ==
    ASSUME TypeOK, LockInv, Knowledge, [Next]_vars
    PROVE  Knowledge'
<1>1. ASSUME NEW p \in Processes, ProcessStep(p)
      PROVE  Knowledge'
  BY <1>1, KnowledgeOfOthers, KnowledgeOfSelf DEF Knowledge
<1>2. ASSUME NEW p \in Processes, Crash(p)
      PROVE  Knowledge'
  <2>1. /\ process'[p] = Idle /\ \A q \in Processes : q # p => process'[q] = process[q]
        /\ UNCHANGED <<record, source>>
    BY <1>2, IdleStep DEF Crash, disk, git
  <2> QED BY <2>1 DEF Knowledge, KnowledgeOf, RecordOf, Idle, Creating, Cleaning
<1>3. ASSUME NEW p \in Processes, NEW i \in Ids, CreateBegin(p, i) \/ CleanupBegin(p, i)
      PROVE  Knowledge'
  <2>1. /\ process'[p].pc = "acquire" /\ process'[p].repository = source
        /\ \A q \in Processes : q # p => process'[q] = process[q]
        /\ UNCHANGED <<record, source>>
    BY <1>3 DEF CreateBegin, CleanupBegin, Identity, disk, git, TypeOK
  <2> QED BY <2>1 DEF Knowledge, KnowledgeOf, RecordOf, Creating, Cleaning
<1>4. ASSUME UNCHANGED <<process, record, source>>
      PROVE  Knowledge'
  BY <1>4 DEF Knowledge, KnowledgeOf, RecordOf
<1>5. CASE ReplaceRepository
  BY <1>5 DEF ReplaceRepository, Knowledge, KnowledgeOf, Idle, Creating, Cleaning, disk
<1> QED BY <1>1, <1>2, <1>3, <1>4, <1>5
        DEF Next, vars, UseWorktree, AddByHand, RemoveStaleLock, disk, git

-----------------------------------------------------------------------------
(* Branches and worktrees.                                                  *)

\* The only step that establishes an identifier is a worktree add that found neither
\* path nor branch.
Adds(p) == At(p, "add") /\ NoCollisions(process[p].id) /\ AddTree(p)

LEMMA EstablishedByAdd ==
    ASSUME Inv, NEW p \in Processes, ProcessStep(p), NEW i \in Ids, Established(i)'
    PROVE  /\ record[i] # None /\ record'[i].repository = record[i].repository
           /\ Established(i) \/ (Adds(p) /\ process[p].id = i)
<1> USE DEF At
<1>1. TypeOK /\ KnowledgeOf(p) /\ process[p].pc \in Steps
  BY MoveStep DEF Inv, Knowledge
<1>2. process[p] \in Busy /\ process[p].id \in Ids
  BY <1>1, BusyAt DEF Busy
<1>3. ASSUME NEW q \in Processes, process'[q].pc \in {"verify", "activate"}, process'[q].id = i
      PROVE  /\ record[i] # None /\ record'[i].repository = record[i].repository
             /\ Established(i) \/ (Adds(p) /\ process[p].id = i)
  <2>1. CASE q # p
    <3>1. process[q] = process'[q]
      BY <1>1, <2>1, MoveStep
    <3>2. record[i] = RecordOf(q, "CREATING") /\ KnowledgeOf(q)'
      BY <1>3, <2>1, <3>1, KnowledgeOfOthers DEF Inv, Knowledge, KnowledgeOf, Creating
    <3>3. record'[i] = RecordOf(q, "CREATING")'
      BY <1>3, <3>2 DEF KnowledgeOf, Creating
    <3>4. record[i] # None
      BY <1>1, <1>3, <3>1, <3>2, RecordOfType DEF Steps
    <3> QED BY <1>3, <3>1, <3>2, <3>3, <3>4 DEF Established, RecordOf
  <2>2. CASE q = p
    <3>1. GitAdd(p) \/ VerifyCreated(p)
      <4>1. ~Acquire(p) /\ ~WriteCreating(p) /\ ~Recheck(p)
        BY <1>1, <1>3, <2>2, GotoStep, IdleStep
           DEF Acquire, WriteCreating, Recheck, Steps, Idle
      <4>2. ~Activate(p) /\ ~PreservePartial(p) /\ ~Release(p) /\ ~WriteRemoved(p)
        BY <1>1, <1>3, <2>2, GotoStep, IdleStep
           DEF Activate, PreservePartial, Release, WriteRemoved, Steps, Idle
      <4>3. ~CleanupLoad(p)
        BY <1>1, <1>2, <1>3, <2>2, GotoStep DEF CleanupLoad, Steps, TypeOK, Busy
      <4>4. ~CleanupCheck(p) /\ ~GitRemove(p) /\ ~ConfirmDeregistered(p)
        BY <1>1, <1>3, <2>2, GotoStep, IdleStep
           DEF CleanupCheck, GitRemove, ConfirmDeregistered, Steps, Idle
      <4> QED BY <4>1, <4>2, <4>3, <4>4 DEF ProcessStep
    <3>2. process'[p].id = process[p].id
      BY <1>1, <1>3, <2>2, MoveStep DEF Idle
    <3>3. record' = record /\ record[i] = RecordOf(p, "CREATING")
      BY <1>1, <1>3, <2>2, <3>1, <3>2 DEF GitAdd, VerifyCreated, disk, KnowledgeOf, Creating
    <3>4. record[i] # None
      BY <1>1, <3>3, RecordOfType
    <3>5. CASE VerifyCreated(p)
      BY <1>3, <2>2, <3>2, <3>3, <3>4, <3>5 DEF VerifyCreated, Established
    <3>6. CASE GitAdd(p)
      BY <1>1, <1>3, <2>2, <3>2, <3>3, <3>4, <3>6, GotoStep DEF GitAdd, Adds, Steps
    <3> QED BY <3>1, <3>5, <3>6
  <2> QED BY <2>1, <2>2
<1>4. ASSUME record'[i] # None, record'[i].status = "ACTIVE"
      PROVE  record[i] # None /\ record'[i].repository = record[i].repository /\ Established(i)
  <2>1. CASE record'[i] = record[i]
    BY <1>4, <2>1 DEF Established
  <2>2. CASE record'[i] # record[i]
    <3>1. PICK s \in {"CREATING", "ACTIVE", "PARTIAL", "REMOVED"} :
             /\ record' = [record EXCEPT ![process[p].id] = RecordOf(p, s)]
             /\ <<process[p].pc, s>> \in Writes
      BY <1>1, <2>2, RecordStep
    <3>2. process[p].id = i /\ record'[i] = RecordOf(p, s)
      BY <1>1, <1>2, <2>2, <3>1 DEF TypeOK
    <3>3. s = "ACTIVE" /\ process[p].pc = "activate"
      BY <1>4, <3>1, <3>2 DEF Writes, RecordOf
    <3>4. record[i] = RecordOf(p, "CREATING")
      BY <1>1, <3>2, <3>3 DEF KnowledgeOf, Creating
    <3>5. record[i] # None
      BY <1>1, <3>4, RecordOfType
    <3> QED BY <3>2, <3>3, <3>4, <3>5 DEF Established, RecordOf
  <2> QED BY <2>1, <2>2
<1> QED BY <1>3, <1>4 DEF Established

\* What Git holds changes by the addition of one worktree, of one branch, or by the
\* removal of one worktree.
LEMMA GitStep ==
    ASSUME TypeOK, NEW p \in Processes, ProcessStep(p)
    PROVE  /\ branches \subseteq branches'
           /\ \/ Adds(p)
              \/ \A path \in Paths : tree'[path] \in {tree[path], None}
BY DEF ProcessStep, Acquire, WriteCreating, Recheck, GitAdd, VerifyCreated, Activate,
       PreservePartial, Release, CleanupLoad, CleanupCheck, GitRemove,
       ConfirmDeregistered, WriteRemoved, Adds, AddTree, git, TypeOK

\* A record is never lost, and keeps its repository.
LEMMA RecordKept ==
    ASSUME Inv, NEW p \in Processes, ProcessStep(p), NEW i \in Ids, record[i] # None
    PROVE  record'[i] # None /\ record'[i].repository = record[i].repository
<1>1. TypeOK /\ KnowledgeOf(p) /\ process[p].pc \in Steps
  BY MoveStep DEF Inv, Knowledge
<1>2. CASE record'[i] = record[i]
  BY <1>2
<1>3. CASE record'[i] # record[i]
  <2>1. PICK s \in {"CREATING", "ACTIVE", "PARTIAL", "REMOVED"} :
           /\ record' = [record EXCEPT ![process[p].id] = RecordOf(p, s)]
           /\ <<process[p].pc, s>> \in Writes
           /\ s = "CREATING" => record[process[p].id] = None
    BY <1>1, <1>3, RecordStep
  <2>2. process[p].id = i /\ record'[i] = RecordOf(p, s)
    BY <1>1, <1>3, <2>1 DEF TypeOK
  <2>3. process[p].pc \in {"activate", "partial", "removed"}
    BY <2>1, <2>2 DEF Writes
  <2>4. \E t \in {"CREATING", "ACTIVE"} : record[i] = RecordOf(p, t)
    BY <1>1, <2>2, <2>3 DEF KnowledgeOf, Creating, Cleaning
  <2>5. RecordOf(p, s) # None
    BY <1>1, RecordOfType
  <2> QED BY <2>2, <2>4, <2>5 DEF RecordOf
<1> QED BY <1>2, <1>3

\* Outside the processes' steps no identifier is established and no record changes.
LEMMA NothingEstablished ==
    ASSUME Inv, Next, ~ \E p \in Processes : ProcessStep(p), NEW i \in Ids, Established(i)'
    PROVE  Established(i)
<1>1. record' = record
  BY DEF Next, Crash, CreateBegin, CleanupBegin, RemoveStaleLock, UseWorktree, AddByHand,
         ReplaceRepository, disk
<1>2. \A q \in Processes : process'[q] = process[q] \/ process'[q].pc \notin {"verify", "activate"}
  <2>1. ASSUME NEW p \in Processes, Crash(p)
        PROVE  \A q \in Processes : process'[q] = process[q] \/ process'[q] = Idle
    BY <2>1, IdleStep DEF Crash, Inv
  <2>2. ASSUME NEW p \in Processes, NEW j \in Ids, CreateBegin(p, j) \/ CleanupBegin(p, j)
        PROVE  \A q \in Processes : process'[q] = process[q] \/ process'[q].pc = "acquire"
    BY <2>2 DEF CreateBegin, CleanupBegin, Inv, TypeOK
  <2>3. CASE process' = process
    BY <2>3
  <2> QED BY <2>1, <2>2, <2>3
          DEF Next, RemoveStaleLock, UseWorktree, AddByHand, ReplaceRepository, Idle
<1> QED BY <1>1, <1>2 DEF Established

\* A worktree is added under a CREATING record of this repository, on a new branch.
LEMMA AddFacts ==
    ASSUME Inv, NEW p \in Processes, Adds(p)
    PROVE  /\ process[p].id \in Ids
           /\ record[process[p].id] # None /\ Here(process[p].id)
           /\ BranchOf[process[p].id] \in branches' /\ BranchOf[process[p].id] \notin branches
<1>1. TypeOK /\ KnowledgeOf(p) /\ process[p].pc = "add"
  BY DEF Adds, At, Inv, Knowledge
<1>2. process[p].pc \in Steps /\ process[p].pc \in Creating
  BY <1>1 DEF Steps, Creating
<1>3. record[process[p].id] = RecordOf(p, "CREATING") /\ process[p].op = "create"
  BY <1>1, <1>2 DEF KnowledgeOf
<1>4. process[p].repository = source
  BY <1>1, <1>2, <1>3, BusyAt DEF KnowledgeOf
<1>5. record[process[p].id] # None /\ process[p].id \in Ids
  BY <1>1, <1>2, <1>3, RecordOfType
<1> QED BY <1>3, <1>4, <1>5 DEF RecordOf, Here, Adds, AddTree, NoCollisions

\* No two established identifiers of a repository share a branch.
LEMMA BranchStep ==
    ASSUME Inv, [Next]_vars
    PROVE  BranchInv'
<1> USE DEF Here
<1>1. ASSUME NEW p \in Processes, ProcessStep(p)
      PROVE  BranchInv'
  <2>1. source' = source /\ branches \subseteq branches'
    BY <1>1, MoveStep, GitStep DEF Inv
  <2>2. ASSUME Adds(p)
        PROVE  /\ BranchOf[process[p].id] \in branches' /\ BranchOf[process[p].id] \notin branches
               /\ Here(process[p].id)
    BY <2>2, AddFacts
  <2>3. \A i \in Ids : Established(i)' =>
            /\ record'[i].repository = record[i].repository
            /\ Established(i) \/ (Adds(p) /\ process[p].id = i)
    BY <1>1, EstablishedByAdd
  <2>4. \A i \in Ids : Established(i)' /\ Here(i)' => BranchOf[i] \in branches'
    BY <2>1, <2>2, <2>3 DEF Inv, BranchInv
  <2>5. ASSUME NEW i \in Ids, NEW j \in Ids, Established(i)', Established(j)',
               BranchOf[i] = BranchOf[j], record'[i].repository = record'[j].repository
        PROVE  i = j
    BY <2>2, <2>3, <2>5 DEF Inv, BranchInv
  <2> QED BY <2>4, <2>5 DEF BranchInv
<1>2. CASE Next /\ ~ \E p \in Processes : ProcessStep(p)
  <2>1. record' = record
    BY <1>2 DEF Next, Crash, CreateBegin, CleanupBegin, RemoveStaleLock, UseWorktree, AddByHand,
           ReplaceRepository, disk
  <2>2. \A i \in Ids : Established(i)' => Established(i)
    BY <1>2, NothingEstablished
  <2>3. CASE ReplaceRepository
    <3>1. \A i \in Ids : record[i] # None => record[i].repository # source'
      BY <2>3 DEF ReplaceRepository, Inv, TypeOK
    <3> QED BY <2>1, <2>2, <3>1 DEF Established, Inv, BranchInv
  <2>4. CASE ~ReplaceRepository
    <3>1. branches \subseteq branches' /\ source' = source
      BY <1>2, <2>4, HandStep DEF Next, Crash, CreateBegin, CleanupBegin, RemoveStaleLock, git, Inv
    <3> QED BY <2>1, <2>2, <3>1 DEF Inv, BranchInv
  <2> QED BY <2>3, <2>4
<1>3. CASE UNCHANGED vars
  BY <1>3 DEF vars, Inv, BranchInv, Established
<1> QED BY <1>1, <1>2, <1>3

\* A worktree has an owner with a record, whose branch nobody else established.
LEMMA TreeStep ==
    ASSUME Inv, [Next]_vars
    PROVE  TreeInv'
<1> USE DEF Here
<1>1. ASSUME NEW p \in Processes, ProcessStep(p), NEW path \in Paths, tree'[path] # None,
             tree'[path].owner # None
      PROVE  Owned(path)'
  <2>1. source' = source /\ branches \subseteq branches'
    BY <1>1, MoveStep, GitStep DEF Inv
  <2>2. ASSUME NEW i \in Ids, Established(i)', Here(i)'
        PROVE  /\ Here(i)
               /\ Established(i) \/ (Adds(p) /\ process[p].id = i)
    BY <1>1, <2>1, <2>2, EstablishedByAdd
  <2>3. CASE tree'[path] = tree[path]
    <3>1. Owned(path) /\ tree[path].owner \in Ids
      BY <1>1, <2>3 DEF Inv, TreeInv, TypeOK, Tree
    <3>2. PICK j \in Ids : j = tree[path].owner
      BY <3>1
    <3>3. record'[j] # None /\ Here(j)'
      BY <1>1, <2>1, <3>1, <3>2, RecordKept DEF Owned
    <3>4. ASSUME NEW i \in Ids, Established(i)', Here(i)', BranchOf[i] = BranchOf[j]
          PROVE  i = j
      BY <2>2, <3>1, <3>2, <3>4, AddFacts DEF Owned
    <3> QED BY <2>1, <2>3, <3>1, <3>2, <3>3, <3>4 DEF Owned
  <2>4. CASE tree'[path] # tree[path]
    <3>1. Adds(p)
      BY <1>1, <2>4, GitStep DEF Inv
    <3>2. PICK j \in Ids :
             /\ j = process[p].id /\ record[j] # None /\ Here(j)
             /\ BranchOf[j] \in branches' /\ BranchOf[j] \notin branches
      BY <3>1, AddFacts
    <3>3. tree'[path].owner = j /\ path = PathOf[j]
      BY <2>4, <3>1, <3>2 DEF Adds, AddTree, Target, Inv, TypeOK
    <3>4. record'[j] # None /\ Here(j)'
      BY <1>1, <2>1, <3>2, RecordKept
    <3>5. ASSUME NEW i \in Ids, Established(i)', Here(i)', BranchOf[i] = BranchOf[j]
          PROVE  i = j
      BY <2>2, <3>2, <3>5 DEF Inv, BranchInv
    <3> QED BY <3>2, <3>3, <3>4, <3>5 DEF Owned
  <2> QED BY <2>3, <2>4
<1>2. CASE Next /\ ~ \E p \in Processes : ProcessStep(p)
  <2>1. record' = record
    BY <1>2 DEF Next, Crash, CreateBegin, CleanupBegin, RemoveStaleLock, UseWorktree, AddByHand,
           ReplaceRepository, disk
  <2>2. \A i \in Ids : Established(i)' => Established(i)
    BY <1>2, NothingEstablished
  <2>3. CASE ReplaceRepository
    BY <2>3 DEF ReplaceRepository, TreeInv
  <2>4. CASE ~ReplaceRepository
    <3>1. branches \subseteq branches' /\ source' = source
      BY <1>2, <2>4, HandStep DEF Next, Crash, CreateBegin, CleanupBegin, RemoveStaleLock, git, Inv
    <3>2. ASSUME NEW path \in Paths, tree'[path] # None, tree'[path].owner # None
          PROVE  tree[path] # None /\ tree'[path].owner = tree[path].owner /\ tree[path] \in Tree
      <4>1. CASE \E q \in Paths : UseWorktree(q) \/ AddByHand(q)
        BY <3>2, <4>1, HandStep DEF Inv
      <4>2. CASE tree' = tree
        BY <3>2, <4>2 DEF Inv, TypeOK
      <4> QED BY <1>2, <2>4, <4>1, <4>2 DEF Next, Crash, CreateBegin, CleanupBegin,
                 RemoveStaleLock, git
    <3> QED BY <2>1, <2>2, <3>1, <3>2 DEF Inv, TreeInv, Owned, Tree
  <2> QED BY <2>3, <2>4
<1>3. CASE UNCHANGED vars
  BY <1>3 DEF vars, Inv, TreeInv, Owned, Established
<1> QED BY <1>1, <1>2, <1>3 DEF TreeInv

-----------------------------------------------------------------------------
(* The theorems.                                                            *)

\* The invariant is inductive.
LEMMA InductiveInvariant == Spec => []Inv
<1>1. Init => Inv
  <2> SUFFICES ASSUME Init PROVE Inv
    OBVIOUS
  <2>1. TypeOK
    <3>1. source \in Repositories
      BY DEF Init
    <3>2. crashes \in 0 .. MaxCrashes
      BY WorktreeAssumption DEF Init
    <3>3. /\ record \in [Ids -> Record \cup {None}] /\ tree \in [Paths -> Tree \cup {None}]
          /\ process \in [Processes -> Busy \cup {Idle}]
      BY DEF Init
    <3> QED BY <3>1, <3>2, <3>3 DEF Init, TypeOK
  <2>2. LockInv
    BY DEF Init, LockInv, Holding
  <2>3. \A p \in Processes : process[p] = Idle /\ process[p].pc = "idle"
    BY DEF Init, Idle
  <2>4. Knowledge
    BY <2>3 DEF Knowledge, KnowledgeOf, Creating, Cleaning
  <2>5. BranchInv /\ TreeInv
    BY DEF Init, BranchInv, Established, TreeInv
  <2> QED BY <2>1, <2>2, <2>4, <2>5 DEF Inv
<1>2. Inv /\ [Next]_vars => Inv'
  <2> SUFFICES ASSUME Inv, [Next]_vars PROVE Inv'
    OBVIOUS
  <2>1. TypeOK' /\ LockInv' /\ Knowledge'
    BY TypeStep, LockStep, KnowledgeStep DEF Inv
  <2>2. BranchInv' /\ TreeInv'
    BY BranchStep, TreeStep
  <2> QED BY <2>1, <2>2 DEF Inv
<1> QED BY <1>1, <1>2, PTL DEF Spec

\* The state of the worktree component has its types in every behaviour.
THEOREM TypeCorrect == Spec => []TypeOK
<1>1. Inv => TypeOK
  BY DEF Inv
<1> QED BY <1>1, InductiveInvariant, PTL

\* Of the identifiers that name one path or branch of a repository at most one is ever
\* ACTIVE, although each is created under a lock of its own.
THEOREM ExclusiveOwners == Spec => []OwnershipExclusive
<1>1. Inv => OwnershipExclusive
  BY WorktreeAssumption DEF Inv, BranchInv, Established, OwnershipExclusive
<1> QED BY <1>1, InductiveInvariant, PTL

\* A worktree that create_worktree made always has an ownership record of the
\* repository it is in, wherever a crash interrupted its creation.
THEOREM NoOrphans == Spec => []NoOrphanWorktree
<1>1. Inv => NoOrphanWorktree
  BY DEF Inv, TreeInv, Owned, Here, NoOrphanWorktree
<1> QED BY <1>1, InductiveInvariant, PTL

\* Ownership evidence only moves forward, whichever process writes it and however late.
THEOREM EvidenceForward == Spec => LifecycleForward
<1> DEFINE Forward == \A i \in Ids : record[i] # None /\ record'[i] # record[i] =>
        /\ record'[i] # None
        /\ record'[i].repository = record[i].repository /\ record'[i].base = record[i].base
        /\ <<record[i].status, record'[i].status>> \in
             {<<"CREATING", "ACTIVE">>, <<"CREATING", "PARTIAL">>, <<"ACTIVE", "PARTIAL">>,
              <<"ACTIVE", "REMOVED">>}
<1>1. Inv /\ [Next]_vars => [Forward]_vars
  <2> SUFFICES ASSUME Inv, Next, NEW i \in Ids, record[i] # None, record'[i] # record[i]
               PROVE  /\ record'[i] # None
                      /\ record'[i].repository = record[i].repository
                      /\ record'[i].base = record[i].base
                      /\ <<record[i].status, record'[i].status>> \in
                           {<<"CREATING", "ACTIVE">>, <<"CREATING", "PARTIAL">>,
                            <<"ACTIVE", "PARTIAL">>, <<"ACTIVE", "REMOVED">>}
    BY DEF vars
  <2>1. PICK p \in Processes : ProcessStep(p)
    BY DEF Next, Crash, CreateBegin, CleanupBegin, RemoveStaleLock, UseWorktree, AddByHand,
           ReplaceRepository, disk
  <2>2. TypeOK /\ KnowledgeOf(p) /\ process[p].pc \in Steps
    BY <2>1, MoveStep DEF Inv, Knowledge
  <2>3. PICK s \in {"CREATING", "ACTIVE", "PARTIAL", "REMOVED"} :
           /\ record' = [record EXCEPT ![process[p].id] = RecordOf(p, s)]
           /\ <<process[p].pc, s>> \in Writes
           /\ s = "CREATING" => record[process[p].id] = None
    BY <2>1, <2>2, RecordStep
  <2>4. process[p].id = i /\ record'[i] = RecordOf(p, s) /\ RecordOf(p, s) # None
    BY <2>2, <2>3, RecordOfType DEF TypeOK
  <2>5. PICK t \in {"CREATING", "ACTIVE"} :
           /\ record[i] = RecordOf(p, t)
           /\ <<t, s>> \in {<<"CREATING", "ACTIVE">>, <<"CREATING", "PARTIAL">>,
                            <<"ACTIVE", "PARTIAL">>, <<"ACTIVE", "REMOVED">>}
    BY <2>2, <2>3, <2>4 DEF Writes, KnowledgeOf, Creating, Cleaning
  <2> QED BY <2>4, <2>5 DEF RecordOf
<1> QED BY <1>1, InductiveInvariant, PTL DEF Spec, LifecycleForward

\* What a cleanup removes is at its recorded path in the repository of its record, and
\* was made by create_worktree for no other identifier.
THEOREM CleanupSparesOtherOwners == Spec => CleanupSparesOthers
<1> DEFINE Spares == \A p \in Processes : At(p, "remove") /\ process'[p] # process[p] =>
        \A path \in Paths : tree[path] # None /\ tree'[path] = None =>
            LET i == process[p].id IN
            /\ path = PathOf[i] /\ tree[path].content # "foreign"
            /\ record[i] # None /\ record[i].repository = source
            /\ tree[path].owner \in {i, None}
<1>1. Inv /\ [Next]_vars => [Spares]_vars
  <2> SUFFICES ASSUME Inv, Next, NEW p \in Processes, At(p, "remove"), process'[p] # process[p],
                      NEW path \in Paths, tree[path] # None, tree'[path] = None
               PROVE  /\ path = PathOf[process[p].id] /\ tree[path].content # "foreign"
                      /\ record[process[p].id] # None
                      /\ record[process[p].id].repository = source
                      /\ tree[path].owner \in {process[p].id, None}
    BY DEF vars
  <2>1. PICK q \in Processes : ProcessStep(q)
    BY IdleStep DEF Next, Crash, CreateBegin, CleanupBegin, RemoveStaleLock, UseWorktree, AddByHand,
           ReplaceRepository, git, Inv, TypeOK, At, Idle
  <2>2. q = p /\ TypeOK
    BY <2>1, MoveStep DEF Inv
  <2>3. GitRemove(p)
    BY <2>1, <2>2 DEF ProcessStep, Acquire, WriteCreating, Recheck, GitAdd, VerifyCreated, Activate,
         PreservePartial, Release, CleanupLoad, CleanupCheck, ConfirmDeregistered, WriteRemoved, At
  <2>4. path = Target(p) /\ process[p].id \in Ids /\ tree[path].content # "foreign"
    BY <2>2, <2>3, BusyAt DEF GitRemove, TypeOK, At, Steps, Busy
  <2>5. record[process[p].id] = RecordOf(p, "ACTIVE") /\ Here(process[p].id)
    <3>1. KnowledgeOf(p) /\ process[p].pc = "remove" /\ process[p].pc \in Cleaning
      BY DEF Inv, Knowledge, Cleaning, At
    <3>2. record[process[p].id] = RecordOf(p, "ACTIVE") /\ process[p].repository = source
      BY <3>1 DEF KnowledgeOf
    <3> QED BY <3>2 DEF RecordOf, Here
  <2>6. record[process[p].id] # None /\ Established(process[p].id)
    <3>1. record[process[p].id] # None
      BY <2>2, <2>5, RecordOfType DEF At, Steps
    <3>2. record[process[p].id].status = "ACTIVE"
      BY <2>5 DEF RecordOf
    <3> QED BY <3>1, <3>2 DEF Established
  <2>7. ASSUME tree[path].owner # None
        PROVE  tree[path].owner = process[p].id
    <3>1. Owned(path) /\ tree[path].owner \in Ids
      BY <2>7 DEF Inv, TreeInv, TypeOK, Tree
    <3>2. BranchOf[process[p].id] = BranchOf[tree[path].owner]
      BY <2>4, <3>1, WorktreeAssumption DEF Owned, Target
    <3> QED BY <2>4, <2>5, <2>6, <3>1, <3>2 DEF Owned
  <2> QED BY <2>4, <2>5, <2>6, <2>7 DEF Target, Here
<1> QED BY <1>1, InductiveInvariant, PTL DEF Spec, CleanupSparesOthers
=============================================================================
