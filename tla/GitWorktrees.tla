---------------------------- MODULE GitWorktrees ----------------------------
(***************************************************************************)
(* Owned Git worktrees (git/local.py, git/ownership.py): creation and       *)
(* cleanup of a task worktree under a per-identifier lock file and an       *)
(* ownership record, next to a Git repository that users and agents change  *)
(* at the same time.  One action per Git command or file write; a process   *)
(* may stop between any two, which leaves its lock file behind.             *)
(***************************************************************************)
EXTENDS Integers, FiniteSets

CONSTANTS
    Processes,
    Ids,             \* worktree identifiers
    Paths, Branches,
    PathOf,          \* [Ids -> Paths], the target of the creation request
    BranchOf,        \* [Ids -> Branches], its dedicated branch
    Repositories,    \* identities a repository at the source path may have
    Commits,         \* what a base revision or a HEAD may be
    Descends,        \* pairs of a commit and an ancestor of it
    MaxCrashes,      \* bound
    None             \* no record, no worktree

\* make_binding gives every run a path of its own, while the branch name keeps only
\* the end of the run's identifier; requests that share a path also share a branch.
ASSUME WorktreeAssumption ==
    /\ PathOf \in [Ids -> Paths] /\ BranchOf \in [Ids -> Branches]
    /\ \A i, j \in Ids : PathOf[i] = PathOf[j] => BranchOf[i] = BranchOf[j]
    /\ Commits # {} /\ \A c \in Commits : <<c, c>> \in Descends
    /\ MaxCrashes \in Nat

VARIABLES
    lock,        \* identifiers whose lock file exists
    record,      \* [Ids -> None or an ownership record]
    tree,        \* [Paths -> None or the registered worktree at the path]
    branches,    \* refs/heads
    source,      \* identity of the repository that stands at the source path
    process,     \* what each process is doing
    crashes

vars == <<lock, record, tree, branches, source, process, crashes>>
disk == <<lock, record>>
git == <<tree, branches, source>>

\* What stands at a registered path: the worktree, clean, with ignored files only, or with
\* changes, an operation in progress or a lock; or something else than the worktree, such as
\* another repository that somebody put in the place of its directory.
Content == {"clean", "ignored", "changes", "foreign"}
Record == [status : {"CREATING", "ACTIVE", "PARTIAL", "REMOVED"}, repository : Repositories,
           base : Commits]
\* A worktree that Git lists: is it on the dedicated branch of its path, its HEAD, and the
\* identifier it was created for, None when a user added it by hand.
Tree == [branch : BOOLEAN, head : Commits, content : Content, owner : Ids \cup {None}]

ASSUME NoneAssumption ==
    None \notin Record /\ None \notin Tree /\ None \notin Ids

Idle == [pc |-> "idle"]
Steps == {"acquire", "exists", "recheck", "add", "verify", "activate", "partial",
          "load", "check", "remove", "deregistered", "removed", "release"}
Busy == [pc : Steps, op : {"create", "cleanup"}, id : Ids, repository : Repositories,
         base : Commits]

Init ==
    /\ lock = {}
    /\ record = [i \in Ids |-> None]
    /\ tree = [p \in Paths |-> None]
    /\ branches = {}
    /\ source \in Repositories
    /\ process = [p \in Processes |-> Idle]
    /\ crashes = 0

Goto(p, pc) == process' = [process EXCEPT ![p].pc = pc]
At(p, pc) == process[p].pc = pc
Target(p) == PathOf[process[p].id]

----------------------------------------------------------------------------
(* What is read from Git                                                    *)

\* discover: the digest of path, object format and root commits of the live repository
Identity == source

\* inspect: the worktree that Git lists at a path, with its branch, HEAD and status
Inspected(path) == tree[path]

\* _require_no_collisions: target path, registry, checked out and existing branch
NoCollisions(i) == Inspected(PathOf[i]) = None /\ BranchOf[i] \notin branches

\* _verify_record: the repository and the directory at the recorded path both have the
\* recorded identity, Git lists a worktree there, it is on the recorded branch, and its
\* HEAD descends from the recorded base.
Verified(i, repository, base) ==
    LET t == Inspected(PathOf[i]) IN
    /\ Identity = repository
    /\ t # None
    /\ t.content # "foreign"
    /\ t.branch
    /\ <<t.head, base>> \in Descends

----------------------------------------------------------------------------
(* create_worktree                                                          *)

\* The checks before the lock.  Users change the source and the commit of the base
\* revision all the time: what Git answers of them is whatever it is at that moment.
CreateBegin(p, i) ==
    /\ process[p] = Idle
    /\ record[i] = None /\ NoCollisions(i)
    /\ \E base \in Commits :
         process' = [process EXCEPT ![p] =
           [pc |-> "acquire", op |-> "create", id |-> i, repository |-> Identity, base |-> base]]
    /\ UNCHANGED <<disk, git, crashes>>

\* WorktreeOwnershipStore.acquire: create-exclusive; a lock left behind refuses
Acquire(p) ==
    /\ At(p, "acquire")
    /\ LET i == process[p].id IN
       IF i \in lock
       THEN process' = [process EXCEPT ![p] = Idle] /\ UNCHANGED lock
       ELSE /\ lock' = lock \cup {i}
            /\ Goto(p, IF process[p].op = "create" THEN "exists" ELSE "load")
    /\ UNCHANGED <<record, git, crashes>>

RecordOf(p, status) ==
    [status |-> status, repository |-> process[p].repository, base |-> process[p].base]

\* Defect: relies on the test made before the lock was taken.
WriteCreatingUnchecked(p) ==
    /\ At(p, "exists")
    /\ record' = [record EXCEPT ![process[p].id] = RecordOf(p, "CREATING")]
    /\ Goto(p, "recheck")
    /\ UNCHANGED <<lock, git, crashes>>

\* Defect: writes the record only once the worktree is active.
WriteCreatingLate(p) ==
    /\ At(p, "exists")
    /\ Goto(p, IF record[process[p].id] = None THEN "recheck" ELSE "release")
    /\ UNCHANGED <<disk, git, crashes>>

\* The record test under the lock, then the CREATING record, which may fail to
\* be written: nothing has been created yet.
WriteCreating(p) ==
    /\ At(p, "exists")
    /\ \/ /\ record[process[p].id] = None
          /\ record' = [record EXCEPT ![process[p].id] = RecordOf(p, "CREATING")]
          /\ Goto(p, "recheck")
       \/ Goto(p, "release") /\ UNCHANGED record
    /\ UNCHANGED <<lock, git, crashes>>

\* _require_safe_source (no changes, no operation in progress), identity, base and
\* collisions once more, under the lock
Recheck(p) ==
    /\ At(p, "recheck")
    /\ \E safe \in BOOLEAN, base \in Commits :
         LET unchanged == /\ safe
                          /\ Identity = process[p].repository
                          /\ base = process[p].base
                          /\ NoCollisions(process[p].id)
         IN Goto(p, IF unchanged THEN "add" ELSE "partial")
    /\ UNCHANGED <<disk, git, crashes>>

AddTree(p) ==
    /\ tree' = [tree EXCEPT ![Target(p)] =
         [branch |-> TRUE, head |-> process[p].base, content |-> "clean",
          owner |-> process[p].id]]
    /\ branches' = branches \cup {BranchOf[process[p].id]}

\* Defect: goes on to verify although the command failed.
GitAddUnchecked(p) ==
    /\ At(p, "add")
    /\ IF NoCollisions(process[p].id) THEN AddTree(p) ELSE UNCHANGED <<tree, branches>>
    /\ Goto(p, "verify")
    /\ UNCHANGED <<disk, source, crashes>>

\* git worktree add -b: Git refuses a path or branch that exists by now; a
\* command that fails or times out may have done nothing, made the branch, or
\* made everything.
GitAdd(p) ==
    /\ At(p, "add")
    /\ \/ NoCollisions(process[p].id) /\ AddTree(p) /\ Goto(p, "verify")
       \/ NoCollisions(process[p].id) /\ AddTree(p) /\ Goto(p, "partial")
       \/ /\ branches' \in {branches, branches \cup {BranchOf[process[p].id]}}
          /\ Goto(p, "partial") /\ UNCHANGED tree
    /\ UNCHANGED <<disk, source, crashes>>

VerifyCreated(p) ==
    /\ At(p, "verify")
    /\ Goto(p, IF /\ Verified(process[p].id, process[p].repository, process[p].base)
                  /\ Inspected(Target(p)).head = process[p].base
               THEN "activate" ELSE "partial")
    /\ UNCHANGED <<disk, git, crashes>>

\* The ACTIVE record replaces CREATING; a failed write, even one that replaced
\* the file before it failed, is preserved as partial.
Activate(p) ==
    /\ At(p, "activate")
    /\ \/ /\ record' = [record EXCEPT ![process[p].id] = RecordOf(p, "ACTIVE")]
          /\ \E next \in {"release", "partial"} : Goto(p, next)
       \/ UNCHANGED record /\ Goto(p, "partial")
    /\ UNCHANGED <<lock, git, crashes>>

\* _preserve_partial: its own failure is suppressed
PreservePartial(p) ==
    /\ At(p, "partial")
    /\ \/ record' = [record EXCEPT ![process[p].id] = RecordOf(p, "PARTIAL")]
       \/ UNCHANGED record
    /\ Goto(p, "release")
    /\ UNCHANGED <<lock, git, crashes>>

Release(p) ==
    /\ At(p, "release")
    /\ lock' = lock \ {process[p].id}
    /\ process' = [process EXCEPT ![p] = Idle]
    /\ UNCHANGED <<record, git, crashes>>

----------------------------------------------------------------------------
(* cleanup_worktree                                                         *)

\* repository and base are set once the record is read
CleanupBegin(p, i) ==
    /\ process[p] = Idle
    /\ process' = [process EXCEPT ![p] =
         [pc |-> "acquire", op |-> "cleanup", id |-> i, repository |-> Identity,
          base |-> CHOOSE c \in Commits : TRUE]]
    /\ UNCHANGED <<disk, git, crashes>>

\* No record is refused; a REMOVED record answers ALREADY_REMOVED or is refused
\* when its path is registered again; CREATING and PARTIAL are refused.
CleanupLoad(p) ==
    /\ At(p, "load")
    /\ LET r == record[process[p].id] IN
       IF r # None /\ r.status = "ACTIVE"
       THEN process' = [process EXCEPT ![p].pc = "check", ![p].repository = r.repository,
                                       ![p].base = r.base]
       ELSE Goto(p, "release")
    /\ UNCHANGED <<disk, git, crashes>>

\* Defect: trusts the record without the live identity of the repository.
CleanupCheckAnyRepository(p) ==
    /\ At(p, "check")
    /\ LET i == process[p].id
           removable == /\ tree[PathOf[i]] # None /\ tree[PathOf[i]].branch
                        /\ tree[PathOf[i]].content = "clean"
       IN Goto(p, IF removable THEN "remove" ELSE "release")
    /\ UNCHANGED <<disk, git, crashes>>

CleanupCheck(p) ==
    /\ At(p, "check")
    /\ LET i == process[p].id
           removable == /\ Verified(i, process[p].repository, process[p].base)
                        /\ Inspected(PathOf[i]).content = "clean"
       IN Goto(p, IF removable THEN "remove" ELSE "release")
    /\ UNCHANGED <<disk, git, crashes>>

\* git worktree remove without force: Git itself refuses changes, locks and a directory
\* that is not the worktree, but not ignored files; a command that times out may have
\* removed the worktree.
GitRemove(p) ==
    LET t == tree[Target(p)] IN
    /\ At(p, "remove")
    /\ \/ /\ t # None
          /\ t.content \in {"clean", "ignored"}
          /\ tree' = [tree EXCEPT ![Target(p)] = None]
          /\ \E next \in {"deregistered", "release"} : Goto(p, next)
       \/ Goto(p, "release") /\ UNCHANGED tree
    /\ UNCHANGED <<disk, branches, source, crashes>>

\* inspect may fail; a path that is still registered is refused
ConfirmDeregistered(p) ==
    /\ At(p, "deregistered")
    /\ Goto(p, IF Inspected(Target(p)) = None THEN "removed" ELSE "release") \/ Goto(p, "release")
    /\ UNCHANGED <<disk, git, crashes>>

WriteRemoved(p) ==
    /\ At(p, "removed")
    /\ \/ record' = [record EXCEPT ![process[p].id].status = "REMOVED"]
       \/ UNCHANGED record
    /\ Goto(p, "release")
    /\ UNCHANGED <<lock, git, crashes>>

----------------------------------------------------------------------------
(* The environment: crashes, the operator, and whoever uses the repository. *)
(* Nobody deletes the dedicated branch of a task (git branch -D).           *)

Crash(p) ==
    /\ process[p] # Idle /\ crashes < MaxCrashes
    /\ crashes' = crashes + 1
    /\ process' = [process EXCEPT ![p] = Idle]
    /\ UNCHANGED <<disk, git>>

\* The operator removes a lock file that no running process holds.
RemoveStaleLock(i) ==
    /\ i \in lock
    /\ ~ \E p \in Processes : process[p] # Idle /\ ~At(p, "acquire") /\ process[p].id = i
    /\ lock' = lock \ {i}
    /\ UNCHANGED <<record, git, process, crashes>>

\* The branch of the requests for a path is checked out in another worktree.
CheckedOutElsewhere(path) ==
    \E i, j \in Ids :
        /\ PathOf[i] = path /\ BranchOf[j] = BranchOf[i] /\ PathOf[j] # path
        /\ tree[PathOf[j]] # None /\ tree[PathOf[j]].branch

\* An agent or user edits, commits, resets, locks, leaves the branch or comes back to
\* it, replaces the directory, or removes the worktree by hand.
UseWorktree(path) ==
    /\ tree[path] # None
    /\ \/ \E c \in Content : tree' = [tree EXCEPT ![path].content = c]
       \/ \E c \in Commits : tree' = [tree EXCEPT ![path].head = c]
       \/ /\ tree[path].branch \/ ~CheckedOutElsewhere(path)
          /\ tree' = [tree EXCEPT ![path].branch = ~@]
       \/ tree' = [tree EXCEPT ![path] = None]
    /\ tree' # tree
    /\ UNCHANGED <<disk, branches, source, process, crashes>>

\* A user adds a worktree of the repository at a free path, on any branch: the one that
\* requests for the path name, which is created when it does not exist, or another.
AddByHand(path) ==
    /\ tree[path] = None
    /\ \E onBranch \in BOOLEAN, c \in Commits :
         /\ onBranch => ~CheckedOutElsewhere(path)
         /\ tree' = [tree EXCEPT ![path] =
              [branch |-> onBranch, head |-> c, content |-> "clean", owner |-> None]]
         /\ branches' = IF onBranch
                        THEN branches \cup {BranchOf[i] : i \in {j \in Ids : PathOf[j] = path}}
                        ELSE branches
    /\ UNCHANGED <<disk, source, process, crashes>>

\* A repository with another identity (path, object format and root commits)
\* takes the place of the source for good, with no operation running.
ReplaceRepository ==
    /\ \A p \in Processes : process[p] = Idle
    /\ \E r \in Repositories \ {source} :
         /\ ~ \E i \in Ids : record[i] # None /\ record[i].repository = r
         /\ source' = r
    /\ tree' = [p \in Paths |-> None]
    /\ branches' = {}
    /\ UNCHANGED <<disk, process, crashes>>

ProcessStep(p) ==
    \/ Acquire(p) \/ WriteCreating(p) \/ Recheck(p) \/ GitAdd(p) \/ VerifyCreated(p)
    \/ Activate(p) \/ PreservePartial(p) \/ Release(p)
    \/ CleanupLoad(p) \/ CleanupCheck(p) \/ GitRemove(p) \/ ConfirmDeregistered(p)
    \/ WriteRemoved(p)

Next ==
    \/ \E p \in Processes : ProcessStep(p) \/ Crash(p)
    \/ \E p \in Processes, i \in Ids : CreateBegin(p, i) \/ CleanupBegin(p, i)
    \/ \E i \in Ids : RemoveStaleLock(i)
    \/ \E path \in Paths : UseWorktree(path) \/ AddByHand(path)
    \/ ReplaceRepository

Spec == Init /\ [][Next]_vars

----------------------------------------------------------------------------
(* Properties                                                               *)

(* Type invariant. *)
TypeOK ==
    /\ lock \subseteq Ids
    /\ record \in [Ids -> Record \cup {None}]
    /\ tree \in [Paths -> Tree \cup {None}]
    /\ branches \subseteq Branches
    /\ source \in Repositories
    /\ process \in [Processes -> Busy \cup {Idle}]
    /\ crashes \in 0 .. MaxCrashes

(* Requests under different identifiers hold different locks, yet at most one *)
(* of those that name the same path or branch of a repository ever becomes    *)
(* ACTIVE in it.                                                              *)
OwnershipExclusive ==
    \A i, j \in Ids :
        /\ i # j /\ (PathOf[i] = PathOf[j] \/ BranchOf[i] = BranchOf[j])
        /\ record[i] # None /\ record[j] # None
        /\ record[i].repository = record[j].repository
        => ~(record[i].status = "ACTIVE" /\ record[j].status = "ACTIVE")

(* Whatever a crash interrupts, a worktree that create_worktree made has an   *)
(* ownership record of the repository it is in; create_worktree leaves no     *)
(* worktree behind that nobody owns.                                          *)
NoOrphanWorktree ==
    \A path \in Paths : tree[path] # None /\ tree[path].owner # None =>
        /\ record[tree[path].owner] # None
        /\ record[tree[path].owner].repository = source

(* Ownership evidence only moves forward: a PARTIAL or REMOVED record, and a   *)
(* record of another creation, is never overwritten by a late process.         *)
LifecycleForward ==
    [][\A i \in Ids : record[i] # None /\ record'[i] # record[i] =>
        /\ record'[i] # None
        /\ record'[i].repository = record[i].repository /\ record'[i].base = record[i].base
        /\ <<record[i].status, record'[i].status>> \in
             {<<"CREATING", "ACTIVE">>, <<"CREATING", "PARTIAL">>, <<"ACTIVE", "PARTIAL">>,
              <<"ACTIVE", "REMOVED">>}]_vars

(* A cleanup removes the worktree at its recorded path in the repository of its  *)
(* record, and never one that create_worktree made for another identifier,        *)
(* whatever took the place of the repository, the directory or the worktree since *)
(* it was recorded and between the check and the removal.  What it may remove is  *)
(* the worktree it created or one that a user added by hand at the same path:     *)
(* _verify_record compares repository, path, branch and ancestry, by which the    *)
(* two cannot be told apart, and Git accepts what replaced it after the check.    *)
CleanupSparesOthers ==
    [][\A p \in Processes : At(p, "remove") /\ process'[p] # process[p] =>
        \A path \in Paths : tree[path] # None /\ tree'[path] = None =>
            LET i == process[p].id IN
            /\ path = PathOf[i] /\ tree[path].content # "foreign"
            /\ record[i] # None /\ record[i].repository = source
            /\ tree[path].owner \in {i, None}]_vars
=============================================================================
