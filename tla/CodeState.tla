------------------------------ MODULE CodeState ------------------------------
(***************************************************************************)
(* The navigation index of one repository: for every navigation file       *)
(* (manifests, configuration, entry points) the components found in it,    *)
(* all anchored at one commit.  ensure(commit) brings the index from the   *)
(* commit it is at to another one: the first time by a bounded scan, later *)
(* by the files that differ.  It waits for git and for the model between   *)
(* reading the old commit and writing the new index; a lock of the process *)
(* keeps its other calls for the repository out, but not those of another  *)
(* process over the same tables.                                           *)
(*                                                                         *)
(* The components of a file are abstracted to the version of the file they *)
(* were built from; roles and relationships, the part the model words, are *)
(* left out.  git's renames are a removed and a changed path, as in code.  *)
(***************************************************************************)
EXTENDS Integers, FiniteSets, Functions

CONSTANTS Path,
          Navigation,    \* those of them _is_navigation_file accepts
          Commit,        \* positive numbers
          Tree,          \* Tree[c][p]: the version of p in commit c, 0 if absent
          Caller,        \* tasks that call ensure
          ProcessOf,     \* the process each caller runs in
          MaxFiles,      \* max_files
          MaxFailures    \* bound on failed git commands

NoCommit == 0
Version == UNION {{Tree[c][p] : p \in Path} : c \in Commit}
NoRow == [version |-> 0, commit |-> NoCommit]
Idle == [at |-> "idle", target |-> NoCommit, old |-> NoCommit, how |-> "none", contents |-> <<>>]

VARIABLES head,      \* commit_sha of the repository's row, or NoCommit
          rows,      \* the components of each path
          lock,      \* the caller that holds each process's lock
          caller,    \* what each call of ensure has read
          failures,
          skipped,   \* navigation files whose last change was not read
          late,      \* callers that have entered, and another process has since
                     \* replaced the commit they have read
          astray     \* files that an update of such a caller did not know of

vars == <<head, rows, lock, caller, failures, skipped, late, astray>>

Free == 0
Processes == {ProcessOf[k] : k \in Caller}

TypeOK ==
  /\ head \in Commit \cup {NoCommit}
  /\ rows \in [Path -> [version : Version \cup {0}, commit : Commit \cup {NoCommit}]]
  /\ lock \in [Processes -> Caller \cup {Free}]
  /\ \A k \in Caller : /\ caller[k].at \in {"idle", "locked", "read"}
                       /\ DOMAIN caller[k].contents \subseteq Navigation
  /\ failures \in 0 .. MaxFailures /\ skipped \subseteq Navigation
  /\ late \subseteq Caller /\ astray \subseteq Path

Init ==
  /\ head = NoCommit
  /\ rows = [p \in Path |-> NoRow]
  /\ lock = [q \in Processes |-> Free]
  /\ caller = [k \in Caller |-> Idle]
  /\ failures = 0 /\ skipped = {} /\ late = {} /\ astray = {}

-----------------------------------------------------------------------------
\* git ls-tree, and git diff --name-status between two commits.
Files(c) == {p \in Path : Tree[c][p] # 0}
Removed(old, new) == Files(old) \ Files(new)
Changed(old, new) == {p \in Files(new) : Tree[old][p] # Tree[new][p]}

\* _read_selected: at most MaxFiles of the selected files (which of them the
\* order of their names decides), less those git could not show.
Readable(selected) == {S \in SUBSET selected : Cardinality(S) <= MaxFiles}
AllRead(selected, S) == Cardinality(S) = MaxFiles \/ S = selected
Contents(c, S) == [p \in S |-> Tree[c][p]]

\* A caller that does not wait for the others of its process.
MayEnterAtOnce(k) == TRUE
MayEnter(k) == lock[ProcessOf[k]] = Free

Release(k) == /\ lock' = [lock EXCEPT ![ProcessOf[k]] = Free]
              /\ caller' = [caller EXCEPT ![k] = Idle]

\* The lock is taken (who waits for it has done nothing yet) and the old commit
\* read; if the index is there already the call returns at once.
Enter(k, c) ==
  /\ caller[k].at = "idle" /\ MayEnter(k) /\ head # c
  /\ lock' = [lock EXCEPT ![ProcessOf[k]] = k]
  /\ caller' = [caller EXCEPT ![k] = [Idle EXCEPT !.at = "locked", !.target = c, !.old = head,
                   !.how = IF head = NoCommit THEN "scan" ELSE "diff"]]
  /\ UNCHANGED <<head, rows, failures, skipped, late, astray>>

\* _initial_scan or _incremental_update up to their write: the selected files
\* of the new commit, some of which git may fail to show.
Select(k) ==
  IF caller[k].how = "scan" THEN Navigation \cap Files(caller[k].target)
  ELSE Navigation \cap Changed(caller[k].old, caller[k].target)

ReadFiles(k) ==
  /\ caller[k].at = "locked"
  /\ \E S \in Readable(Select(k)) :
       /\ AllRead(Select(k), S) \/ failures < MaxFailures
       /\ failures' = IF AllRead(Select(k), S) THEN failures ELSE failures + 1
       /\ caller' = [caller EXCEPT ![k] = [@ EXCEPT !.at = "read",
                                             !.contents = Contents(caller[k].target, S)]]
  /\ UNCHANGED <<head, rows, lock, skipped, late, astray>>

\* The old commit is gone from the shallow cache, or git fails: a ToolError of
\* the incremental update falls back to the scan of the new commit.
FallBack(k) ==
  /\ caller[k].at = "locked" /\ caller[k].how = "diff" /\ failures < MaxFailures
  /\ failures' = failures + 1
  /\ caller' = [caller EXCEPT ![k].how = "scan"]
  /\ UNCHANGED <<head, rows, lock, skipped, late, astray>>

\* resolve or the scan fails, or the process stops: the lock is released.
Fail(k) ==
  /\ caller[k].at \in {"locked", "read"} /\ failures < MaxFailures
  /\ failures' = failures + 1
  /\ Release(k)
  /\ late' = late \ {k}
  /\ UNCHANGED <<head, rows, skipped, astray>>

\* An update that only writes what it built.
KeptFilesAll(removed, built) == Path
\* apply_incremental deletes the rows of removed and of rebuilt paths.
KeptFiles(removed, built) == Path \ (removed \cup built)

\* Who works in another process on the commit that k replaces.
Overtakes(k) == {j \in Caller : ProcessOf[j] # ProcessOf[k] /\ caller[j].at \in {"locked", "read"}}

\* replace_repository deletes every row first.
ReplaceRepository(k) ==
  LET contents == caller[k].contents  c == caller[k].target IN
  /\ caller[k].at = "read" /\ caller[k].how = "scan"
  /\ rows' = [p \in Path |-> IF p \in DOMAIN contents
                             THEN [version |-> contents[p], commit |-> c] ELSE NoRow]
  /\ head' = c
  /\ skipped' = Select(k) \ DOMAIN contents /\ astray' = {}
  /\ late' = (late \cup Overtakes(k)) \ {k}
  /\ Release(k)
  /\ UNCHANGED failures

\* What the other process changed since k read its old commit.
Unknown(k) == {p \in Path : Tree[head][p] # Tree[caller[k].old][p]}

\* apply_incremental anchors every other row at the new commit.
ApplyIncremental(k) ==
  LET contents == caller[k].contents  c == caller[k].target
      removed == Removed(caller[k].old, c)
      kept == KeptFiles(removed, DOMAIN contents)
  IN
  /\ caller[k].at = "read" /\ caller[k].how = "diff"
  /\ rows' = [p \in Path |->
       IF p \in DOMAIN contents THEN [version |-> contents[p], commit |-> c]
       ELSE IF p \in kept /\ rows[p] # NoRow THEN [rows[p] EXCEPT !.commit = c]
       ELSE NoRow]
  /\ head' = c
  /\ skipped' = (skipped \cup Select(k)) \ (removed \cup DOMAIN contents)
  /\ astray' = (astray \cup IF k \in late THEN Unknown(k) ELSE {}) \ (removed \cup DOMAIN contents)
  /\ late' = (late \cup Overtakes(k)) \ {k}
  /\ Release(k)
  /\ UNCHANGED failures

Ensure(k) == \/ \E c \in Commit : Enter(k, c)
             \/ ReadFiles(k) \/ FallBack(k) \/ Fail(k)
             \/ ReplaceRepository(k) \/ ApplyIncremental(k)

Next == \E k \in Caller : Ensure(k)
Spec == Init /\ [][Next]_vars

-----------------------------------------------------------------------------
\* The index is that of the commit it names: a navigation file has components
\* exactly if the commit has the file, built from the commit's version of it,
\* whatever way through older and newer commits led there.  The exceptions are
\* the files whose last change git did not show (or max_files cut off), whose
\* old components are anchored at the new commit like the others; and, with
\* several processes, the files that another process had changed meanwhile
\* when an update computed from an older commit was written over its index.
\* Every other file of that update is right, and so are all of one process.
NavigationIsCurrent ==
  head # NoCommit =>
    /\ \A p \in Navigation \ (skipped \cup astray) : rows[p].version = Tree[head][p]
    /\ \A p \in Path : rows[p] # NoRow => rows[p].commit = head /\ p \in Files(head) \cup astray
=============================================================================
