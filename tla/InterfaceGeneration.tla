------------------------- MODULE InterfaceGeneration -------------------------
(***************************************************************************)
(* The test suites one user keeps for one interface, and the requests that *)
(* let the model write tests for it: a request finds the interface's suite,*)
(* waits for the model, stores its tests merged into the version it read,  *)
(* reads the suite back in a transaction of its own, and starts a          *)
(* validation of the version that is the newest then.  An idempotency key  *)
(* names one such operation.  Users upload versions and archive suites     *)
(* meanwhile, through any process.                                         *)
(*                                                                         *)
(* A version is the set of requests and uploads whose tests it holds; the  *)
(* name of a generated suite is derived from the interface, and unique     *)
(* among all suites of the user, archived ones too.  Requests with one key *)
(* and different bodies (refused by the fingerprint) are left out.         *)
(***************************************************************************)
EXTENDS Integers, FiniteSets, SequencesExt

CONSTANTS Key,          \* idempotency keys
          Caller,       \* requests in progress; a key may be sent repeatedly
          MaxSuites, MaxVersions, MaxCrashes

VARIABLES suites,      \* the user's suites of the interface, by creation
          operations,  \* validation_interface_generation_requests
          runs,        \* the validation a key started: the version it froze
          caller,      \* where each request is, and what it has read
          followed,    \* keys whose version was no longer the newest of its
                       \* suite when the suite was read back
          crashes

vars == <<suites, operations, runs, caller, followed, crashes>>

Upload == "upload"
NoVersion == <<0, 0>>
NoOperation == [status |-> "NONE", version |-> NoVersion, validation |-> NoVersion]
Idle == [at |-> "idle", key |-> Upload, suite |-> 0, previous |-> {}, version |-> NoVersion]

SuiteId == 1 .. MaxSuites
VersionId == (SuiteId \X (1 .. MaxVersions)) \cup {NoVersion}

\* Upload names no key; a bound that leaves room for a suite has one version.
KeyAssumption == Upload \notin Key
BoundAssumption == MaxSuites \in Nat /\ MaxVersions \in Nat \ {0} /\ MaxCrashes \in Nat

TypeOK ==
  /\ Len(suites) <= MaxSuites
  /\ \A s \in DOMAIN suites :
       /\ suites[s].archived \in BOOLEAN /\ suites[s].generated \in BOOLEAN
       /\ Len(suites[s].versions) \in 1 .. MaxVersions
       /\ \A v \in DOMAIN suites[s].versions :
            suites[s].versions[v] \in [tests : SUBSET (Key \cup {Upload}), by : Key \cup {Upload}]
  /\ operations \in [Key -> [status : {"NONE", "PROCESSING", "FAILED", "COMPLETED"},
                             version : VersionId, validation : VersionId]]
  /\ runs \in [Key -> VersionId]
  /\ caller \in [Caller -> [at : {"idle", "locate", "model", "stored", "validate", "complete"},
                            key : Key \cup {Upload}, suite : SuiteId \cup {0},
                            previous : SUBSET (Key \cup {Upload}), version : VersionId]]
  /\ followed \subseteq Key
  /\ crashes \in 0 .. MaxCrashes

Init ==
  /\ suites = <<>>
  /\ operations = [k \in Key |-> NoOperation]
  /\ runs = [k \in Key |-> NoVersion]
  /\ caller = [c \in Caller |-> Idle]
  /\ followed = {}
  /\ crashes = 0

-----------------------------------------------------------------------------
\* The rows of suites and versions.
NewSuite(generated, tests, by) ==
  [archived |-> FALSE, generated |-> generated, versions |-> <<[tests |-> tests, by |-> by]>>]
Latest(s) == Last(suites[s].versions)
Newest(s) == <<s, Len(suites[s].versions)>>
Version(v) == suites[v[1]].versions[v[2]]

\* create_test_suite, called by a user.
CreateSuite ==
  /\ Len(suites) < MaxSuites
  /\ suites' = Append(suites, NewSuite(FALSE, {Upload}, Upload))
  /\ UNCHANGED <<operations, runs, caller, followed, crashes>>

\* The keys of requests that have stored their version in s and not read it back.
Awaiting(s) == {caller[c].key : c \in {d \in Caller : caller[d].at = "stored" /\ caller[d].suite = s}}

\* add_test_suite_version locks the suite's row; the number is the next one.
AddVersion(s, tests, by) ==
  /\ ~suites[s].archived /\ Len(suites[s].versions) < MaxVersions
  /\ suites' = [suites EXCEPT ![s].versions = Append(@, [tests |-> tests, by |-> by])]
  /\ followed' = followed \cup Awaiting(s)

UploadVersion(s) ==
  /\ s \in DOMAIN suites
  /\ AddVersion(s, Latest(s).tests \cup {Upload}, Upload)
  /\ UNCHANGED <<operations, runs, caller, crashes>>

Archive(s) ==
  /\ s \in DOMAIN suites /\ ~suites[s].archived
  /\ suites' = [suites EXCEPT ![s].archived = TRUE]
  /\ UNCHANGED <<operations, runs, caller, followed, crashes>>

-----------------------------------------------------------------------------
\* begin_interface_generation that lets a key be used again after a failure.
MayStartAgain(k) == operations[k].status \in {"NONE", "FAILED"}
\* begin_interface_generation: only the request that inserted the row goes on.
MayStart(k) == operations[k].status = "NONE"

Begin(c, k) ==
  /\ caller[c].at = "idle" /\ MayStart(k)
  /\ operations' = [operations EXCEPT ![k].status = "PROCESSING"]
  /\ caller' = [caller EXCEPT ![c] = [Idle EXCEPT !.at = "locate", !.key = k]]
  /\ UNCHANGED <<suites, runs, followed, crashes>>

Failed(c) ==
  /\ operations' = [operations EXCEPT ![caller[c].key].status = "FAILED"]
  /\ caller' = [caller EXCEPT ![c] = Idle]

\* An unknown ref, another project type, a removed interface, a suite that does
\* not fit, a model or a validator that refuses, a store that raises: whatever
\* was written until then stays.
GenerationFails(c) ==
  /\ caller[c].at # "idle"
  /\ Failed(c)
  /\ UNCHANGED <<suites, runs, followed, crashes>>

\* find_test_suite_by_interface: any suite of the interface not archived (the
\* one touched last), or the active one the request names.
ReadSuite(c) ==
  LET active == {s \in DOMAIN suites : ~suites[s].archived} IN
  /\ caller[c].at = "locate"
  /\ \E s \in IF active = {} THEN {0} ELSE active :
       caller' = [caller EXCEPT ![c] = [@ EXCEPT !.at = "model", !.suite = s,
                    !.previous = IF s = 0 THEN {} ELSE Latest(s).tests]]
  /\ UNCHANGED <<suites, operations, runs, followed, crashes>>

\* The model has answered: the tests are merged into those read before.
Merged(c) == caller[c].previous \cup {caller[c].key}

StoreNewSuite(c) ==
  /\ caller[c].at = "model" /\ caller[c].suite = 0 /\ Len(suites) < MaxSuites
  /\ IF \E s \in DOMAIN suites : suites[s].generated
     THEN Failed(c) /\ UNCHANGED suites
     ELSE /\ suites' = Append(suites, NewSuite(TRUE, Merged(c), caller[c].key))
          /\ caller' = [caller EXCEPT ![c].at = "stored", ![c].suite = Len(suites) + 1]
          /\ UNCHANGED operations
  /\ UNCHANGED <<runs, followed, crashes>>

StoreVersion(c) ==
  LET s == caller[c].suite IN
  /\ caller[c].at = "model" /\ s # 0
  /\ IF suites[s].archived
     THEN Failed(c) /\ UNCHANGED <<suites, followed>>
     ELSE /\ AddVersion(s, Merged(c), caller[c].key)
          /\ caller' = [caller EXCEPT ![c].at = "stored"]
          /\ UNCHANGED operations
  /\ UNCHANGED <<runs, crashes>>

\* get_test_suite, after the commit: the service goes on with its first
\* version, which is the newest that anybody has stored until now.
ReadBack(c) ==
  /\ caller[c].at = "stored"
  /\ caller' = [caller EXCEPT ![c].at = "validate", ![c].version = Newest(caller[c].suite)]
  /\ UNCHANGED <<suites, operations, runs, followed, crashes>>

\* A validation of the version read back, not of a newer one.
Frozen(c) == caller[c].version

\* resolve_test_suite_versions: a version can be selected while the user keeps
\* its suite.
Selectable(v) == ~suites[v[1]].archived
\* bind_test_suite_versions, of a run that has none: the version a run is bound
\* to stays.
BoundVersion(k, v) == IF runs[k] = NoVersion THEN v ELSE runs[k]

\* create, with a key derived from the operation's: the version may belong to
\* a suite archived since, which is refused.
StartValidation(c) ==
  /\ caller[c].at = "validate"
  /\ IF ~Selectable(caller[c].version)
     THEN Failed(c) /\ UNCHANGED runs
     ELSE /\ runs' = [runs EXCEPT ![caller[c].key] = BoundVersion(caller[c].key, Frozen(c))]
          /\ caller' = [caller EXCEPT ![c].at = "complete"]
          /\ UNCHANGED operations
  /\ UNCHANGED <<suites, followed, crashes>>

CompleteGeneration(c) ==
  LET k == caller[c].key IN
  /\ caller[c].at = "complete"
  /\ operations' = [operations EXCEPT ![k] =
                      [status |-> "COMPLETED", version |-> caller[c].version, validation |-> runs[k]]]
  /\ caller' = [caller EXCEPT ![c] = Idle]
  /\ UNCHANGED <<suites, runs, followed, crashes>>

\* The process stops: nothing marks its operations, they stay PROCESSING.
Crash ==
  /\ crashes < MaxCrashes
  /\ crashes' = crashes + 1
  /\ caller' = [c \in Caller |-> Idle]
  /\ UNCHANGED <<suites, operations, runs, followed>>

Generate(c) ==
  \/ \E k \in Key : Begin(c, k)
  \/ GenerationFails(c) \/ ReadSuite(c) \/ StoreNewSuite(c) \/ StoreVersion(c) \/ ReadBack(c)
  \/ StartValidation(c) \/ CompleteGeneration(c)

Next ==
  \/ CreateSuite \/ (\E s \in SuiteId : UploadVersion(s) \/ Archive(s))
  \/ (\E c \in Caller : Generate(c)) \/ Crash

Spec == Init /\ [][Next]_vars

-----------------------------------------------------------------------------
\* A key creates at most one version and one validation, however often it is
\* sent, whatever fails and whenever the process stops.  The validation froze
\* that version, with the key's own tests, unless somebody stored another in
\* the same suite between the key's commit and its re-read: then, and only
\* then, it froze that later one.  A completed operation answers with the
\* version and the run its key's validation has.
OneResultPerKey ==
  \A k \in Key :
    LET mine == {v \in VersionId \ {NoVersion} :
                   /\ v[1] \in DOMAIN suites /\ v[2] \in DOMAIN suites[v[1]].versions
                   /\ Version(v).by = k}
    IN /\ Cardinality(mine) <= 1
       /\ runs[k] # NoVersion =>
            \E v \in mine :
              /\ k \in Version(v).tests
              /\ runs[k][1] = v[1] /\ runs[k][2] \in v[2] .. Len(suites[v[1]].versions)
              /\ runs[k] = v <=> k \notin followed
       /\ operations[k].status = "COMPLETED" =>
            operations[k].version = runs[k] /\ operations[k].validation = runs[k]
=============================================================================
