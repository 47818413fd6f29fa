----------------------- MODULE ValidationPartsProofs ------------------------
(***************************************************************************)
(* Proofs about the parts of RepeatedRequests beside a validation: a key   *)
(* of InterfaceGeneration stores one version and starts one validation, of *)
(* that version unless another was stored before the suite was read back,  *)
(* for any keys, requests in progress, suites, versions and stops; and what*)
(* a side of ValidationSandbox leaves behind, for any sides and reports.   *)
(***************************************************************************)
EXTENDS RepeatedRequests, SequenceTheorems, FiniteSetTheorems, TLAPS

-----------------------------------------------------------------------------
(* InterfaceGeneration: the keys of generated tests.                       *)

LEMMA Bounds == MaxSuites \in Nat /\ MaxVersions \in Nat /\ MaxVersions >= 1 /\ MaxCrashes \in Nat
BY GenerationAssumption DEF G!BoundAssumption
LEMMA NoKeyIsUpload == G!Upload \notin Key
BY GenerationAssumption DEF G!KeyAssumption

\* The version n of suite s is there, and was stored by q.
Stored(s, n) == s \in DOMAIN suites /\ n \in DOMAIN suites[s].versions
By(s, n, q) == Stored(s, n) /\ suites[s].versions[n].by = q
\* Key k has stored a version in suite s, which is the newest there or has been
\* followed by another; v is that version or the one read back in its place.
Wrote(s, k) == \E n \in Nat : By(s, n, k) /\ (n = Len(suites[s].versions) <=> k \notin followed)
Froze(v, k) == \E s, n, m \in Nat : /\ v = <<s, m>> /\ By(s, n, k) /\ Stored(s, m) /\ n <= m
                                    /\ (n = m <=> k \notin followed)
Source == Key \cup {G!Upload}
Versions == [tests : SUBSET Source, by : Source]
SuiteRow == [archived : BOOLEAN, generated : BOOLEAN, versions : Seq(Versions)]
OperationRow == [status : {"NONE", "PROCESSING", "FAILED", "COMPLETED"},
                 version : G!VersionId, validation : G!VersionId]
CallerRow == [at : {"idle", "locate", "model", "stored", "validate", "complete"}, key : Source,
              suite : G!SuiteId \cup {0}, previous : SUBSET Source, version : G!VersionId]
SuiteTypes ==
  /\ suites \in Seq(SuiteRow) /\ Len(suites) <= MaxSuites
  /\ \A s \in DOMAIN suites : Len(suites[s].versions) \in 1 .. MaxVersions
GenTypes ==
  /\ SuiteTypes
  /\ operations \in [Key -> OperationRow]
  /\ generated \in [Key -> G!VersionId]
  /\ caller \in [Caller -> CallerRow]
  /\ followed \subseteq Key
  /\ crashes \in 0 .. MaxCrashes

\* A version holds the tests of whoever stored it; a key stores one.
VersionInv ==
  /\ \A s, n \in Nat : Stored(s, n) => suites[s].versions[n].by \in suites[s].versions[n].tests
  /\ \A k \in Key, s, n, t, m \in Nat : By(s, n, k) /\ By(t, m, k) => s = t /\ n = m

\* A request that goes on is the only one of its key, and knows what the key has.
CallerInv(c) ==
  LET k == caller[c].key IN
  caller[c].at # "idle" =>
    /\ k \in Key /\ operations[k].status = "PROCESSING"
    /\ \A d \in Caller : caller[d].at # "idle" /\ caller[d].key = k => d = c
    /\ caller[c].at \in {"locate", "model"} => k \notin followed /\ \A s, n \in Nat : ~By(s, n, k)
    /\ caller[c].at = "model" /\ caller[c].suite # 0 => caller[c].suite \in DOMAIN suites
    /\ caller[c].at = "stored" => caller[c].suite \in DOMAIN suites /\ Wrote(caller[c].suite, k)
    /\ caller[c].at \in {"validate", "complete"} => Froze(caller[c].version, k)
    /\ caller[c].at # "complete" => generated[k] = G!NoVersion
    /\ caller[c].at = "complete" => generated[k] = caller[c].version

KeyInv(k) ==
  /\ operations[k].status = "NONE" =>
       generated[k] = G!NoVersion /\ k \notin followed /\ \A s, n \in Nat : ~By(s, n, k)
  /\ generated[k] # G!NoVersion => Froze(generated[k], k)
  /\ operations[k].status = "COMPLETED" =>
       operations[k].version = generated[k] /\ operations[k].validation = generated[k]

GenInv ==
  /\ GenTypes /\ VersionInv
  /\ \A c \in Caller : CallerInv(c)
  /\ \A k \in Key : KeyInv(k)

-----------------------------------------------------------------------------
(* What the statements on suites do to the versions.                        *)

SuitesGrow ==
  DOMAIN suites \subseteq DOMAIN suites' /\ \A t, m \in Nat : Stored(t, m) => Stored(t, m)'
\* A key is followed exactly when a version comes into the suite it waits for.
Following ==
  /\ followed \subseteq followed' /\ followed' \subseteq Key
  /\ \A q \in followed' \ followed : \E d \in Caller : caller[d].at = "stored" /\ caller[d].key = q
  /\ \A d \in Caller : caller[d].at = "stored" =>
       LET old == suites[caller[d].suite].versions  new == suites'[caller[d].suite].versions IN
       \/ Len(new) = Len(old) /\ (caller[d].key \in followed' => caller[d].key \in followed)
       \/ Len(new) > Len(old) /\ caller[d].key \in followed'
\* The version n of suite s is new; all others are as they were.
Grown(s, n, q, tests) ==
  /\ s \in Nat /\ n \in Nat /\ SuitesGrow
  /\ ~Stored(s, n) /\ Stored(s, n)' /\ suites'[s].versions[n] = [tests |-> tests, by |-> q]
  /\ \A t, m \in Nat : t # s \/ m # n =>
       /\ Stored(t, m)' <=> Stored(t, m)
       /\ Stored(t, m) => suites'[t].versions[m] = suites[t].versions[m]

LEMMA SeqElements == ASSUME NEW T, NEW q \in Seq(T) PROVE \A i \in DOMAIN q : q[i] \in T
OBVIOUS

LEMMA LatestRow ==
  ASSUME SuiteTypes, NEW s \in DOMAIN suites
  PROVE  /\ suites[s].versions \in Seq(Versions) /\ Len(suites[s].versions) \in 1 .. MaxVersions
         /\ G!Latest(s) \in Versions /\ s \in Nat /\ s \in G!SuiteId
<1>1. suites \in Seq(SuiteRow) /\ Len(suites) <= MaxSuites
  BY DEF SuiteTypes
<1>2. suites[s] \in SuiteRow /\ s \in 1 .. Len(suites) /\ Len(suites) \in Nat
  BY <1>1, SeqElements
<1>3. suites[s].versions \in Seq(Versions)
  BY <1>2 DEF SuiteRow
<1>4. Len(suites[s].versions) \in 1 .. MaxVersions
  BY DEF SuiteTypes
<1>5. Len(suites[s].versions) \in DOMAIN suites[s].versions
  BY <1>3, <1>4
<1>6. G!Latest(s) \in Versions
  BY <1>3, <1>5, SeqElements DEF G!Latest, G!Last
<1> QED
  BY <1>1, <1>2, <1>3, <1>4, <1>6, Bounds DEF G!SuiteId

LEMMA SuiteAdded ==
  ASSUME SuiteTypes, NEW g \in BOOLEAN, NEW q \in Source, NEW tests \in SUBSET Source,
         NEW s0 \in Nat, s0 = Len(suites) + 1, s0 <= MaxSuites, suites' = Append(suites, G!NewSuite(g, tests, q))
  PROVE  /\ SuiteTypes' /\ Grown(s0, 1, q, tests) /\ s0 \in DOMAIN suites' /\ Len(suites'[s0].versions) = 1
         /\ \A t \in DOMAIN suites : suites'[t].versions = suites[t].versions
<1> DEFINE new == G!NewSuite(g, tests, q)
<1>1. new \in SuiteRow /\ Len(new.versions) = 1 /\ new.versions[1] = [tests |-> tests, by |-> q]
      /\ DOMAIN new.versions = {1}
  BY DEF G!NewSuite, SuiteRow, Versions
<1> HIDE DEF new
<1>2. /\ suites \in Seq(SuiteRow) /\ Len(suites) \in Nat /\ suites' = Append(suites, new)
      /\ DOMAIN suites = 1 .. Len(suites)
  BY DEF SuiteTypes, new
<1>3. /\ suites' \in Seq(SuiteRow) /\ Len(suites') = s0
      /\ suites'[s0] = new /\ \A s \in 1 .. Len(suites) : suites'[s] = suites[s]
      /\ DOMAIN suites' = 1 .. s0
  BY <1>1, <1>2, AppendProperties
<1>4. SuiteTypes'
  <2>1. ASSUME NEW s \in 1 .. s0 PROVE Len(suites'[s].versions) \in 1 .. MaxVersions
    <3>1. CASE s = s0
      <4>1. suites'[s] = new
        BY <1>3, <3>1
      <4>2. Len(suites'[s].versions) = 1
        BY <1>1, <4>1
      <4> QED
        BY <4>2, Bounds
    <3>2. CASE s # s0
      BY <1>2, <1>3, <2>1, <3>2 DEF SuiteTypes
    <3> QED
      BY <3>1, <3>2
  <2> QED
    BY <1>3, <2>1 DEF SuiteTypes
<1>5. /\ DOMAIN suites \subseteq DOMAIN suites' /\ ~Stored(s0, 1) /\ Stored(s0, 1)'
      /\ suites'[s0].versions[1] = [tests |-> tests, by |-> q]
  <2>1. DOMAIN suites \subseteq DOMAIN suites' /\ s0 \notin DOMAIN suites /\ s0 \in DOMAIN suites'
    BY <1>2, <1>3
  <2>2. suites'[s0].versions = new.versions
    BY <1>3
  <2>3. 1 \in DOMAIN suites'[s0].versions
    BY <1>1, <2>2
  <2>4. suites'[s0].versions[1] = [tests |-> tests, by |-> q]
    BY <1>1, <2>2
  <2> QED
    BY <2>1, <2>3, <2>4 DEF Stored
<1>6. ASSUME NEW t \in Nat, NEW m \in Nat, t # s0 \/ m # 1
      PROVE  /\ Stored(t, m)' <=> Stored(t, m)
             /\ Stored(t, m) => suites'[t].versions[m] = suites[t].versions[m]
  BY <1>1, <1>2, <1>3, <1>6 DEF Stored
<1>7. SuitesGrow
  BY <1>5, <1>6 DEF SuitesGrow
<1>8. \A t \in DOMAIN suites : suites'[t].versions = suites[t].versions
  BY <1>2, <1>3
<1>9. s0 \in DOMAIN suites' /\ Len(suites'[s0].versions) = 1
  BY <1>1, <1>3
<1>10. Grown(s0, 1, q, tests)
  BY <1>5, <1>6, <1>7 DEF Grown
<1> QED
  BY <1>4, <1>8, <1>9, <1>10

LEMMA VersionAdded ==
  ASSUME SuiteTypes, NEW s \in DOMAIN suites, NEW q \in Source, NEW tests \in SUBSET Source,
         NEW n0 \in Nat, n0 = Len(suites[s].versions) + 1, G!AddVersion(s, tests, q)
  PROVE  /\ SuiteTypes' /\ Grown(s, n0, q, tests) /\ Len(suites'[s].versions) = n0
         /\ \A t \in DOMAIN suites \ {s} : suites'[t] = suites[t]
<1> DEFINE vs == suites[s].versions
           new == [tests |-> tests, by |-> q]
           row == [suites[s] EXCEPT !.versions = Append(vs, new)]
<1>1. /\ suites \in Seq(SuiteRow) /\ Len(suites) \in Nat /\ DOMAIN suites = 1 .. Len(suites)
      /\ suites[s] \in SuiteRow /\ vs \in Seq(Versions) /\ Len(vs) \in Nat /\ DOMAIN vs = 1 .. Len(vs)
      /\ new \in Versions /\ Len(vs) < MaxVersions
  <2>1. suites \in Seq(SuiteRow) /\ suites[s] \in SuiteRow
    BY SeqElements DEF SuiteTypes
  <2>2. vs \in Seq(Versions)
    BY <2>1 DEF SuiteRow
  <2>3. new \in Versions
    BY DEF Versions
  <2>4. Len(vs) < MaxVersions
    BY DEF G!AddVersion
  <2> QED
    BY <2>1, <2>2, <2>3, <2>4
<1>2. suites' = [suites EXCEPT ![s] = row]
  BY DEF G!AddVersion
<1>3. /\ Append(vs, new) \in Seq(Versions) /\ Len(Append(vs, new)) = Len(vs) + 1
      /\ Append(vs, new)[Len(vs) + 1] = new /\ \A n \in 1 .. Len(vs) : Append(vs, new)[n] = vs[n]
  BY <1>1, AppendProperties
<1>4. /\ row \in SuiteRow /\ row.versions = Append(vs, new)
      /\ DOMAIN row.versions = 1 .. Len(vs) + 1 /\ Len(row.versions) = Len(vs) + 1
  <2>1. row \in SuiteRow /\ row.versions = Append(vs, new)
    BY <1>1, <1>3 DEF SuiteRow
  <2> QED
    BY <1>1, <1>3, <2>1
<1>5. /\ suites' \in Seq(SuiteRow) /\ Len(suites') = Len(suites) /\ DOMAIN suites' = DOMAIN suites
      /\ suites'[s] = row /\ \A t \in DOMAIN suites \ {s} : suites'[t] = suites[t]
  <2> HIDE DEF row
  <2> QED
    BY <1>1, <1>2, <1>4, ExceptSeq
<1> HIDE DEF row, new
<1>6. SuiteTypes'
  <2>1. ASSUME NEW t \in DOMAIN suites PROVE Len(suites'[t].versions) \in 1 .. MaxVersions
    <3>1. CASE t = s
      <4>1. suites'[t] = row
        BY <1>5, <3>1
      <4>2. Len(suites'[t].versions) = Len(vs) + 1
        BY <1>4, <4>1
      <4> QED
        BY <1>1, <4>2, Bounds
    <3>2. CASE t # s
      BY <1>5, <2>1, <3>2 DEF SuiteTypes
    <3> QED
      BY <3>1, <3>2
  <2> QED
    BY <1>5, <2>1 DEF SuiteTypes
<1>7. /\ DOMAIN suites \subseteq DOMAIN suites' /\ ~Stored(s, n0) /\ Stored(s, n0)'
      /\ suites'[s].versions[n0] = new
  <2>1. suites'[s].versions = row.versions
    BY <1>5
  <2>2. n0 \in DOMAIN suites'[s].versions /\ n0 \notin DOMAIN vs
    BY <1>1, <1>4, <2>1
  <2>3. suites'[s].versions[n0] = new
    BY <1>3, <1>4, <2>1
  <2>4. s \in DOMAIN suites'
    BY <1>5
  <2> QED
    BY <1>5, <2>2, <2>3, <2>4 DEF Stored
<1>8. ASSUME NEW t \in Nat, NEW m \in Nat, t # s \/ m # n0
      PROVE  /\ Stored(t, m)' <=> Stored(t, m)
             /\ Stored(t, m) => suites'[t].versions[m] = suites[t].versions[m]
  <2>1. CASE t # s
    BY <1>5, <2>1 DEF Stored
  <2>2. CASE t = s
    <3>1. suites'[t].versions = row.versions /\ t \in DOMAIN suites /\ t \in DOMAIN suites'
      BY <1>5, <2>2
    <3>2. m \in 1 .. n0 <=> m \in 1 .. Len(vs)
      BY <1>1, <1>8, <2>2
    <3> QED
      BY <1>1, <1>3, <1>4, <2>2, <3>1, <3>2 DEF Stored
  <2> QED
    BY <2>1, <2>2
<1>9. SuitesGrow
  BY <1>7, <1>8 DEF SuitesGrow
<1>10. Len(suites'[s].versions) = n0
  BY <1>4, <1>5
<1> QED
  BY <1>1, <1>5, <1>6, <1>7, <1>8, <1>9, <1>10 DEF Grown, new

LEMMA SuiteArchived ==
  ASSUME SuiteTypes, NEW s \in DOMAIN suites, suites' = [suites EXCEPT ![s].archived = TRUE]
  PROVE  /\ SuiteTypes' /\ SuitesGrow
         /\ \A t \in DOMAIN suites : suites'[t].versions = suites[t].versions
         /\ \A t, m \in Nat : /\ Stored(t, m)' <=> Stored(t, m)
                              /\ Stored(t, m) => suites'[t].versions[m] = suites[t].versions[m]
<1> DEFINE row == [suites[s] EXCEPT !.archived = TRUE]
<1>1. /\ suites \in Seq(SuiteRow) /\ row \in SuiteRow /\ row.versions = suites[s].versions
      /\ suites' = [suites EXCEPT ![s] = row] /\ DOMAIN suites = 1 .. Len(suites)
  <2>1. suites \in Seq(SuiteRow) /\ suites[s] \in SuiteRow
    BY SeqElements DEF SuiteTypes
  <2>2. row \in SuiteRow /\ row.versions = suites[s].versions
    BY <2>1 DEF SuiteRow
  <2> QED
    BY <2>1, <2>2
<1> HIDE DEF row
<1>2. /\ suites' \in Seq(SuiteRow) /\ Len(suites') = Len(suites) /\ DOMAIN suites' = DOMAIN suites
      /\ suites'[s] = row /\ \A t \in DOMAIN suites \ {s} : suites'[t] = suites[t]
  <2>1. s \in 1 .. Len(suites)
    BY <1>1
  <2>2. /\ [suites EXCEPT ![s] = row] \in Seq(SuiteRow)
        /\ Len([suites EXCEPT ![s] = row]) = Len(suites)
        /\ \A t \in 1 .. Len(suites) : [suites EXCEPT ![s] = row][t] = IF t = s THEN row ELSE suites[t]
    BY <1>1, <2>1, ExceptSeq, ZenonT(30)
  <2> QED
    BY <1>1, <2>1, <2>2
<1>3. \A t \in DOMAIN suites : suites'[t].versions = suites[t].versions
  BY <1>1, <1>2
<1> QED
  BY <1>2, <1>3 DEF SuiteTypes, SuitesGrow, Stored

-----------------------------------------------------------------------------
(* What a step of one request leaves of the others.                         *)

\* No version is lost, and those of key q are the same.
SameVersions(q) == \A s, n \in Nat : By(s, n, q)' <=> By(s, n, q)

LEMMA GrownBy ==
  ASSUME NEW s0 \in Nat, NEW n0 \in Nat, NEW q, NEW tests, Grown(s0, n0, q, tests), NEW k
  PROVE  /\ SuitesGrow
         /\ \A s, n \in Nat : By(s, n, k)' <=> (By(s, n, k) \/ (s = s0 /\ n = n0 /\ k = q))
         /\ k # q => SameVersions(k)
<1>1. By(s0, n0, k)' <=> k = q
  BY DEF Grown, By
<1>2. ~By(s0, n0, k)
  BY DEF Grown, By
<1>3. ASSUME NEW s \in Nat, NEW n \in Nat, s # s0 \/ n # n0 PROVE By(s, n, k)' <=> By(s, n, k)
  BY <1>3 DEF Grown, By
<1> QED
  BY <1>1, <1>2, <1>3 DEF SameVersions, Grown

\* A statement that stores a version stores the tests of its source, and one
\* version of a key that had none.
LEMMA GrownVersions ==
  ASSUME VersionInv, NEW s0 \in Nat, NEW n0 \in Nat, NEW q, NEW tests, Grown(s0, n0, q, tests),
         q \in tests, q \in Key => \A s, n \in Nat : ~By(s, n, q)
  PROVE  VersionInv'
<1>1. ASSUME NEW s \in Nat, NEW n \in Nat, Stored(s, n)'
      PROVE  suites'[s].versions[n].by \in suites'[s].versions[n].tests
  <2>1. CASE s = s0 /\ n = n0
    BY <2>1 DEF Grown
  <2>2. CASE s # s0 \/ n # n0
    BY <1>1, <2>2 DEF Grown, VersionInv
  <2> QED
    BY <2>1, <2>2
<1>2. ASSUME NEW k \in Key, NEW s \in Nat, NEW n \in Nat, NEW t \in Nat, NEW m \in Nat,
             By(s, n, k)', By(t, m, k)'
      PROVE  s = t /\ n = m
  <2>0. \A i, j \in Nat : By(i, j, k)' <=> (By(i, j, k) \/ (i = s0 /\ j = n0 /\ k = q))
    BY GrownBy
  <2>1. CASE k = q
    BY <1>2, <2>0, <2>1
  <2>2. CASE k # q
    BY <1>2, <2>0, <2>2 DEF VersionInv
  <2> QED
    BY <2>1, <2>2
<1> QED
  BY <1>1, <1>2 DEF VersionInv

LEMMA FrozeKept ==
  ASSUME NEW v, NEW k, SuitesGrow, SameVersions(k), k \in followed' <=> k \in followed, Froze(v, k)
  PROVE  Froze(v, k)'
BY DEF SuitesGrow, SameVersions, Froze

\* A request that waits for its suite, while a statement stores a version in
\* it or none.
LEMMA WroteKept ==
  ASSUME SuiteTypes, SuiteTypes', Following, SuitesGrow, NEW d \in Caller, caller[d].at = "stored",
         NEW k, k = caller[d].key, NEW s \in DOMAIN suites, s = caller[d].suite,
         SameVersions(k), Wrote(s, k)
  PROVE  Wrote(s, k)'
<1>1. PICK n \in Nat : By(s, n, k) /\ (n = Len(suites[s].versions) <=> k \notin followed)
  BY DEF Wrote
<1>2. Len(suites[s].versions) \in Nat /\ n <= Len(suites[s].versions) /\ s \in Nat
  BY <1>1, LatestRow DEF By, Stored
<1>3. By(s, n, k)'
  BY <1>1, <1>2 DEF SameVersions
<1>4. Len(suites'[s].versions) \in Nat
  BY DEF SuiteTypes, SuitesGrow
<1>5. n = Len(suites'[s].versions) <=> k \notin followed'
  BY <1>1, <1>2, <1>4 DEF Following
<1> QED
  BY <1>1, <1>3, <1>5 DEF Wrote

\* Who does not wait for its suite is not followed.
LEMMA NotFollowed ==
  ASSUME Following, NEW q, \A d \in Caller : ~(caller[d].at = "stored" /\ caller[d].key = q)
  PROVE  q \in followed' <=> q \in followed
BY DEF Following

\* Statements that store no version in a suite that was there.
LEMMA NoneFollows ==
  ASSUME GenInv, UNCHANGED followed,
         \A t \in DOMAIN suites : suites'[t].versions = suites[t].versions
  PROVE  Following
BY DEF GenInv, GenTypes, CallerInv, Following

LEMMA SomeFollow ==
  ASSUME GenInv, NEW s \in DOMAIN suites, NEW n0 \in Nat, n0 = Len(suites[s].versions) + 1,
         Len(suites[s].versions) \in Nat, Len(suites'[s].versions) = n0,
         \A t \in DOMAIN suites \ {s} : suites'[t] = suites[t],
         followed' = followed \cup G!Awaiting(s)
  PROVE  Following
<1>1. G!Awaiting(s) \subseteq Key
  BY DEF G!Awaiting, GenInv, CallerInv
<1>2. ASSUME NEW d \in Caller, caller[d].at = "stored"
      PROVE  LET old == suites[caller[d].suite].versions  new == suites'[caller[d].suite].versions IN
             \/ Len(new) = Len(old) /\ (caller[d].key \in followed' => caller[d].key \in followed)
             \/ Len(new) > Len(old) /\ caller[d].key \in followed'
  <2>1. /\ caller[d].suite \in DOMAIN suites
        /\ \A e \in Caller : caller[e].at # "idle" /\ caller[e].key = caller[d].key => e = d
    BY <1>2 DEF GenInv, CallerInv
  <2>2. CASE caller[d].suite = s
    BY <1>2, <2>2 DEF G!Awaiting
  <2>3. CASE caller[d].suite # s
    <3>1. caller[d].key \notin G!Awaiting(s)
      BY <2>1, <2>3 DEF G!Awaiting
    <3> QED
      BY <2>1, <2>3, <3>1
  <2> QED
    BY <2>2, <2>3
<1> QED
  BY <1>1, <1>2 DEF Following, G!Awaiting, GenInv, GenTypes

\* Only c, which works on k, has moved.
OnlyOf(c, k) ==
  /\ SuitesGrow /\ Following
  /\ \A d \in Caller \ {c} : /\ caller'[d] = caller[d]
                             /\ caller[d].at = "idle" \/ caller[d].key # k
  /\ caller'[c].at = "idle" \/ caller'[c].key = k
  /\ \A q \in Key \ {k} : /\ operations'[q] = operations[q] /\ generated'[q] = generated[q]
                          /\ SameVersions(q)

\* What a key has stays, unless a request of its own moves.
LEMMA KeyKept ==
  ASSUME GenInv, SuitesGrow, Following, NEW q \in Key, SameVersions(q),
         operations'[q] = operations[q], generated'[q] = generated[q]
  PROVE  KeyInv(q)'
<1>1. KeyInv(q)
  BY DEF GenInv
<1>2. operations[q].status = "NONE" \/ generated[q] # G!NoVersion => (q \in followed' <=> q \in followed)
  BY NotFollowed DEF GenInv, CallerInv
<1>3. generated[q] # G!NoVersion => Froze(generated[q], q)'
  BY <1>1, <1>2, FrozeKept DEF KeyInv
<1> QED
  BY <1>1, <1>2, <1>3 DEF KeyInv, SameVersions

LEMMA OneCaller ==
  ASSUME GenInv, NEW c \in Caller, NEW k, GenTypes', VersionInv', OnlyOf(c, k),
         CallerInv(c)', k \in Key => KeyInv(k)'
  PROVE  GenInv'
<1>0. SuitesGrow /\ Following /\ SuiteTypes /\ SuiteTypes'
  BY DEF OnlyOf, GenInv, GenTypes
<1>1. ASSUME NEW d \in Caller PROVE CallerInv(d)'
  <2>1. CASE d = c
    BY <2>1
  <2>2. CASE d # c /\ caller[d].at = "idle"
    BY <2>2 DEF OnlyOf, CallerInv
  <2>3. CASE d # c /\ caller[d].at # "idle"
    <3>0. PICK q \in Key : q = caller[d].key
      BY <2>3 DEF GenInv, CallerInv
    <3>1. /\ q # k /\ caller'[d] = caller[d] /\ CallerInv(d)
          /\ operations'[q] = operations[q] /\ generated'[q] = generated[q] /\ SameVersions(q)
      BY <2>3, <3>0 DEF GenInv, OnlyOf
    <3>2. \A e \in Caller : caller'[e].at # "idle" /\ caller'[e].key = q => e = d
      BY <2>3, <3>0, <3>1 DEF OnlyOf, CallerInv
    <3>3. caller[d].at # "stored" => (q \in followed' <=> q \in followed)
      BY <1>0, <2>3, <3>0, <3>1, NotFollowed DEF CallerInv
    <3>4. caller[d].suite \in DOMAIN suites => caller'[d].suite \in DOMAIN suites'
      BY <1>0, <3>1 DEF SuitesGrow
    <3>5. ASSUME caller[d].at = "stored" PROVE Wrote(caller[d].suite, q)'
      <4>1. PICK s \in DOMAIN suites : s = caller[d].suite /\ Wrote(s, q)
        BY <2>3, <3>0, <3>1, <3>5 DEF CallerInv
      <4>2. Wrote(s, q)'
        BY <1>0, <3>0, <3>1, <3>5, <4>1, WroteKept
      <4> QED
        BY <3>1, <4>1, <4>2
    <3>6. ASSUME caller[d].at \in {"validate", "complete"} PROVE Froze(caller[d].version, q)'
      <4>1. PICK v : v = caller[d].version /\ Froze(v, q)
        BY <2>3, <3>0, <3>1, <3>6 DEF CallerInv
      <4>2. Froze(v, q)'
        BY <1>0, <3>1, <3>3, <3>6, <4>1, FrozeKept
      <4> QED
        BY <3>1, <4>1, <4>2
    <3>7. caller[d].at \in {"locate", "model"} => q \notin followed' /\ \A s, n \in Nat : ~By(s, n, q)'
      BY <2>3, <3>0, <3>1, <3>3 DEF CallerInv, SameVersions
    <3> QED
      BY <2>3, <3>0, <3>1, <3>2, <3>4, <3>5, <3>6, <3>7 DEF CallerInv
  <2> QED
    BY <2>1, <2>2, <2>3
<1>2. ASSUME NEW q \in Key PROVE KeyInv(q)'
  <2>1. CASE q = k
    BY <2>1
  <2>2. CASE q # k
    <3>1. /\ operations'[q] = operations[q] /\ generated'[q] = generated[q] /\ SameVersions(q)
          /\ KeyInv(q)
      BY <2>2 DEF GenInv, OnlyOf
    <3> QED
      BY <1>0, <3>1, KeyKept
  <2> QED
    BY <2>1, <2>2
<1> QED
  BY <1>1, <1>2 DEF GenInv

\* A user's step moves no request.
LEMMA NoCaller ==
  ASSUME GenInv, SuiteTypes', VersionInv', SuitesGrow, Following,
         UNCHANGED <<operations, generated, caller, crashes>>, \A q \in Key : SameVersions(q)
  PROVE  GenInv'
<1>1. GenTypes'
  BY DEF GenInv, GenTypes, Following
<1>2. ASSUME NEW d \in Caller, caller[d].at # "idle" PROVE CallerInv(d)'
  <2>0. PICK k \in Key : k = caller[d].key
    BY <1>2 DEF GenInv, CallerInv
  <2>1. CallerInv(d) /\ SameVersions(k)
    BY DEF GenInv
  <2>2. caller[d].at # "stored" => (k \in followed' <=> k \in followed)
    BY <1>2, <2>0, <2>1, NotFollowed DEF CallerInv
  <2>3. caller[d].at = "stored" => Wrote(caller[d].suite, k)'
    BY <2>0, <2>1, WroteKept DEF CallerInv, GenInv, GenTypes
  <2>4. caller[d].at \in {"validate", "complete"} => Froze(caller[d].version, k)'
    BY <2>0, <2>1, <2>2, FrozeKept DEF CallerInv
  <2> QED
    BY <1>2, <2>0, <2>1, <2>2, <2>3, <2>4 DEF CallerInv, SuitesGrow, SameVersions
<1>3. \A d \in Caller : CallerInv(d)'
  BY <1>2 DEF CallerInv
<1>4. \A q \in Key : KeyInv(q)'
  BY KeyKept
<1> QED
  BY <1>1, <1>3, <1>4 DEF GenInv

LEMMA ArchivedVersions ==
  ASSUME VersionInv, \A t, m \in Nat : /\ Stored(t, m)' <=> Stored(t, m)
                                       /\ Stored(t, m) => suites'[t].versions[m] = suites[t].versions[m]
  PROVE  VersionInv' /\ \A q : SameVersions(q)
<1>1. \A t, m \in Nat : \A q : By(t, m, q)' <=> By(t, m, q)
  BY DEF By
<1> QED
  BY <1>1 DEF VersionInv, SameVersions

-----------------------------------------------------------------------------
(* The steps.                                                               *)

LEMMA IdleRow == G!Idle \in CallerRow /\ G!Idle.at = "idle" /\ G!NoOperation \in OperationRow
<1>1. G!NoVersion \in G!VersionId /\ G!Upload \in Source
  BY DEF G!VersionId, Source
<1> HIDE DEF G!VersionId, Source
<1> QED
  BY <1>1 DEF G!Idle, CallerRow, G!NoOperation, OperationRow

LEMMA GenInit == G!Init => GenInv
<1> SUFFICES ASSUME G!Init PROVE GenInv
  OBVIOUS
<1>1. \A s, n \in Nat : ~Stored(s, n)
  BY DEF G!Init, Stored
<1>2. VersionInv
  BY <1>1 DEF VersionInv, By
<1>3. \A c \in Caller : CallerInv(c)
  BY DEF G!Init, G!Idle, CallerInv
<1>4. \A k \in Key : KeyInv(k)
  BY <1>1 DEF G!Init, G!NoOperation, KeyInv, By
<1>5. GenTypes
  <2>1. SuiteTypes
    BY Bounds DEF G!Init, SuiteTypes
  <2> QED
    BY <2>1, IdleRow, Bounds DEF G!Init, GenTypes, G!VersionId
<1> QED
  BY <1>2, <1>3, <1>4, <1>5 DEF GenInv

\* The user's own steps.
LEMMA StepCreate == ASSUME GenInv, G!CreateSuite PROVE GenInv'
<1>0. SuiteTypes /\ VersionInv /\ Len(suites) \in Nat
  BY DEF GenInv, GenTypes, SuiteTypes
<1>1. PICK s0 \in Nat : s0 = Len(suites) + 1
  BY <1>0
<1>2. /\ s0 <= MaxSuites /\ suites' = Append(suites, G!NewSuite(FALSE, {G!Upload}, G!Upload))
      /\ UNCHANGED <<operations, generated, caller, followed, crashes>>
  BY <1>0, <1>1, Bounds DEF G!CreateSuite
<1>3. /\ SuiteTypes' /\ Grown(s0, 1, G!Upload, {G!Upload})
      /\ \A t \in DOMAIN suites : suites'[t].versions = suites[t].versions
  BY <1>0, <1>1, <1>2, SuiteAdded DEF Source
<1>4. VersionInv'
  BY <1>0, <1>3, NoKeyIsUpload, GrownVersions
<1>5. SuitesGrow /\ Following /\ \A q \in Key : SameVersions(q)
  BY <1>2, <1>3, NoKeyIsUpload, GrownBy, NoneFollows
<1> QED
  BY <1>2, <1>3, <1>4, <1>5, NoCaller

LEMMA StepUpload == ASSUME GenInv, NEW s \in G!SuiteId, G!UploadVersion(s) PROVE GenInv'
<1>0. SuiteTypes /\ VersionInv /\ s \in Nat /\ s \in DOMAIN suites
  BY Bounds DEF GenInv, GenTypes, G!UploadVersion, G!SuiteId
<1> DEFINE vs == suites[s].versions
<1>1. Len(vs) \in Nat /\ G!Latest(s) \in Versions
  BY <1>0, LatestRow
<1>2. PICK n0 \in Nat : n0 = Len(vs) + 1
  BY <1>1
<1>3. PICK tests \in SUBSET Source : tests = G!Latest(s).tests \cup {G!Upload}
  BY <1>1 DEF Versions, Source
<1>4. G!AddVersion(s, tests, G!Upload) /\ UNCHANGED <<operations, generated, caller, crashes>>
  BY <1>3 DEF G!UploadVersion
<1>5. /\ SuiteTypes' /\ Grown(s, n0, G!Upload, tests) /\ Len(suites'[s].versions) = n0
      /\ \A t \in DOMAIN suites \ {s} : suites'[t] = suites[t]
  <2>1. G!Upload \in Source /\ n0 = Len(suites[s].versions) + 1
    BY <1>2 DEF Source
  <2> QED
    BY <1>0, <1>4, <2>1, VersionAdded
<1>6. VersionInv'
  BY <1>0, <1>3, <1>5, NoKeyIsUpload, GrownVersions
<1>7. SuitesGrow /\ \A q \in Key : SameVersions(q)
  BY <1>0, <1>5, NoKeyIsUpload, GrownBy
<1>8. Following
  BY <1>0, <1>1, <1>2, <1>4, <1>5, SomeFollow DEF G!AddVersion
<1> QED
  BY <1>4, <1>5, <1>6, <1>7, <1>8, NoCaller

LEMMA StepArchive == ASSUME GenInv, NEW s \in G!SuiteId, G!Archive(s) PROVE GenInv'
<1>1. /\ SuiteTypes /\ VersionInv /\ s \in DOMAIN suites /\ suites' = [suites EXCEPT ![s].archived = TRUE]
      /\ UNCHANGED <<operations, generated, caller, followed, crashes>>
  BY DEF GenInv, GenTypes, G!Archive
<1> QED
  BY <1>1, SuiteArchived, ArchivedVersions, NoneFollows, NoCaller

\* What a request that goes on knows, for a key of its own.
LEMMA AtWork ==
  ASSUME GenInv, NEW c \in Caller, caller[c].at # "idle"
  PROVE  \E k \in Key : /\ k = caller[c].key /\ operations[k].status = "PROCESSING"
                        /\ \A d \in Caller \ {c} : caller[d].at = "idle" \/ caller[d].key # k
BY DEF GenInv, CallerInv

\* Steps that leave the suites alone.
LEMMA SuitesKept ==
  ASSUME GenInv, UNCHANGED <<suites, followed>>
  PROVE  SuiteTypes' /\ VersionInv' /\ SuitesGrow /\ Following /\ (\A q : SameVersions(q))
<1>1. Following
  BY NoneFollows
<1> QED
  BY <1>1 DEF GenInv, GenTypes, SuiteTypes, VersionInv, SuitesGrow, SameVersions, Stored, By

LEMMA StepFailed ==
  ASSUME GenInv, NEW c \in Caller, caller[c].at # "idle", G!Failed(c), UNCHANGED <<suites, generated, followed, crashes>>
  PROVE  GenInv'
<1>1. PICK k \in Key : /\ k = caller[c].key /\ operations[k].status = "PROCESSING"
                       /\ \A d \in Caller \ {c} : caller[d].at = "idle" \/ caller[d].key # k
  BY AtWork
<1>2. /\ operations' = [operations EXCEPT ![k].status = "FAILED"] /\ caller' = [caller EXCEPT ![c] = G!Idle]
  BY <1>1 DEF G!Failed
<1>3. SuiteTypes' /\ VersionInv' /\ SuitesGrow /\ Following /\ (\A q : SameVersions(q))
  BY SuitesKept
<1>4. GenTypes'
  BY <1>2, <1>3, IdleRow DEF GenInv, GenTypes, OperationRow
<1>5. caller'[c].at = "idle" /\ operations'[k].status = "FAILED"
  BY <1>2, IdleRow DEF GenInv, GenTypes, OperationRow
<1>6. CallerInv(c)'
  BY <1>5 DEF CallerInv
<1>7. KeyInv(k)'
  BY <1>3, <1>5, FrozeKept DEF GenInv, KeyInv
<1>8. OnlyOf(c, k)
  BY <1>1, <1>2, <1>3, <1>5 DEF GenInv, GenTypes, OnlyOf
<1> QED
  BY <1>3, <1>4, <1>6, <1>7, <1>8, OneCaller

LEMMA StepBegin == ASSUME GenInv, NEW c \in Caller, NEW k \in Key, G!Begin(c, k) PROVE GenInv'
<1>1. /\ operations[k].status = "NONE" /\ operations' = [operations EXCEPT ![k].status = "PROCESSING"]
      /\ caller' = [caller EXCEPT ![c] = [G!Idle EXCEPT !.at = "locate", !.key = k]]
      /\ UNCHANGED <<suites, generated, followed, crashes>>
  BY DEF G!Begin, G!MayStart
<1>2. SuiteTypes' /\ VersionInv' /\ SuitesGrow /\ Following /\ (\A q : SameVersions(q))
  BY <1>1, SuitesKept
<1>3. GenTypes'
  <2>1. [G!Idle EXCEPT !.at = "locate", !.key = k] \in CallerRow
    BY IdleRow DEF CallerRow, Source
  <2> QED
    BY <1>1, <1>2, <2>1 DEF GenInv, GenTypes, OperationRow
<1>4. caller'[c].at = "locate" /\ caller'[c].key = k /\ operations'[k].status = "PROCESSING"
  BY <1>1 DEF GenInv, GenTypes, OperationRow, G!Idle
<1>5. \A d \in Caller : caller[d].at = "idle" \/ caller[d].key # k
  BY <1>1 DEF GenInv, CallerInv
<1>6. \A d \in Caller \ {c} : caller'[d] = caller[d]
  BY <1>1
<1>7. generated'[k] = G!NoVersion /\ k \notin followed' /\ \A s, n \in Nat : ~By(s, n, k)'
  BY <1>1, <1>2 DEF GenInv, KeyInv, SameVersions
<1>8. CallerInv(c)'
  BY <1>4, <1>5, <1>6, <1>7 DEF CallerInv
<1>9. KeyInv(k)'
  BY <1>4, <1>7 DEF KeyInv
<1>10. OnlyOf(c, k)
  BY <1>1, <1>2, <1>4, <1>5, <1>6 DEF GenInv, GenTypes, OnlyOf
<1> QED
  BY <1>2, <1>3, <1>8, <1>9, <1>10, OneCaller

LEMMA StepRead == ASSUME GenInv, NEW c \in Caller, G!ReadSuite(c) PROVE GenInv'
<1>0. caller[c].at = "locate" /\ UNCHANGED <<suites, operations, generated, followed, crashes>>
  BY DEF G!ReadSuite
<1>1. PICK k \in Key : /\ k = caller[c].key /\ operations[k].status = "PROCESSING"
                       /\ \A d \in Caller \ {c} : caller[d].at = "idle" \/ caller[d].key # k
  BY <1>0, AtWork
<1>2. PICK s : /\ s = 0 \/ s \in DOMAIN suites
               /\ caller' = [caller EXCEPT ![c] = [@ EXCEPT !.at = "model", !.suite = s,
                              !.previous = IF s = 0 THEN {} ELSE G!Latest(s).tests]]
  <2> DEFINE active == {s \in DOMAIN suites : ~suites[s].archived}
             moves(s) == caller' = [caller EXCEPT ![c] = [@ EXCEPT !.at = "model", !.suite = s,
                              !.previous = IF s = 0 THEN {} ELSE G!Latest(s).tests]]
  <2>1. \E s \in IF active = {} THEN {0} ELSE active : moves(s)
    BY Zenon DEF G!ReadSuite
  <2>2. \A s \in IF active = {} THEN {0} ELSE active : s = 0 \/ s \in DOMAIN suites
    OBVIOUS
  <2>3. \E s : (s = 0 \/ s \in DOMAIN suites) /\ moves(s)
    <3> HIDE DEF moves, active
    <3> QED
      BY <2>1, <2>2
  <2> QED
    BY <2>3, Zenon
<1>3. SuiteTypes' /\ VersionInv' /\ SuitesGrow /\ Following /\ (\A q : SameVersions(q))
  BY <1>0, SuitesKept
<1> DEFINE previous == IF s = 0 THEN {} ELSE G!Latest(s).tests
<1>4. s \in G!SuiteId \cup {0} /\ previous \subseteq Source
  <2>1. CASE s = 0
    BY <2>1
  <2>2. CASE s \in DOMAIN suites /\ s # 0
    <3>1. G!Latest(s) \in Versions /\ s \in G!SuiteId
      BY <2>2, LatestRow DEF GenInv, GenTypes
    <3> QED
      BY <2>2, <3>1 DEF Versions
  <2> QED
    BY <1>2, <2>1, <2>2
<1> HIDE DEF previous
<1>5. caller' = [caller EXCEPT ![c] = [@ EXCEPT !.at = "model", !.suite = s, !.previous = previous]]
  BY <1>2 DEF previous
<1>6. GenTypes'
  BY <1>0, <1>3, <1>4, <1>5 DEF GenInv, GenTypes, CallerRow
<1>7. /\ caller'[c].at = "model" /\ caller'[c].key = k /\ caller'[c].suite = s
      /\ \A d \in Caller \ {c} : caller'[d] = caller[d]
  BY <1>1, <1>5 DEF GenInv, GenTypes, CallerRow
<1>8. generated'[k] = G!NoVersion /\ k \notin followed' /\ \A i, j \in Nat : ~By(i, j, k)'
  BY <1>0, <1>1, <1>3 DEF GenInv, CallerInv, SameVersions
<1>9. CallerInv(c)'
  BY <1>0, <1>1, <1>2, <1>7, <1>8 DEF CallerInv
<1>10. KeyInv(k)'
  BY <1>0, <1>1, <1>8 DEF KeyInv
<1>11. OnlyOf(c, k)
  BY <1>0, <1>1, <1>3, <1>7 DEF OnlyOf
<1> QED
  BY <1>3, <1>6, <1>9, <1>10, <1>11, OneCaller

\* Storing the version of a key that has none.
LEMMA StoredFor ==
  ASSUME GenInv, NEW c \in Caller, NEW k \in Key, k = caller[c].key, caller[c].at = "model",
         NEW s0 \in G!SuiteId, NEW n0 \in Nat, SuiteTypes', Following,
         s0 \in DOMAIN suites', n0 = Len(suites'[s0].versions),
         NEW tests, tests = G!Merged(c), Grown(s0, n0, k, tests), UNCHANGED <<operations, generated, crashes>>,
         caller' = [caller EXCEPT ![c] = [@ EXCEPT !.at = "stored", !.suite = s0]]
  PROVE  GenInv'
<1>1. /\ operations[k].status = "PROCESSING" /\ generated[k] = G!NoVersion
      /\ \A d \in Caller \ {c} : caller[d].at = "idle" \/ caller[d].key # k
      /\ k \notin followed /\ \A s, n \in Nat : ~By(s, n, k)
  BY DEF GenInv, CallerInv
<1>2. VersionInv'
  <2>1. k \in G!Merged(c)
    BY DEF G!Merged
  <2> QED
    BY <1>1, <2>1, Bounds, GrownVersions DEF GenInv, G!SuiteId
<1>3. GenTypes'
  <2>1. caller[c] \in CallerRow /\ s0 \in G!SuiteId \cup {0}
    BY DEF GenInv, GenTypes
  <2>2. [caller[c] EXCEPT !.at = "stored", !.suite = s0] \in CallerRow
    BY <2>1 DEF CallerRow
  <2>3. caller' \in [Caller -> CallerRow]
    BY <2>2 DEF GenInv, GenTypes
  <2> QED
    BY <2>3 DEF GenInv, GenTypes, Following
<1>4. /\ caller'[c].at = "stored" /\ caller'[c].key = k /\ caller'[c].suite = s0
      /\ \A d \in Caller \ {c} : caller'[d] = caller[d]
  BY DEF GenInv, GenTypes, CallerRow
<1>5. /\ SuitesGrow /\ By(s0, n0, k)' /\ (\A q \in Key \ {k} : SameVersions(q)) /\ s0 \in Nat
  <2>1. s0 \in Nat
    BY Bounds DEF G!SuiteId
  <2>2. By(s0, n0, k)' /\ SuitesGrow
    BY DEF Grown, By
  <2>3. \A q \in Key \ {k} : SameVersions(q)
    BY <2>1, GrownBy
  <2> QED
    BY <2>1, <2>2, <2>3
<1>6. k \notin followed'
  BY <1>1, NotFollowed
<1>7. Wrote(s0, k)'
  BY <1>5, <1>6 DEF Wrote
<1>8. CallerInv(c)'
  BY <1>1, <1>4, <1>7 DEF CallerInv
<1>9. KeyInv(k)'
  BY <1>1 DEF KeyInv
<1>10. OnlyOf(c, k)
  BY <1>1, <1>4, <1>5 DEF OnlyOf
<1> QED
  BY <1>2, <1>3, <1>8, <1>9, <1>10, OneCaller

LEMMA MergedTests ==
  ASSUME GenTypes, NEW c \in Caller PROVE G!Merged(c) \in SUBSET Source /\ caller[c].key \in Source
BY DEF GenTypes, CallerRow, G!Merged

LEMMA StepStoreNew == ASSUME GenInv, NEW c \in Caller, G!StoreNewSuite(c) PROVE GenInv'
<1>0. caller[c].at = "model" /\ Len(suites) < MaxSuites /\ UNCHANGED <<generated, followed, crashes>>
  BY DEF G!StoreNewSuite
<1>1. PICK k \in Key : k = caller[c].key
  BY <1>0 DEF GenInv, CallerInv
<1>2. CASE G!Failed(c) /\ UNCHANGED suites
  BY <1>0, <1>2, StepFailed
<1>3. CASE /\ suites' = Append(suites, G!NewSuite(TRUE, G!Merged(c), caller[c].key))
           /\ caller' = [caller EXCEPT ![c].at = "stored", ![c].suite = Len(suites) + 1]
           /\ UNCHANGED operations
  <2>1. SuiteTypes /\ Len(suites) \in Nat
    BY DEF GenInv, GenTypes, SuiteTypes
  <2>2. PICK s0 \in Nat : s0 = Len(suites) + 1
    BY <2>1
  <2>3. PICK tests \in SUBSET Source : tests = G!Merged(c)
    BY MergedTests DEF GenInv
  <2>4. /\ SuiteTypes' /\ Grown(s0, 1, k, tests)
        /\ s0 \in DOMAIN suites' /\ Len(suites'[s0].versions) = 1
        /\ \A t \in DOMAIN suites : suites'[t].versions = suites[t].versions
    <3>1. k \in Source /\ TRUE \in BOOLEAN /\ s0 <= MaxSuites
      BY <1>0, <2>1, <2>2, Bounds DEF Source
    <3>2. suites' = Append(suites, G!NewSuite(TRUE, tests, k))
      BY <1>1, <1>3, <2>3
    <3> QED
      BY <2>1, <2>2, <3>1, <3>2, SuiteAdded
  <2>5. caller' = [caller EXCEPT ![c] = [@ EXCEPT !.at = "stored", !.suite = s0]]
    BY <1>3, <2>2 DEF GenInv, GenTypes, CallerRow
  <2>6. s0 \in G!SuiteId
    BY <1>0, <2>1, <2>2, Bounds DEF G!SuiteId
  <2>7. UNCHANGED <<operations, generated, crashes>>
    BY <1>0, <1>3
  <2>8. Following
    BY <1>0, <2>4, NoneFollows
  <2> QED
    BY <1>0, <1>1, <2>3, <2>4, <2>5, <2>6, <2>7, <2>8, StoredFor
<1> QED
  BY <1>2, <1>3 DEF G!StoreNewSuite

LEMMA StepStoreVersion == ASSUME GenInv, NEW c \in Caller, G!StoreVersion(c) PROVE GenInv'
<1>0. caller[c].at = "model" /\ caller[c].suite # 0 /\ UNCHANGED <<generated, crashes>>
  BY DEF G!StoreVersion
<1>1. PICK k \in Key : k = caller[c].key
  BY <1>0 DEF GenInv, CallerInv
<1>2. CASE G!Failed(c) /\ UNCHANGED <<suites, followed>>
  BY <1>0, <1>2, StepFailed
<1>3. CASE /\ G!AddVersion(caller[c].suite, G!Merged(c), caller[c].key)
           /\ caller' = [caller EXCEPT ![c].at = "stored"]
           /\ UNCHANGED operations
  <2>1. SuiteTypes /\ caller[c].suite \in DOMAIN suites
    BY <1>0 DEF GenInv, GenTypes, CallerInv
  <2>2. PICK s0 \in DOMAIN suites : s0 = caller[c].suite
    BY <2>1
  <2>3. s0 \in Nat /\ s0 \in G!SuiteId /\ Len(suites[s0].versions) \in 1 .. MaxVersions
    BY <2>1, LatestRow
  <2>4. PICK n0 \in Nat : n0 = Len(suites[s0].versions) + 1
    BY <2>3
  <2>5. PICK tests \in SUBSET Source : tests = G!Merged(c)
    BY MergedTests DEF GenInv
  <2>6. G!AddVersion(s0, tests, k)
    BY <1>1, <1>3, <2>2, <2>5
  <2>7. /\ SuiteTypes' /\ Grown(s0, n0, k, tests) /\ Len(suites'[s0].versions) = n0
        /\ \A t \in DOMAIN suites \ {s0} : suites'[t] = suites[t]
    <3>1. k \in Source
      BY DEF Source
    <3> QED
      BY <2>1, <2>4, <2>6, <3>1, VersionAdded
  <2>8. caller' = [caller EXCEPT ![c] = [@ EXCEPT !.at = "stored", !.suite = s0]]
    BY <1>3, <2>2 DEF GenInv, GenTypes, CallerRow
  <2>9. s0 \in DOMAIN suites'
    BY <2>7 DEF Grown, Stored
  <2>10. UNCHANGED <<operations, generated, crashes>>
    BY <1>0, <1>3
  <2>11. Following
    BY <2>3, <2>4, <2>6, <2>7, SomeFollow DEF G!AddVersion
  <2> QED
    BY <1>0, <1>1, <2>3, <2>5, <2>7, <2>8, <2>9, <2>10, <2>11, StoredFor
<1> QED
  BY <1>2, <1>3 DEF G!StoreVersion

\* What is read back is the version stored, or one that followed it.
LEMMA StepReadBack == ASSUME GenInv, NEW c \in Caller, G!ReadBack(c) PROVE GenInv'
<1>0. /\ caller[c].at = "stored" /\ UNCHANGED <<suites, operations, generated, followed, crashes>>
      /\ caller' = [caller EXCEPT ![c].at = "validate", ![c].version = G!Newest(caller[c].suite)]
  BY DEF G!ReadBack
<1>1. PICK k \in Key : /\ k = caller[c].key /\ operations[k].status = "PROCESSING"
                       /\ \A d \in Caller \ {c} : caller[d].at = "idle" \/ caller[d].key # k
  BY <1>0, AtWork
<1>2. /\ generated[k] = G!NoVersion /\ SuiteTypes /\ KeyInv(k)
      /\ caller[c].suite \in DOMAIN suites /\ Wrote(caller[c].suite, k)
  BY <1>0, <1>1 DEF GenInv, GenTypes, CallerInv
<1>3. PICK s \in DOMAIN suites : s = caller[c].suite
  BY <1>2
<1>4. s \in Nat /\ s \in G!SuiteId /\ suites[s].versions \in Seq(Versions)
  BY <1>2, LatestRow
<1>5. PICK m \in Nat : m = Len(suites[s].versions) /\ m \in 1 .. MaxVersions
  BY <1>2, LatestRow, Bounds
<1>6. G!Newest(s) = <<s, m>> /\ <<s, m>> \in G!VersionId
  BY <1>4, <1>5 DEF G!Newest, G!VersionId
<1>7. SuiteTypes' /\ VersionInv' /\ SuitesGrow /\ Following /\ (\A q : SameVersions(q))
  BY <1>0, SuitesKept
<1>8. caller' = [caller EXCEPT ![c] = [@ EXCEPT !.at = "validate", !.version = <<s, m>>]]
  BY <1>0, <1>3, <1>6 DEF GenInv, GenTypes, CallerRow
<1>9. GenTypes'
  <2>1. caller[c] \in CallerRow
    BY DEF GenInv, GenTypes
  <2>2. PICK v \in G!VersionId : v = <<s, m>>
    BY <1>6
  <2>3. [caller[c] EXCEPT !.at = "validate", !.version = v] \in CallerRow
    BY <2>1 DEF CallerRow
  <2>4. caller' \in [Caller -> CallerRow]
    BY <1>8, <2>2, <2>3 DEF GenInv, GenTypes
  <2> QED
    BY <1>0, <1>7, <2>4 DEF GenInv, GenTypes
<1>10. /\ caller'[c].at = "validate" /\ caller'[c].key = k /\ caller'[c].version = <<s, m>>
       /\ \A d \in Caller \ {c} : caller'[d] = caller[d]
  BY <1>1, <1>8 DEF GenInv, GenTypes, CallerRow
<1>11. Froze(<<s, m>>, k)
  <2>1. PICK n \in Nat : By(s, n, k) /\ (n = m <=> k \notin followed)
    BY <1>2, <1>3, <1>5 DEF Wrote
  <2>2. n <= m /\ Stored(s, m)
    BY <1>4, <1>5, <2>1 DEF By, Stored
  <2> QED
    BY <1>4, <2>1, <2>2 DEF Froze
<1>12. Froze(<<s, m>>, k)'
  BY <1>0, <1>7, <1>11, FrozeKept
<1>13. CallerInv(c)'
  <2>1. Froze(caller[c].version, k)' /\ generated'[k] = G!NoVersion
    BY <1>0, <1>2, <1>10, <1>12
  <2>2. \A d \in Caller : caller'[d].at # "idle" /\ caller'[d].key = k => d = c
    BY <1>1, <1>10
  <2>3. operations'[k].status = "PROCESSING"
    BY <1>0, <1>1
  <2> QED
    BY <1>10, <2>1, <2>2, <2>3 DEF CallerInv
<1>14. KeyInv(k)'
  BY <1>0, <1>7, KeyKept
<1>15. OnlyOf(c, k)
  BY <1>0, <1>1, <1>7, <1>10 DEF OnlyOf
<1> QED
  BY <1>7, <1>9, <1>13, <1>14, <1>15, OneCaller

LEMMA StepValidate == ASSUME GenInv, NEW c \in Caller, G!StartValidation(c) PROVE GenInv'
<1>0. caller[c].at = "validate" /\ UNCHANGED <<suites, followed, crashes>>
  BY DEF G!StartValidation
<1>1. PICK k \in Key : /\ k = caller[c].key /\ operations[k].status = "PROCESSING"
                       /\ \A d \in Caller \ {c} : caller[d].at = "idle" \/ caller[d].key # k
  BY <1>0, AtWork
<1>2. CASE G!Failed(c) /\ UNCHANGED generated
  BY <1>0, <1>2, StepFailed
<1>3. CASE /\ generated' = [generated EXCEPT ![caller[c].key] = G!BoundVersion(caller[c].key, G!Frozen(c))]
           /\ caller' = [caller EXCEPT ![c].at = "complete"] /\ UNCHANGED operations
  <2>1. generated[k] = G!NoVersion /\ Froze(caller[c].version, k)
    BY <1>0, <1>1 DEF GenInv, CallerInv
  <2>2. generated' = [generated EXCEPT ![k] = caller[c].version]
    BY <1>1, <1>3, <2>1 DEF G!BoundVersion, G!Frozen
  <2>3. caller' = [caller EXCEPT ![c] = [@ EXCEPT !.at = "complete"]]
    BY <1>3 DEF GenInv, GenTypes, CallerRow
  <2>4. SuiteTypes' /\ VersionInv' /\ SuitesGrow /\ Following /\ (\A q : SameVersions(q))
    BY <1>0, SuitesKept
  <2>5. GenTypes'
    <3>1. caller[c].version \in G!VersionId /\ [caller[c] EXCEPT !.at = "complete"] \in CallerRow
      BY DEF GenInv, GenTypes, CallerRow
    <3>2. UNCHANGED operations
      BY <1>3
    <3> QED
      BY <1>0, <2>2, <2>3, <2>4, <3>1, <3>2 DEF GenInv, GenTypes
  <2>6. /\ caller'[c].at = "complete" /\ caller'[c].key = k /\ caller'[c].version = caller[c].version
        /\ generated'[k] = caller[c].version /\ \A d \in Caller \ {c} : caller'[d] = caller[d]
    BY <1>1, <2>2, <2>3 DEF GenInv, GenTypes, CallerRow
  <2>7. Froze(caller[c].version, k)' /\ Froze(generated[k], k)'
    <3>1. Froze(caller[c].version, k) /\ UNCHANGED followed
      BY <1>0, <2>1
    <3>2. ASSUME NEW v, v = caller[c].version PROVE Froze(v, k)'
      BY <2>4, <3>1, <3>2, FrozeKept
    <3> QED
      BY <2>6, <3>2
  <2>8. CallerInv(c)'
    BY <1>1, <1>3, <2>6, <2>7 DEF CallerInv
  <2>9. KeyInv(k)'
    BY <1>1, <1>3, <2>7 DEF KeyInv
  <2>10. OnlyOf(c, k)
    BY <1>1, <1>3, <2>2, <2>4, <2>6 DEF OnlyOf
  <2> QED
    BY <2>4, <2>5, <2>8, <2>9, <2>10, OneCaller
<1> QED
  BY <1>2, <1>3 DEF G!StartValidation

LEMMA StepComplete == ASSUME GenInv, NEW c \in Caller, G!CompleteGeneration(c) PROVE GenInv'
<1>0. caller[c].at = "complete" /\ UNCHANGED <<suites, generated, followed, crashes>>
  BY DEF G!CompleteGeneration
<1>1. PICK k \in Key : /\ k = caller[c].key /\ operations[k].status = "PROCESSING"
                       /\ \A d \in Caller \ {c} : caller[d].at = "idle" \/ caller[d].key # k
  BY <1>0, AtWork
<1>2. /\ operations' = [operations EXCEPT ![k] =
                         [status |-> "COMPLETED", version |-> caller[c].version, validation |-> generated[k]]]
      /\ caller' = [caller EXCEPT ![c] = G!Idle]
  BY <1>1 DEF G!CompleteGeneration
<1>3. SuiteTypes' /\ VersionInv' /\ SuitesGrow /\ Following /\ (\A q : SameVersions(q))
  BY <1>0, SuitesKept
<1>4. GenTypes'
  <2>1. caller[c].version \in G!VersionId /\ generated[k] \in G!VersionId
    BY DEF GenInv, GenTypes, CallerRow
  <2>2. [status |-> "COMPLETED", version |-> caller[c].version, validation |-> generated[k]] \in OperationRow
    BY <2>1 DEF OperationRow
  <2> QED
    BY <1>0, <1>2, <1>3, <2>2, IdleRow DEF GenInv, GenTypes
<1>5. /\ caller'[c].at = "idle" /\ operations'[k].status = "COMPLETED"
      /\ operations'[k].version = caller[c].version /\ operations'[k].validation = generated[k]
  BY <1>2, IdleRow DEF GenInv, GenTypes
<1>6. CallerInv(c)'
  BY <1>5 DEF CallerInv
<1>7. KeyInv(k)'
  <2>1. caller[c].version = generated[k]
    BY <1>0, <1>1 DEF GenInv, CallerInv
  <2> QED
    BY <1>0, <1>3, <1>5, <2>1, FrozeKept DEF GenInv, KeyInv
<1>8. OnlyOf(c, k)
  BY <1>0, <1>1, <1>2, <1>3, <1>5 DEF OnlyOf
<1> QED
  BY <1>3, <1>4, <1>6, <1>7, <1>8, OneCaller

\* A request that stopped leaves what it wrote to nobody.
LEMMA StepStop == ASSUME GenInv, G!Crash PROVE GenInv'
<1>1. /\ caller' = [c \in Caller |-> G!Idle] /\ crashes' = crashes + 1 /\ crashes < MaxCrashes
      /\ UNCHANGED <<suites, operations, generated, followed>>
  BY DEF G!Crash
<1>2. SuiteTypes' /\ VersionInv' /\ SuitesGrow /\ Following /\ (\A q : SameVersions(q))
  BY <1>1, SuitesKept
<1>3. GenTypes'
  BY <1>1, <1>2, IdleRow, Bounds DEF GenInv, GenTypes
<1>4. \A c \in Caller : CallerInv(c)'
  BY <1>1, IdleRow DEF CallerInv
<1>5. ASSUME NEW k \in Key PROVE KeyInv(k)'
  BY <1>1, <1>2, KeyKept
<1> QED
  BY <1>2, <1>3, <1>4, <1>5 DEF GenInv

LEMMA GenStep == ASSUME GenInv, [G!Next]_(G!vars) PROVE GenInv'
<1>1. CASE UNCHANGED G!vars
  <2>1. UNCHANGED <<suites, operations, generated, caller, followed, crashes>>
    BY <1>1 DEF G!vars
  <2> QED
    BY <2>1, SuitesKept, NoCaller
<1>2. CASE G!Next
  <2>1. ASSUME NEW c \in Caller, G!Generate(c) PROVE GenInv'
    <3>1. ASSUME G!GenerationFails(c) PROVE GenInv'
      BY <3>1, StepFailed DEF G!GenerationFails
    <3> QED
      BY <2>1, <3>1, StepBegin, StepRead, StepStoreNew, StepStoreVersion, StepReadBack, StepValidate,
         StepComplete
         DEF G!Generate
  <2> QED
    BY <1>2, <2>1, StepCreate, StepUpload, StepArchive, StepStop DEF G!Next
<1> QED
  BY <1>1, <1>2

-----------------------------------------------------------------------------
(* What the invariant says.                                                 *)

LEMMA SameCount == ASSUME NEW T PROVE G!Cardinality(T) = Cardinality(T)
BY DEF G!Cardinality, Cardinality

LEMMA GenTyped == GenInv => G!TypeOK
<1> SUFFICES ASSUME GenInv PROVE G!TypeOK
  OBVIOUS
<1>1. ASSUME NEW s \in DOMAIN suites
      PROVE  /\ suites[s].archived \in BOOLEAN /\ suites[s].generated \in BOOLEAN
             /\ Len(suites[s].versions) \in 1 .. MaxVersions
             /\ \A v \in DOMAIN suites[s].versions : suites[s].versions[v] \in Versions
  <2>1. suites[s] \in SuiteRow
    BY SeqElements DEF GenInv, GenTypes, SuiteTypes
  <2>2. suites[s].versions \in Seq(Versions) /\ Len(suites[s].versions) \in 1 .. MaxVersions
    BY LatestRow DEF GenInv, GenTypes
  <2>3. suites[s].archived \in BOOLEAN /\ suites[s].generated \in BOOLEAN
    BY <2>1 DEF SuiteRow
  <2> QED
    BY <2>2, <2>3, SeqElements
<1> QED
  BY <1>1 DEF GenInv, GenTypes, SuiteTypes, G!TypeOK, Versions, OperationRow, CallerRow, Source

LEMMA GenMeans == GenInv => G!OneResultPerKey
<1> SUFFICES ASSUME GenInv, NEW k \in Key
             PROVE  LET mine == {v \in G!VersionId \ {G!NoVersion} :
                                   /\ v[1] \in DOMAIN suites /\ v[2] \in DOMAIN suites[v[1]].versions
                                   /\ G!Version(v).by = k}
                    IN /\ G!Cardinality(mine) <= 1
                       /\ generated[k] # G!NoVersion =>
                            \E v \in mine :
                              /\ k \in G!Version(v).tests
                              /\ generated[k][1] = v[1]
                              /\ generated[k][2] \in v[2] .. Len(suites[v[1]].versions)
                              /\ generated[k] = v <=> k \notin followed
                       /\ operations[k].status = "COMPLETED" =>
                            operations[k].version = generated[k] /\ operations[k].validation = generated[k]
  BY Zenon DEF G!OneResultPerKey
<1> DEFINE mine == {v \in G!VersionId \ {G!NoVersion} :
                      /\ v[1] \in DOMAIN suites /\ v[2] \in DOMAIN suites[v[1]].versions
                      /\ G!Version(v).by = k}
<1>1. \A v \in mine : \E s, n \in Nat : v = <<s, n>> /\ By(s, n, k)
  <2> TAKE v \in mine
  <2>1. PICK s \in Nat, n \in Nat : v = <<s, n>>
    BY Bounds DEF G!VersionId, G!SuiteId, G!NoVersion
  <2>2. v[1] = s /\ v[2] = n
    BY <2>1
  <2> QED
    BY <2>1, <2>2 DEF By, Stored, G!Version
<1>2. \A v, w \in mine : v = w
  BY <1>1 DEF GenInv, VersionInv
<1>3. Cardinality(mine) <= 1
  <2>1. CASE mine = {}
    BY <2>1, FS_EmptySet
  <2>2. CASE mine # {}
    <3>1. PICK v : v \in mine
      BY <2>2
    <3>2. mine = {v}
      BY <1>2, <3>1
    <3> HIDE DEF mine
    <3> QED
      BY <3>2, FS_Singleton
  <2> QED
    BY <2>1, <2>2
<1>4. ASSUME generated[k] # G!NoVersion
      PROVE  \E v \in mine : /\ k \in G!Version(v).tests
                             /\ generated[k][1] = v[1]
                             /\ generated[k][2] \in v[2] .. Len(suites[v[1]].versions)
                             /\ generated[k] = v <=> k \notin followed
  <2>1. PICK s \in Nat, n \in Nat, m \in Nat :
          /\ generated[k] = <<s, m>> /\ By(s, n, k) /\ Stored(s, m) /\ n <= m
          /\ n = m <=> k \notin followed
    BY <1>4 DEF GenInv, KeyInv, Froze
  <2>2. /\ s \in DOMAIN suites /\ n \in 1 .. Len(suites[s].versions) /\ m \in 1 .. Len(suites[s].versions)
        /\ Len(suites[s].versions) \in 1 .. MaxVersions /\ s \in G!SuiteId /\ s >= 1
    <3>1. s \in DOMAIN suites
      BY <2>1 DEF Stored
    <3>2. /\ suites[s].versions \in Seq(Versions) /\ Len(suites[s].versions) \in 1 .. MaxVersions
          /\ s \in G!SuiteId
      BY <3>1, LatestRow DEF GenInv, GenTypes
    <3> QED
      BY <2>1, <3>1, <3>2, Bounds DEF By, Stored, G!SuiteId
  <2>3. <<s, n>> \in G!VersionId /\ <<s, n>> # G!NoVersion
    BY <2>2, Bounds DEF G!VersionId, G!NoVersion
  <2>4. <<s, n>>[1] = s /\ <<s, n>>[2] = n
    OBVIOUS
  <2>5. <<s, n>> \in mine
    BY <2>1, <2>3, <2>4 DEF By, Stored, G!Version
  <2>6. k \in G!Version(<<s, n>>).tests
    BY <2>1, <2>4 DEF By, GenInv, VersionInv, G!Version
  <2>7. generated[k] = <<s, n>> <=> k \notin followed
    BY <2>1
  <2>8. generated[k][1] = s /\ generated[k][2] \in n .. Len(suites[s].versions)
    BY <2>1, <2>2, Bounds
  <2> HIDE DEF mine
  <2> QED
    BY <2>4, <2>5, <2>6, <2>7, <2>8
<1>5. operations[k].status = "COMPLETED" =>
        operations[k].version = generated[k] /\ operations[k].validation = generated[k]
  BY DEF GenInv, KeyInv
<1> HIDE DEF mine
<1>6. G!Cardinality(mine) <= 1
  BY <1>3, SameCount
<1> QED
  BY <1>4, <1>5, <1>6 DEF mine

\* However often a key is sent, whatever fails and whenever the process stops,
\* it stores one version of tests and starts one validation: of that version,
\* or of a later one exactly when somebody stored it in the same suite between
\* the key's commit and its re-read; and a completed operation answers with
\* what was validated.  For any keys, requests, suites, versions and stops
\* (InterfaceTestService.generate, ValidationService.create, the test suite
\* repository).
THEOREM OneResult == AllSpec => []OneResultPerKey
<1>1. AllInit => GenInv
  BY GenInit DEF AllInit
<1>2. [AllNext]_all => [G!Next]_(G!vars)
  BY DEF AllNext, all, generation, G!vars
<1>3. GenInv /\ [AllNext]_all => GenInv'
  BY <1>2, GenStep
<1>4. GenInv => OneResultPerKey
  BY GenTyped, GenMeans DEF OneResultPerKey
<1> QED
  BY <1>1, <1>3, <1>4, PTL DEF AllSpec

-----------------------------------------------------------------------------
(* ValidationSandbox: the containers and the workspace of a side.          *)

SandboxPlaces == {"start", "prepare", "build", "test", "remove", "done", "gone"}
SandboxTypes ==
  /\ pc \in [Side -> SandboxPlaces]
  /\ workspace \in [Side -> {"none", "empty", "ready", "stuck", "late"}]
  /\ thread \in [Side -> {"none", "extract", "build", "test", "rm"}]
  /\ container \in [Side -> {"none", "build", "test"}]
  /\ exit \in [Side -> [D!Stages -> {"none", "running", "zero", "nonzero", "refused", "never"}]]
  /\ DOMAIN result = Side
  /\ given \in [Side -> {"no", "prepare", "overall", "cancel"}]

\* While a coroutine awaits, the thread it awaits is the one at work.
ThreadInv(s) ==
  /\ pc[s] = "start" => /\ workspace[s] = "none" /\ thread[s] = "none" /\ container[s] = "none"
  /\ pc[s] = "prepare" => thread[s] = "extract"
  /\ pc[s] \in {"build", "test"} => thread[s] = pc[s]
  /\ pc[s] = "remove" => thread[s] = "rm"
  /\ pc[s] = "gone" => thread[s] = "none"
  /\ pc[s] # "done" => given[s] = "no" /\ result[s] = D!Unfinished

\* No container runs before its thread, or beside another, and a test only
\* after a build that succeeded.
ContainerInv(s) ==
  /\ pc[s] = "start" \/ thread[s] = "extract" =>
       container[s] = "none" /\ exit[s]["build"] = "none" /\ exit[s]["test"] = "none"
  /\ container[s] # "none" => exit[s][container[s]] = "running"
  /\ thread[s] = "build" => exit[s]["build"] \in {"none", "running"} /\ exit[s]["test"] = "none"
  /\ thread[s] = "test" => exit[s]["test"] \in {"none", "running"}
  /\ thread[s] \in D!Stages /\ exit[s][thread[s]] = "none" => container[s] = "none"
  /\ thread[s] = "test" \/ exit[s]["test"] # "none" => exit[s]["build"] = "zero"

\* What goes on for a side that is done says who gave it up.
DoneInv(s) ==
  pc[s] = "done" =>
    /\ thread[s] = "extract" => given[s] # "no"
    /\ thread[s] \in {"build", "test", "rm"} => given[s] \in {"overall", "cancel"}
    /\ workspace[s] = "late" => thread[s] = "none" /\ container[s] = "none"
    /\ D!WorkspaceGone(s) /\ D!ContainerGone(s) /\ D!ResultIsReal(s)

SideInv(s) == ThreadInv(s) /\ ContainerInv(s) /\ DoneInv(s)

\* After a crash nothing is awaited any more.
SandboxInv ==
  /\ SandboxTypes /\ \A s \in Side : SideInv(s)
  /\ (\E s \in Side : pc[s] = "gone") => \A s \in Side : pc[s] \in {"gone", "done"}

LEMMA GoneMeans ==
  ASSUME NEW s \in Side
  PROVE  /\ D!WorkspaceGone(s) <=>
              (\/ workspace[s] = "none"
               \/ (workspace[s] = "stuck" /\ result[s].status = "FAILED")
               \/ (/\ workspace[s] = "late" /\ given[s] # "no"
                   /\ exit[s]["build"] = "none" /\ exit[s]["test"] = "none"))
         /\ D!WorkspaceGone(s)' <=>
              (\/ workspace'[s] = "none"
               \/ (workspace'[s] = "stuck" /\ result'[s].status = "FAILED")
               \/ (/\ workspace'[s] = "late" /\ given'[s] # "no"
                   /\ exit'[s]["build"] = "none" /\ exit'[s]["test"] = "none"))
BY DEF D!WorkspaceGone, D!Stages

LEMMA RowFields ==
  /\ D!Failed.status = "FAILED" /\ D!Failed.build = "NOT_RUN" /\ D!Failed.test = "NOT_RUN"
  /\ D!Unfinished.status = "RUNNING" /\ D!Unfinished.build = "NOT_RUN" /\ D!Unfinished.test = "NOT_RUN"
BY DEF D!Failed, D!Unfinished, D!Row

LEMMA SandboxInit == D!Init => SandboxInv
<1> SUFFICES ASSUME D!Init PROVE SandboxInv
  OBVIOUS
<1>1. SandboxTypes
  BY DEF D!Init, SandboxTypes, SandboxPlaces, D!Stages
<1>2. ASSUME NEW s \in Side PROVE SideInv(s) /\ pc[s] = "start"
  BY DEF D!Init, SideInv, ThreadInv, ContainerInv, DoneInv, D!Stages
<1> QED
  BY <1>1, <1>2 DEF SandboxInv

\* What a step of another side leaves alone.
SameSide(t) ==
  /\ pc'[t] = pc[t] /\ workspace'[t] = workspace[t] /\ thread'[t] = thread[t]
  /\ container'[t] = container[t] /\ exit'[t] = exit[t] /\ result'[t] = result[t]
  /\ given'[t] = given[t] /\ (t \in kept' <=> t \in kept)

LEMMA SideKept ==
  ASSUME NEW t \in Side, SideInv(t), SameSide(t) PROVE SideInv(t)'
<1>1. ThreadInv(t)'
  BY DEF SideInv, SameSide, ThreadInv, D!Unfinished, D!Row
<1>2. ContainerInv(t)'
  BY DEF SideInv, SameSide, ContainerInv, D!Stages
<1>3. DoneInv(t)'
  <2>1. D!WorkspaceGone(t) => D!WorkspaceGone(t)'
    BY GoneMeans DEF SameSide
  <2>2. D!ContainerGone(t) => D!ContainerGone(t)'
    BY DEF SameSide, D!ContainerGone
  <2>3. D!ResultIsReal(t) => D!ResultIsReal(t)'
    BY DEF SameSide, D!ResultIsReal
  <2> QED
    BY <2>1, <2>2, <2>3 DEF SideInv, SameSide, DoneInv
<1> QED
  BY <1>1, <1>2, <1>3 DEF SideInv

LEMMA OneSide ==
  ASSUME SandboxInv, SandboxTypes', NEW s \in Side, \A t \in Side \ {s} : SameSide(t), SideInv(s)',
         pc'[s] \in {pc[s], "done"} \/ (pc[s] \notin {"gone", "done"} /\ pc'[s] # "gone")
  PROVE  SandboxInv'
<1>1. \A t \in Side : SideInv(t)'
  BY SideKept DEF SandboxInv
<1>2. \A t \in Side \ {s} : pc'[t] = pc[t]
  BY DEF SameSide
<1>3. (\E t \in Side : pc'[t] = "gone") => \A t \in Side : pc'[t] \in {"gone", "done"}
  BY <1>2 DEF SandboxInv
<1> QED
  BY <1>1, <1>3 DEF SandboxInv

\* A side that ends: its row has these columns, or is a failure.
Columns(row, st, b, t) == row.status = st /\ row.build = b /\ row.test = t
EndsAs(s, st, b, t) ==
  /\ pc'[s] = "done"
  /\ \/ workspace'[s] = "none" /\ Columns(result'[s], st, b, t)
     \/ workspace'[s] \in {"none", "stuck"} /\ result'[s] = D!Failed
EndTypes(s) ==
  /\ pc' \in [Side -> SandboxPlaces] /\ DOMAIN result' = Side
  /\ workspace' \in [Side -> {"none", "empty", "ready", "stuck", "late"}]
  /\ \A t \in Side \ {s} : pc'[t] = pc[t] /\ workspace'[t] = workspace[t] /\ result'[t] = result[t]

LEMMA EndOf ==
  ASSUME SandboxTypes, NEW s \in Side, NEW row, NEW st, NEW b, NEW t,
         D!End(s, row), row = D!Failed \/ Columns(row, st, b, t)
  PROVE  EndTypes(s) /\ EndsAs(s, st, b, t)
<1>1. /\ pc' = [pc EXCEPT ![s] = "done"]
      /\ \/ workspace' = [workspace EXCEPT ![s] = "none"] /\ result' = [result EXCEPT ![s] = row]
         \/ workspace' = [workspace EXCEPT ![s] = "stuck"] /\ result' = [result EXCEPT ![s] = D!Failed]
  BY DEF D!End
<1>2. EndTypes(s)
  <2>1. pc' \in [Side -> SandboxPlaces] /\ \A u \in Side \ {s} : pc'[u] = pc[u]
    BY <1>1 DEF SandboxTypes, SandboxPlaces
  <2>2. /\ workspace' \in [Side -> {"none", "empty", "ready", "stuck", "late"}] /\ DOMAIN result' = Side
        /\ \A u \in Side \ {s} : workspace'[u] = workspace[u] /\ result'[u] = result[u]
    BY <1>1, ZenonT(40) DEF SandboxTypes
  <2> QED
    BY <2>1, <2>2 DEF EndTypes
<1>3. pc'[s] = "done"
  BY <1>1 DEF SandboxTypes
<1>4. \/ workspace'[s] = "none" /\ result'[s] = row
      \/ workspace'[s] = "stuck" /\ result'[s] = D!Failed
  BY <1>1 DEF SandboxTypes
<1> QED
  BY <1>2, <1>3, <1>4 DEF EndsAs

LEMMA ReturnOf ==
  ASSUME SandboxTypes, NEW s \in Side, NEW row, NEW st, NEW b, NEW t,
         D!Return(s, row), Columns(row, st, b, t)
  PROVE  EndTypes(s) /\ EndsAs(s, st, b, t)
BY EndOf DEF D!Return

\* Reading the reports changes no column but the tests.
LEMMA NormalizedOf ==
  ASSUME SandboxTypes, NEW s \in Side, NEW st, NEW b, NEW t, D!Normalized(s, D!Row(st, b, t, {}))
  PROVE  EndTypes(s) /\ EndsAs(s, st, b, t)
<1>1. PICK reports \in SUBSET Report :
        \/ D!End(s, D!Failed)
        \/ D!Return(s, [D!Row(st, b, t, {}) EXCEPT !.tests =
                          {D!Status(case) : case \in UNION (reports \ {Unreadable})}])
  BY DEF D!Normalized
<1>2. \A ts : Columns([D!Row(st, b, t, {}) EXCEPT !.tests = ts], st, b, t)
  BY DEF D!Row, Columns
<1> QED
  BY <1>1, <1>2, EndOf, ReturnOf

\* A row that ends a side as what is left of its containers has it.
LEMMA EndedSide ==
  ASSUME NEW s \in Side, NEW st, NEW b, NEW t, EndsAs(s, st, b, t), ContainerInv(s)',
         b = "PASSED" => exit'[s]["build"] = "zero",
         t = "PASSED" => exit'[s]["test"] = "zero",
         b = "FAILED" => exit'[s]["build"] \in {"nonzero", "refused"},
         t = "FAILED" => exit'[s]["test"] \in {"nonzero", "refused"},
         st = "COMPLETED" => given'[s] = "no" /\ thread'[s] = "none",
         thread'[s] = "extract" => given'[s] # "no",
         thread'[s] \in {"build", "test", "rm"} => given'[s] \in {"overall", "cancel"},
         container'[s] # "none" => s \in kept' \/ given'[s] \in {"overall", "cancel"}
  PROVE  SideInv(s)'
<1>1. ThreadInv(s)'
  BY DEF EndsAs, ThreadInv
<1>2. D!WorkspaceGone(s)'
  BY GoneMeans, RowFields DEF EndsAs
<1>3. D!ContainerGone(s)'
  BY DEF D!ContainerGone
<1>4. D!ResultIsReal(s)'
  BY RowFields DEF EndsAs, Columns, D!ResultIsReal
<1>5. DoneInv(s)'
  BY <1>2, <1>3, <1>4 DEF DoneInv, EndsAs
<1> QED
  BY <1>1, <1>5 DEF SideInv

\* The steps that end no side, or end one with no container to answer for.
LEMMA StepStart == ASSUME SandboxInv, NEW s \in Side, D!Start(s) PROVE SandboxInv'
<1>1. SandboxTypes' /\ \A t \in Side \ {s} : SameSide(t)
  BY DEF SandboxInv, SandboxTypes, SandboxPlaces, D!Start, SameSide
<1>2. SideInv(s)' /\ pc[s] = "start" /\ pc'[s] = "prepare"
  BY DEF SandboxInv, SandboxTypes, D!Start, SideInv, ThreadInv, ContainerInv, DoneInv, D!Stages,
         D!Unfinished, D!Row
<1> QED
  BY <1>1, <1>2, OneSide

LEMMA StepExtract ==
  ASSUME SandboxInv, NEW s \in Side, D!ExtractFails(s) \/ D!Extracted(s) PROVE SandboxInv'
<1> USE DEF SandboxInv
<1>0. /\ thread[s] = "extract" /\ UNCHANGED <<container, exit, given, kept>>
      /\ container[s] = "none" /\ exit[s]["build"] = "none" /\ exit[s]["test"] = "none"
  BY DEF D!ExtractFails, D!Extracted, SideInv, ContainerInv
<1>1. CASE pc[s] = "prepare" /\ D!End(s, D!Failed) /\ thread' = [thread EXCEPT ![s] = "none"]
  <2>1. EndTypes(s) /\ EndsAs(s, "FAILED", "NOT_RUN", "NOT_RUN")
    BY <1>1, EndOf
  <2>2. SandboxTypes' /\ (\A t \in Side \ {s} : SameSide(t)) /\ thread'[s] = "none"
    BY <1>0, <1>1, <2>1 DEF SandboxTypes, EndTypes, SameSide
  <2>3. ContainerInv(s)'
    BY <1>0, <2>2 DEF ContainerInv, D!Stages
  <2>4. SideInv(s)'
    BY <1>0, <2>1, <2>2, <2>3, EndedSide
  <2>5. pc'[s] = "done"
    BY <2>1 DEF EndsAs
  <2> QED
    BY <2>2, <2>4, <2>5, OneSide
<1>2. CASE /\ pc[s] = "prepare" /\ workspace' = [workspace EXCEPT ![s] = "ready"]
           /\ pc' = [pc EXCEPT ![s] = "build"] /\ thread' = [thread EXCEPT ![s] = "build"]
           /\ UNCHANGED result
  <2>1. SandboxTypes' /\ (\A t \in Side \ {s} : SameSide(t)) /\ pc'[s] = "build" /\ thread'[s] = "build"
    BY <1>0, <1>2 DEF SandboxTypes, SandboxPlaces, SameSide
  <2>2. ThreadInv(s)' /\ ContainerInv(s)' /\ DoneInv(s)'
    BY <1>0, <1>2, <2>1 DEF SideInv, ThreadInv, ContainerInv, DoneInv, D!Stages, D!Unfinished, D!Row
  <2> QED
    BY <1>2, <2>1, <2>2, OneSide DEF SideInv
<1>3. CASE /\ pc[s] # "prepare" /\ UNCHANGED <<pc, result>> /\ thread' = [thread EXCEPT ![s] = "none"]
           /\ workspace' \in {workspace, [workspace EXCEPT ![s] = "late"]}
  <2>1. pc[s] = "done" /\ given[s] # "no"
    BY <1>0, <1>3 DEF SandboxTypes, SandboxPlaces, SideInv, ThreadInv, DoneInv
  <2>2. SandboxTypes' /\ (\A t \in Side \ {s} : SameSide(t)) /\ thread'[s] = "none"
    BY <1>0, <1>3 DEF SandboxTypes, SameSide
  <2>3. ThreadInv(s)' /\ ContainerInv(s)'
    BY <1>0, <1>3, <2>1, <2>2 DEF SideInv, ThreadInv, ContainerInv, D!Stages
  <2>4. D!WorkspaceGone(s)' /\ workspace'[s] \in {workspace[s], "late"}
    BY <1>0, <1>3, <2>1, GoneMeans DEF SandboxTypes, SideInv, DoneInv
  <2>5. D!ContainerGone(s)' /\ D!ResultIsReal(s)'
    BY <1>0, <1>3, <2>1, <2>2 DEF SideInv, DoneInv, D!ContainerGone, D!ResultIsReal
  <2>6. SideInv(s)'
    BY <1>0, <2>2, <2>3, <2>4, <2>5 DEF SideInv, DoneInv
  <2> QED
    BY <1>3, <2>2, <2>6, OneSide
<1> QED
  BY <1>1, <1>2, <1>3 DEF D!ExtractFails, D!Extracted, D!Abandoned

LEMMA StepGiveUp ==
  ASSUME SandboxInv, NEW s \in Side, D!PrepareTimeout(s) \/ D!OverallTimeout(s) PROVE SandboxInv'
<1> USE DEF SandboxInv
<1>1. /\ EndTypes(s) /\ EndsAs(s, "TIMEOUT", "TIMEOUT", "NOT_RUN")
      /\ UNCHANGED <<thread, container, exit, kept>>
  <2>1. Columns(D!Row("TIMEOUT", "TIMEOUT", "NOT_RUN", {}), "TIMEOUT", "TIMEOUT", "NOT_RUN")
    BY DEF Columns, D!Row
  <2> QED
    BY <2>1, EndOf DEF D!PrepareTimeout, D!OverallTimeout
<1>2. /\ given' = [given EXCEPT ![s] = "prepare"] /\ thread[s] = "extract" /\ container[s] = "none"
      \/ given' = [given EXCEPT ![s] = "overall"]
  BY DEF D!PrepareTimeout, D!OverallTimeout, SideInv, ThreadInv, ContainerInv
<1>3. SandboxTypes' /\ \A t \in Side \ {s} : SameSide(t)
  BY <1>1, <1>2 DEF SandboxTypes, EndTypes, SameSide
<1>4. ContainerInv(s)'
  <2>1. pc'[s] = "done"
    BY <1>1 DEF EndsAs
  <2> QED
    BY <1>1, <2>1 DEF SideInv, ContainerInv, D!Stages
<1>5. SideInv(s)'
  <2>1. \/ given'[s] = "prepare" /\ thread'[s] = "extract" /\ container'[s] = "none"
        \/ given'[s] = "overall"
    BY <1>1, <1>2 DEF SandboxTypes
  <2> QED
    BY <1>1, <1>4, <2>1, EndedSide
<1>6. pc'[s] = "done"
  BY <1>1 DEF EndsAs
<1> QED
  BY <1>3, <1>5, <1>6, OneSide

LEMMA StepContainer == ASSUME SandboxInv, NEW s \in Side, D!ContainerStarts(s) PROVE SandboxInv'
<1> USE DEF SandboxInv
<1>0. /\ thread[s] \in D!Stages /\ exit[s][thread[s]] = "none" /\ workspace[s] # "none"
      /\ container' = [container EXCEPT ![s] = thread[s]]
      /\ exit' = [exit EXCEPT ![s][thread[s]] = "running"]
      /\ UNCHANGED <<pc, workspace, thread, result, given, kept>>
  BY DEF D!ContainerStarts
<1>1. SandboxTypes' /\ \A t \in Side \ {s} : SameSide(t)
  BY <1>0 DEF SandboxTypes, SameSide, D!Stages
<1>2. /\ container'[s] = thread[s] /\ exit'[s][thread[s]] = "running"
      /\ \A g \in D!Stages \ {thread[s]} : exit'[s][g] = exit[s][g]
  BY <1>0 DEF SandboxTypes
<1>3. ThreadInv(s)' /\ ContainerInv(s)'
  BY <1>0, <1>2 DEF SideInv, ThreadInv, ContainerInv, D!Stages, D!Unfinished, D!Row
<1>4. DoneInv(s)'
  <2> SUFFICES ASSUME pc[s] = "done" PROVE DoneInv(s)'
    BY <1>0 DEF DoneInv
  <2>1. given[s] \in {"overall", "cancel"} /\ workspace[s] # "late"
    BY <1>0 DEF SideInv, DoneInv, D!Stages
  <2>2. D!WorkspaceGone(s)'
    BY <1>0, <2>1, GoneMeans DEF SideInv, DoneInv
  <2>3. D!ContainerGone(s)'
    BY <1>0, <2>1 DEF D!ContainerGone
  <2>4. D!ResultIsReal(s)'
    BY <1>0, <1>2 DEF SideInv, DoneInv, D!ResultIsReal, D!Stages
  <2> QED
    BY <1>0, <2>1, <2>2, <2>3, <2>4 DEF SideInv, DoneInv
<1> QED
  BY <1>0, <1>1, <1>3, <1>4, OneSide DEF SideInv

\* What becomes of the exit code of a stage: nobody awaits it, the next stage
\* begins, or the side ends with the row of what the stage did.
LEMMA TakeExitOf ==
  ASSUME SandboxTypes, NEW s \in Side, NEW stage \in D!Stages, NEW ok \in BOOLEAN, D!TakeExit(s, stage, ok)
  PROVE  \/ pc[s] # stage /\ UNCHANGED <<pc, workspace, result>> /\ thread' = [thread EXCEPT ![s] = "none"]
         \/ /\ pc[s] = stage /\ stage = "build" /\ ok /\ UNCHANGED <<workspace, result>>
            /\ pc' = [pc EXCEPT ![s] = "test"] /\ thread' = [thread EXCEPT ![s] = "test"]
         \/ /\ pc[s] = stage /\ EndTypes(s) /\ thread' = [thread EXCEPT ![s] = "none"]
            /\ \/ stage = "build" /\ ~ok /\ EndsAs(s, "COMPLETED", "FAILED", "NOT_RUN")
               \/ stage = "test" /\ EndsAs(s, "COMPLETED", "PASSED", IF ok THEN "PASSED" ELSE "FAILED")
<1>1. CASE pc[s] # stage
  BY <1>1 DEF D!TakeExit, D!Abandoned
<1>2. CASE pc[s] = stage /\ stage = "test"
  <2>1. /\ D!Normalized(s, D!Row("COMPLETED", "PASSED", IF ok THEN "PASSED" ELSE "FAILED", {}))
        /\ thread' = [thread EXCEPT ![s] = "none"]
    BY <1>2 DEF D!TakeExit
  <2> QED
    BY <1>2, <2>1, NormalizedOf
<1>3. CASE pc[s] = stage /\ stage = "build" /\ ok
  BY <1>3 DEF D!TakeExit
<1>4. CASE pc[s] = stage /\ stage = "build" /\ ~ok
  <2>1. Columns(D!Row("COMPLETED", "FAILED", "NOT_RUN", {}), "COMPLETED", "FAILED", "NOT_RUN")
    BY DEF Columns, D!Row
  <2>2. /\ D!Return(s, D!Row("COMPLETED", "FAILED", "NOT_RUN", {}))
        /\ thread' = [thread EXCEPT ![s] = "none"]
    BY <1>4 DEF D!TakeExit
  <2> QED
    BY <1>4, <2>1, <2>2, ReturnOf
<1> QED
  BY <1>1, <1>2, <1>3, <1>4 DEF D!Stages

\* The command of a stage ends, with its container or without one.
LEMMA CommandEnds ==
  ASSUME SandboxInv, NEW s \in Side, NEW stage \in D!Stages, NEW ok \in BOOLEAN, NEW code,
         thread[s] = stage, UNCHANGED <<given, kept>>,
         \/ D!TakeExit(s, stage, ok)
         \/ ~ok /\ pc[s] = stage /\ D!End(s, D!Failed) /\ thread' = [thread EXCEPT ![s] = "none"],
         exit[s][stage] \in {"none", "running"}, exit' = [exit EXCEPT ![s][stage] = code],
         (ok /\ code = "zero") \/ (~ok /\ code \in {"nonzero", "refused"}),
         container' = [container EXCEPT ![s] = "none"]
  PROVE  SandboxInv'
<1> USE DEF SandboxInv
<1>0. /\ exit'[s][stage] = code /\ container'[s] = "none"
      /\ \A g \in D!Stages \ {stage} : exit'[s][g] = exit[s][g]
      /\ exit' \in [Side -> [D!Stages -> {"none", "running", "zero", "nonzero", "refused", "never"}]]
      /\ container' \in [Side -> {"none", "build", "test"}]
      /\ \A t \in Side \ {s} : exit'[t] = exit[t] /\ container'[t] = container[t]
  BY DEF SandboxTypes
<1>a. stage = "build" => exit[s]["test"] = "none"
  BY DEF SideInv, ContainerInv
<1>b. stage = "test" => exit[s]["build"] = "zero"
  BY DEF SideInv, ContainerInv
<1>1. CASE pc[s] # stage /\ UNCHANGED <<pc, workspace, result>> /\ thread' = [thread EXCEPT ![s] = "none"]
  <2>1. pc[s] = "done" /\ given[s] \in {"overall", "cancel"}
    BY <1>1 DEF SandboxTypes, SandboxPlaces, SideInv, ThreadInv, DoneInv, D!Stages
  <2>2. SandboxTypes' /\ (\A t \in Side \ {s} : SameSide(t)) /\ thread'[s] = "none"
    BY <1>0, <1>1 DEF SandboxTypes, SameSide
  <2>3. ThreadInv(s)' /\ ContainerInv(s)'
    BY <1>0, <1>a, <1>b, <1>1, <2>1, <2>2 DEF ThreadInv, ContainerInv, D!Stages
  <2>4. D!WorkspaceGone(s)' /\ workspace[s] # "late"
    BY <1>1, <2>1, GoneMeans DEF SideInv, DoneInv, D!Stages
  <2>5. D!ContainerGone(s)'
    BY <1>0 DEF D!ContainerGone
  <2>6. D!ResultIsReal(s)'
    BY <1>0, <1>1, <2>1 DEF SideInv, DoneInv, D!ResultIsReal, D!Stages
  <2>7. SideInv(s)'
    BY <1>1, <2>2, <2>3, <2>4, <2>5, <2>6 DEF SideInv, DoneInv
  <2> QED
    BY <1>1, <2>2, <2>7, OneSide
<1>2. CASE /\ pc[s] = stage /\ stage = "build" /\ ok /\ UNCHANGED <<workspace, result>>
           /\ pc' = [pc EXCEPT ![s] = "test"] /\ thread' = [thread EXCEPT ![s] = "test"]
  <2>1. /\ SandboxTypes' /\ \A t \in Side \ {s} : SameSide(t)
        /\ pc'[s] = "test" /\ thread'[s] = "test"
    BY <1>0, <1>2 DEF SandboxTypes, SandboxPlaces, SameSide
  <2>2. ThreadInv(s)' /\ DoneInv(s)'
    BY <1>2, <2>1 DEF SideInv, ThreadInv, DoneInv, D!Unfinished, D!Row
  <2>3. ContainerInv(s)'
    BY <1>0, <1>a, <1>2, <2>1 DEF ContainerInv, D!Stages
  <2> QED
    BY <1>2, <2>1, <2>2, <2>3, OneSide DEF SideInv
<1>3. ASSUME pc[s] = stage, EndTypes(s), thread' = [thread EXCEPT ![s] = "none"],
             \/ ~ok /\ EndsAs(s, "FAILED", "NOT_RUN", "NOT_RUN")
             \/ stage = "build" /\ ~ok /\ EndsAs(s, "COMPLETED", "FAILED", "NOT_RUN")
             \/ stage = "test" /\ EndsAs(s, "COMPLETED", "PASSED", IF ok THEN "PASSED" ELSE "FAILED")
      PROVE  SandboxInv'
  <2>1. SandboxTypes' /\ (\A t \in Side \ {s} : SameSide(t)) /\ thread'[s] = "none" /\ given'[s] = "no"
    <3>1. given[s] = "no"
      BY <1>3 DEF SideInv, ThreadInv, D!Stages
    <3> QED
      BY <1>0, <1>3, <3>1 DEF SandboxTypes, EndTypes, SameSide
  <2>2. pc'[s] = "done"
    BY <1>3 DEF EndsAs
  <2>3. ContainerInv(s)'
    BY <1>0, <1>a, <1>b, <2>1, <2>2 DEF ContainerInv, D!Stages
  <2>4. SideInv(s)'
    <3>1. CASE EndsAs(s, "FAILED", "NOT_RUN", "NOT_RUN")
      BY <1>0, <2>1, <2>3, <3>1, EndedSide
    <3>2. CASE stage = "build" /\ ~ok /\ EndsAs(s, "COMPLETED", "FAILED", "NOT_RUN")
      BY <1>0, <2>1, <2>3, <3>2, EndedSide
    <3>3. CASE stage = "test" /\ ok /\ EndsAs(s, "COMPLETED", "PASSED", "PASSED")
      <4>1. exit'[s]["build"] = "zero" /\ exit'[s]["test"] = "zero"
        BY <1>0, <1>b, <3>3 DEF D!Stages
      <4> QED
        BY <1>0, <2>1, <2>3, <3>3, <4>1, EndedSide
    <3>4. CASE stage = "test" /\ ~ok /\ EndsAs(s, "COMPLETED", "PASSED", "FAILED")
      <4>1. exit'[s]["build"] = "zero" /\ exit'[s]["test"] \in {"nonzero", "refused"}
        BY <1>0, <1>b, <3>4 DEF D!Stages
      <4> QED
        BY <1>0, <2>1, <2>3, <3>4, <4>1, EndedSide
    <3> QED
      BY <1>3, <3>1, <3>2, <3>3, <3>4
  <2> QED
    BY <2>1, <2>2, <2>4, OneSide
<1>4. CASE ~ok /\ pc[s] = stage /\ D!End(s, D!Failed) /\ thread' = [thread EXCEPT ![s] = "none"]
  BY <1>3, <1>4, EndOf
<1>5. CASE D!TakeExit(s, stage, ok)
  BY <1>1, <1>2, <1>3, <1>5, TakeExitOf
<1> QED
  BY <1>4, <1>5

LEMMA StepExit ==
  ASSUME SandboxInv, NEW s \in Side, NEW ok \in BOOLEAN, D!ContainerExits(s, ok) PROVE SandboxInv'
<1> USE DEF SandboxInv
<1> DEFINE stage == container[s]
           code == IF ok THEN "zero" ELSE "nonzero"
<1>0. /\ stage \in D!Stages /\ exit[s][stage] = "running"
      /\ container' = [container EXCEPT ![s] = "none"]
      /\ exit' = [exit EXCEPT ![s][stage] = code] /\ UNCHANGED <<given, kept>>
  BY DEF D!ContainerExits, SandboxTypes, SideInv, ContainerInv, D!Stages
<1>1. CASE thread[s] = stage /\ D!TakeExit(s, stage, ok)
  <2>1. (ok /\ code = "zero") \/ (~ok /\ code \in {"nonzero", "refused"})
    OBVIOUS
  <2> HIDE DEF stage, code
  <2> QED
    BY <1>0, <1>1, <2>1, CommandEnds
<1>2. CASE thread[s] # stage /\ UNCHANGED <<pc, workspace, result, thread>>
  <2>1. SandboxTypes' /\ \A t \in Side \ {s} : SameSide(t)
    BY <1>0, <1>2 DEF SandboxTypes, SameSide, D!Stages
  <2>2. /\ exit'[s][stage] = code /\ container'[s] = "none"
        /\ \A g \in D!Stages \ {stage} : exit'[s][g] = exit[s][g]
    BY <1>0 DEF SandboxTypes
  <2>3. ThreadInv(s)'
    BY <1>0, <1>2 DEF SideInv, ThreadInv, ContainerInv, D!Stages, D!Unfinished, D!Row
  <2>4. ContainerInv(s)'
    BY <1>0, <1>2, <2>2 DEF SideInv, ThreadInv, ContainerInv, D!Stages
  <2>5. DoneInv(s)'
    <3> SUFFICES ASSUME pc[s] = "done" PROVE DoneInv(s)'
      BY <1>2 DEF DoneInv
    <3>1. D!WorkspaceGone(s)' /\ workspace[s] # "late"
      BY <1>0, <1>2, GoneMeans DEF SideInv, DoneInv, D!Stages
    <3>2. D!ContainerGone(s)'
      BY <2>2 DEF D!ContainerGone
    <3>3. D!ResultIsReal(s)'
      BY <1>0, <1>2, <2>2 DEF SideInv, DoneInv, D!ResultIsReal, D!Stages
    <3> QED
      BY <1>0, <1>2, <3>1, <3>2, <3>3 DEF SideInv, DoneInv
  <2> QED
    BY <1>2, <2>1, <2>3, <2>4, <2>5, OneSide DEF SideInv
<1> QED
  BY <1>1, <1>2 DEF D!ContainerExits, D!Abandoned

LEMMA StepRefused == ASSUME SandboxInv, NEW s \in Side, D!Refused(s) PROVE SandboxInv'
<1> DEFINE stage == thread[s]
<1>0. /\ stage \in D!Stages /\ exit[s][stage] = "none"
      /\ exit' = [exit EXCEPT ![s][stage] = "refused"] /\ UNCHANGED <<given, kept>>
      /\ \/ D!TakeExit(s, stage, FALSE)
         \/ pc[s] = stage /\ D!End(s, D!Failed) /\ thread' = [thread EXCEPT ![s] = "none"]
  BY DEF D!Refused
<1>1. container' = [container EXCEPT ![s] = "none"]
  <2>1. container[s] = "none"
    BY <1>0 DEF SandboxInv, SideInv, ContainerInv
  <2>2. container' = container
    BY DEF D!Refused
  <2> QED
    BY <2>1, <2>2 DEF SandboxInv, SandboxTypes
<1>2. thread[s] = stage
  OBVIOUS
<1> HIDE DEF stage
<1> QED
  BY <1>0, <1>1, <1>2, CommandEnds

LEMMA StepTimeout == ASSUME SandboxInv, NEW s \in Side, D!StageTimeout(s) PROVE SandboxInv'
<1> USE DEF SandboxInv
<1> DEFINE stage == thread[s]
           code == IF exit[s][stage] = "none" THEN "never" ELSE exit[s][stage]
<1>0. /\ stage \in D!Stages /\ UNCHANGED <<workspace, container, result, given, kept>>
      /\ exit' = [exit EXCEPT ![s][stage] = code]
      /\ \/ /\ pc[s] = stage /\ pc' = [pc EXCEPT ![s] = "remove"]
            /\ thread' = [thread EXCEPT ![s] = "rm"]
         \/ pc[s] # stage /\ pc' = pc /\ thread' = [thread EXCEPT ![s] = "none"]
  BY DEF D!StageTimeout
<1>1. /\ exit'[s][stage] = code
      /\ \A g \in D!Stages \ {stage} : exit'[s][g] = exit[s][g]
  BY <1>0 DEF SandboxTypes
<1>2. SandboxTypes' /\ \A t \in Side \ {s} : SameSide(t)
  <2>1. code \in {"none", "running", "zero", "nonzero", "refused", "never"}
    BY <1>0 DEF SandboxTypes
  <2> HIDE DEF stage, code
  <2>2. /\ exit' \in [Side -> [D!Stages -> {"none", "running", "zero", "nonzero", "refused", "never"}]]
        /\ \A t \in Side \ {s} : exit'[t] = exit[t]
    BY <1>0, <2>1 DEF SandboxTypes
  <2>3. /\ pc' \in [Side -> SandboxPlaces]
        /\ thread' \in [Side -> {"none", "extract", "build", "test", "rm"}]
        /\ \A t \in Side \ {s} : pc'[t] = pc[t] /\ thread'[t] = thread[t]
    <3>1. CASE pc' = [pc EXCEPT ![s] = "remove"] /\ thread' = [thread EXCEPT ![s] = "rm"]
      BY <3>1 DEF SandboxTypes, SandboxPlaces
    <3>2. CASE pc' = pc /\ thread' = [thread EXCEPT ![s] = "none"]
      BY <3>2 DEF SandboxTypes
    <3> QED
      BY <1>0, <3>1, <3>2
  <2> QED
    BY <1>0, <2>2, <2>3 DEF SandboxTypes, SameSide
<1>3. \/ pc[s] = stage /\ pc'[s] = "remove" /\ thread'[s] = "rm"
      \/ pc[s] = "done" /\ pc'[s] = "done" /\ thread'[s] = "none"
  BY <1>0 DEF SandboxTypes, SandboxPlaces, SideInv, ThreadInv, D!Stages
<1>4. ThreadInv(s)'
  BY <1>0, <1>3 DEF SideInv, ThreadInv, D!Stages, D!Unfinished, D!Row
<1>5. ContainerInv(s)'
  BY <1>0, <1>1, <1>3 DEF SideInv, ContainerInv, D!Stages
<1>6. DoneInv(s)'
  <2> SUFFICES ASSUME pc[s] = "done", pc'[s] = "done", thread'[s] = "none" PROVE DoneInv(s)'
    BY <1>3 DEF DoneInv
  <2>1. given[s] \in {"overall", "cancel"} /\ workspace[s] # "late"
    BY <1>0 DEF SideInv, DoneInv, D!Stages
  <2>2. D!WorkspaceGone(s)'
    BY <1>0, <2>1, GoneMeans DEF SideInv, DoneInv
  <2>3. D!ContainerGone(s)'
    BY <1>0, <2>1 DEF D!ContainerGone
  <2>4. D!ResultIsReal(s)'
    BY <1>0, <1>1 DEF SideInv, DoneInv, D!ResultIsReal, D!Stages
  <2> QED
    BY <1>0, <2>1, <2>2, <2>3, <2>4 DEF DoneInv
<1>7. pc'[s] \in {pc[s], "done"} \/ (pc[s] \notin {"gone", "done"} /\ pc'[s] # "gone")
  BY <1>0, <1>3 DEF D!Stages
<1>8. SideInv(s)'
  BY <1>4, <1>5, <1>6 DEF SideInv
<1> QED
  BY <1>2, <1>7, <1>8, OneSide

LEMMA StepRemoval ==
  ASSUME SandboxInv, NEW s \in Side, D!Removed(s) \/ D!RemoveFails(s) PROVE SandboxInv'
<1> USE DEF SandboxInv
<1>0. /\ thread[s] = "rm" /\ thread' = [thread EXCEPT ![s] = "none"] /\ UNCHANGED <<exit, given>>
      /\ container' \in {container, [container EXCEPT ![s] = "none"]}
      /\ kept' \in {kept, kept \cup {s}}
      /\ container'[s] # "none" => s \in kept'
  BY DEF D!Removed, D!RemoveFails, SandboxTypes
<1>1. CASE pc[s] = "remove" /\ (D!TimedOut(s) \/ D!End(s, D!Failed))
  <2>1. /\ EndTypes(s)
        /\ \/ EndsAs(s, "TIMEOUT", "TIMEOUT", "NOT_RUN")
           \/ exit[s]["test"] # "none" /\ EndsAs(s, "TIMEOUT", "PASSED", "TIMEOUT")
    <3>1. CASE exit[s]["test"] # "none" /\ D!TimedOut(s)
      <4>1. D!Normalized(s, D!Row("TIMEOUT", "PASSED", "TIMEOUT", {}))
        BY <3>1 DEF D!TimedOut
      <4> QED
        BY <3>1, <4>1, NormalizedOf
    <3>2. CASE exit[s]["test"] = "none" /\ D!TimedOut(s)
      <4>1. Columns(D!Row("TIMEOUT", "TIMEOUT", "NOT_RUN", {}), "TIMEOUT", "TIMEOUT", "NOT_RUN")
        BY DEF Columns, D!Row
      <4>2. D!Return(s, D!Row("TIMEOUT", "TIMEOUT", "NOT_RUN", {}))
        BY <3>2 DEF D!TimedOut
      <4> QED
        BY <4>1, <4>2, ReturnOf
    <3>3. CASE D!End(s, D!Failed)
      BY <3>3, EndOf
    <3> QED
      BY <1>1, <3>1, <3>2, <3>3
  <2>2. pc'[s] = "done"
    BY <2>1 DEF EndsAs
  <2>3. SandboxTypes' /\ (\A t \in Side \ {s} : SameSide(t)) /\ thread'[s] = "none"
    <3>1. /\ container' \in [Side -> {"none", "build", "test"}]
          /\ thread' \in [Side -> {"none", "extract", "build", "test", "rm"}]
          /\ \A t \in Side \ {s} : container'[t] = container[t] /\ thread'[t] = thread[t]
          /\ thread'[s] = "none"
      BY <1>0 DEF SandboxTypes
    <3>2. SandboxTypes'
      BY <1>0, <2>1, <3>1 DEF SandboxTypes, EndTypes
    <3>3. \A t \in Side \ {s} : (t \in kept' <=> t \in kept)
      BY <1>0
    <3> QED
      BY <1>0, <2>1, <3>1, <3>2, <3>3 DEF EndTypes, SameSide
  <2>4. ContainerInv(s)'
    BY <1>0, <2>2, <2>3 DEF SandboxTypes, SideInv, ContainerInv, D!Stages
  <2>5. SideInv(s)'
    <3>1. exit[s]["test"] # "none" => exit'[s]["build"] = "zero"
      BY <1>0 DEF SideInv, ContainerInv
    <3>2. CASE EndsAs(s, "TIMEOUT", "TIMEOUT", "NOT_RUN")
      BY <1>0, <2>3, <2>4, <3>2, EndedSide
    <3>3. CASE exit[s]["test"] # "none" /\ EndsAs(s, "TIMEOUT", "PASSED", "TIMEOUT")
      BY <1>0, <2>3, <2>4, <3>1, <3>3, EndedSide
    <3> QED
      BY <2>1, <3>2, <3>3
  <2> QED
    BY <2>2, <2>3, <2>5, OneSide
<1>2. CASE pc[s] # "remove" /\ UNCHANGED <<pc, workspace, result>>
  <2>1. pc[s] = "done" /\ given[s] \in {"overall", "cancel"} /\ workspace[s] # "late"
    BY <1>0, <1>2 DEF SandboxTypes, SandboxPlaces, SideInv, ThreadInv, DoneInv
  <2>2. SandboxTypes' /\ (\A t \in Side \ {s} : SameSide(t)) /\ thread'[s] = "none"
    BY <1>0, <1>2 DEF SandboxTypes, SameSide
  <2>3. ThreadInv(s)' /\ ContainerInv(s)'
    BY <1>0, <1>2, <2>1, <2>2 DEF SandboxTypes, SideInv, ThreadInv, ContainerInv, D!Stages
  <2>4. D!WorkspaceGone(s)'
    BY <1>0, <1>2, <2>1, GoneMeans DEF SideInv, DoneInv
  <2>5. D!ContainerGone(s)' /\ D!ResultIsReal(s)'
    BY <1>0, <1>2, <2>1, <2>2 DEF SideInv, DoneInv, D!ContainerGone, D!ResultIsReal
  <2>6. SideInv(s)'
    BY <1>2, <2>1, <2>2, <2>3, <2>4, <2>5 DEF SideInv, DoneInv
  <2> QED
    BY <1>2, <2>2, <2>6, OneSide
<1> QED
  BY <1>1, <1>2 DEF D!Removed, D!RemoveFails, D!Abandoned

\* Both coroutines are given up, whatever they await.
LEMMA StepCancel == ASSUME SandboxInv, D!Cancel PROVE SandboxInv'
<1> USE DEF SandboxInv
<1>1. PICK stuck \in SUBSET {s \in Side : D!Awaiting(s) /\ workspace[s] # "none"} :
        /\ workspace' = [s \in Side |-> IF s \in stuck THEN "stuck"
                                       ELSE IF D!Awaiting(s) THEN "none" ELSE workspace[s]]
        /\ result' = [s \in Side |-> IF s \in stuck THEN D!Failed ELSE result[s]]
  BY DEF D!Cancel
<1>2. /\ given' = [s \in Side |-> IF D!Awaiting(s) THEN "cancel" ELSE given[s]]
      /\ pc' = [s \in Side |-> "done"]
      /\ UNCHANGED <<thread, container, exit, kept>>
  BY DEF D!Cancel
<1>3. SandboxTypes'
  <2>1. workspace' \in [Side -> {"none", "empty", "ready", "stuck", "late"}] /\ DOMAIN result' = Side
    BY <1>1 DEF SandboxTypes
  <2> QED
    BY <1>2, <2>1 DEF SandboxTypes, SandboxPlaces
<1>4. \A s \in Side : pc[s] # "gone"
  BY DEF D!Cancel, D!Awaiting
<1>5. ASSUME NEW s \in Side PROVE SideInv(s)'
  <2>1. pc'[s] = "done" /\ ThreadInv(s)'
    BY <1>2 DEF ThreadInv
  <2>2. ContainerInv(s)'
    BY <1>2, <2>1 DEF SideInv, ContainerInv, D!Stages
  <2>3. CASE D!Awaiting(s)
    <3>1. /\ given'[s] = "cancel" /\ result[s] = D!Unfinished
          /\ \/ workspace'[s] = "none" /\ result'[s] = D!Unfinished
             \/ workspace'[s] = "stuck" /\ result'[s] = D!Failed
      BY <1>1, <1>2, <2>3 DEF SideInv, ThreadInv, D!Awaiting
    <3>2. D!WorkspaceGone(s)' /\ D!ContainerGone(s)' /\ D!ResultIsReal(s)'
      BY <3>1, GoneMeans, RowFields DEF D!ContainerGone, D!ResultIsReal
    <3> QED
      BY <2>1, <2>2, <3>1, <3>2 DEF SideInv, DoneInv
  <2>4. CASE ~D!Awaiting(s) /\ pc[s] = "done"
    <3>1. given'[s] = given[s] /\ workspace'[s] = workspace[s] /\ result'[s] = result[s]
      BY <1>1, <1>2, <2>4
    <3>2. SameSide(s)
      BY <1>2, <2>4, <3>1 DEF SameSide
    <3> QED
      BY <3>2, SideKept
  <2>5. CASE pc[s] = "start"
    <3>1. /\ workspace'[s] = "none" /\ result'[s] = D!Unfinished /\ thread'[s] = "none"
          /\ container'[s] = "none"
      BY <1>1, <1>2, <2>5 DEF SideInv, ThreadInv, D!Awaiting
    <3>2. D!WorkspaceGone(s)' /\ D!ContainerGone(s)' /\ D!ResultIsReal(s)'
      BY <3>1, GoneMeans, RowFields DEF D!ContainerGone, D!ResultIsReal
    <3> QED
      BY <2>1, <2>2, <3>1, <3>2 DEF SideInv, DoneInv
  <2> QED
    BY <1>4, <2>3, <2>4, <2>5 DEF D!Awaiting, SandboxTypes, SandboxPlaces
<1>6. \A s \in Side : pc'[s] = "done"
  BY <1>2
<1> QED
  BY <1>3, <1>5, <1>6

LEMMA StepCrash == ASSUME SandboxInv, D!Crash PROVE SandboxInv'
<1> USE DEF SandboxInv
<1>1. /\ pc' = [s \in Side |-> IF pc[s] = "done" THEN "done" ELSE "gone"]
      /\ thread' = [s \in Side |-> "none"]
      /\ UNCHANGED <<workspace, container, exit, result, given, kept>>
  BY DEF D!Crash
<1>2. SandboxTypes' /\ \A s \in Side : pc'[s] \in {"gone", "done"}
  BY <1>1 DEF SandboxTypes, SandboxPlaces
<1>3. ASSUME NEW s \in Side PROVE SideInv(s)'
  <2>1. thread'[s] = "none" /\ pc'[s] \in {"gone", "done"} /\ (pc'[s] = "done" <=> pc[s] = "done")
    BY <1>1
  <2>2. ThreadInv(s)' /\ ContainerInv(s)'
    BY <1>1, <2>1 DEF SideInv, ThreadInv, ContainerInv, D!Stages, D!Unfinished, D!Row
  <2>3. DoneInv(s)'
    <3> SUFFICES ASSUME pc[s] = "done" PROVE DoneInv(s)'
      BY <2>1 DEF DoneInv
    <3>1. D!WorkspaceGone(s)' /\ D!ContainerGone(s)' /\ D!ResultIsReal(s)'
      BY <1>1, <2>1, GoneMeans DEF SideInv, DoneInv, D!ContainerGone, D!ResultIsReal
    <3> QED
      BY <1>1, <2>1, <3>1 DEF SideInv, DoneInv
  <2> QED
    BY <2>2, <2>3 DEF SideInv
<1> QED
  BY <1>2, <1>3

LEMMA SandboxStep == ASSUME SandboxInv, [D!Next]_(D!vars) PROVE SandboxInv'
<1>1. CASE UNCHANGED D!vars
  <2>1. \A s \in Side : SameSide(s)
    BY <1>1 DEF D!vars, SameSide
  <2>2. \A s \in Side : SideInv(s)'
    BY <2>1, SideKept DEF SandboxInv
  <2> QED
    BY <1>1, <2>2 DEF D!vars, SandboxInv, SandboxTypes, SandboxPlaces, D!Stages
<1>2. CASE D!Next
  BY <1>2, StepStart, StepExtract, StepGiveUp, StepContainer, StepRefused, StepTimeout, StepExit,
     StepRemoval, StepCancel, StepCrash DEF D!Next
<1> QED
  BY <1>1, <1>2

-----------------------------------------------------------------------------
\* A side of a validation that came to its end has left no workspace and no
\* container but for the causes SandboxIsClean names, and its row tells what
\* its containers did: for any set of sides and reports, whatever times out,
\* is cancelled, refused or crashes in between (DockerValidationRunner.run).
THEOREM SandboxLeft == AllSpec => []SandboxIsClean
<1>1. AllInit => SandboxInv
  BY SandboxInit DEF AllInit
<1>2. [AllNext]_all => [D!Next]_(D!vars)
  BY DEF AllNext, all, sandbox, D!vars
<1>3. SandboxInv /\ [AllNext]_all => SandboxInv'
  BY <1>2, SandboxStep
<1>4. SandboxInv => SandboxIsClean
  BY DEF SandboxInv, SideInv, DoneInv, SandboxIsClean, D!SandboxIsClean
<1> QED
  BY <1>1, <1>3, <1>4, PTL DEF AllSpec
=============================================================================
