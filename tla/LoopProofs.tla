----------------------------- MODULE LoopProofs -----------------------------
(***************************************************************************)
(* Proofs about BoundedLoop for any contracts, verifiers, edits and        *)
(* decisions: what passes was checked, reviewed and approved in the        *)
(* workspace as it is.  The gate never compares what a verifier or a       *)
(* person looked at with the workspace, for the ledger does not keep it;   *)
(* it follows from the order of the contract's events.                     *)
(***************************************************************************)
EXTENDS BoundedLoop, FunctionTheorems, SequenceTheorems, FiniteSetTheorems,
        WellFoundedInduction, TLAPS

\* Rows that tell the workspace they are about, and rows of somebody who
\* looked at it.
IsResult(e) == e.type \in {"check", "manual", "evidence"}
IsLook(e) == e.type \in {"verdict", "human"}

\* Results are of the past, and whoever looks later sees no older workspace.
TimeInv ==
    /\ ws \in Nat
    /\ \E S : log \in Seq(S)
    /\ \A i \in 1..Len(log) : IsResult(log[i]) => log[i].ws \in 0..ws
    /\ \A i \in 1..Len(log) : IsLook(log[i]) => log[i].saw \in 0..ws
    /\ \A i, j \in 1..Len(log) :
         i < j /\ IsResult(log[i]) /\ IsLook(log[j]) => log[i].ws <= log[j].saw

\* Checks and manual verdicts are of the contract's requirements, a manual
\* verdict cites an earlier result, and every command that is not work of its
\* own is followed by the check that it was run for.
RowInv ==
    \A i \in 1..Len(log) :
        /\ log[i].type = "check" => log[i].req \in Executed(run.contract)
        /\ log[i].type = "manual" => /\ log[i].req \in run.contract.manual
                                     /\ log[i].cites \in 0..(i - 1)
                                     /\ log[i].cites # 0 => IsResult(log[log[i].cites])
        /\ log[i].type = "tool" /\ ~log[i].mutates =>
               \E j \in 1..Len(log) : i < j /\ log[j].type = "check"

Stage == {"begin", "plan", "poll", "work", "check", "review", "count", "complete", "ended"}

RunInv ==
    /\ run \in [at : Stage, contract : Contract \cup {NoContract}, iterations : Nat,
                noProgress : Nat, failed : Nat, k : Nat, before : Nat,
                result : {"none", "PASS", "STOP", "ESCALATE", "raised"}]
    /\ run.at # "ended" => run.result = "none"
    /\ run.at = "begin" => log = <<>>
    /\ run.at = "check" => run.k # 0

LoopInv == TimeInv /\ RowInv /\ RunInv

-----------------------------------------------------------------------------
(* Places in the log.                                                      *)

\* The last of some places: none, or one of them that none comes after.
LEMMA LastPlace ==
    ASSUME NEW n \in Nat, NEW S \in SUBSET (0..n)
    PROVE  /\ LastIn(S) \in S \cup {0} /\ LastIn(S) \in 0..n
           /\ \A i \in S : i <= LastIn(S)
<1> DEFINE T == S \cup {0}
           U == {n - i : i \in T}
           R == OpToRel(<, Nat)
<1>1. U \subseteq Nat /\ U # {} /\ T \subseteq 0..n
  OBVIOUS
<1>2. R = {ss \in Nat \X Nat : ss[1] < ss[2]}
  BY DEF OpToRel
<1>3. PICK m \in U : \A y \in U : ~(<<y, m>> \in R)
  <2> HIDE DEF U, R
  <2>1. IsWellFoundedOn(R, Nat)
    BY NatLessThanWellFounded DEF R
  <2>2. QED
    BY <1>1, <2>1, WFMin
<1>4. \A y \in U : m <= y
  <2> HIDE DEF U, R
  <2>1. m \in Nat /\ U \subseteq Nat
    BY <1>1, <1>3
  <2>2. ASSUME NEW y \in U, y < m
        PROVE  FALSE
    <3>1. <<y, m>> \in R
      BY <1>2, <2>1, <2>2
    <3>2. QED
      BY <1>3, <3>1
  <2>3. QED
    BY <2>1, <2>2
<1>5. PICK x \in T : m = n - x
  OBVIOUS
<1>6. \A y \in T : x >= y
  BY <1>1, <1>4, <1>5
<1>7. Max(T) \in T /\ \A y \in T : Max(T) >= y
  BY <1>6 DEF Max
<1>8. QED
  BY <1>1, <1>7 DEF LastIn

\* The latest result of everything that a contract asks for, and the place
\* that the review has to come after, which is behind all of them.
LEMMA LatestPlaces ==
    ASSUME TimeInv, NEW c
    PROVE  /\ Len(log) \in Nat /\ DOMAIN log = 1..Len(log)
           /\ \A type : LastIn(Places(log, type)) \in Places(log, type) \cup {0}
           /\ \A r : /\ LastCheck(log, r) \in 0..Len(log) /\ LastManual(log, r) \in 0..Len(log)
                     /\ LastCheck(log, r) # 0 => /\ log[LastCheck(log, r)].type = "check"
                                                 /\ log[LastCheck(log, r)].req = r
                     /\ LastManual(log, r) # 0 => log[LastManual(log, r)].type = "manual"
                     /\ \A i \in 1..Len(log) :
                           /\ log[i].type = "check" /\ log[i].req = r => i <= LastCheck(log, r)
                           /\ log[i].type = "manual" /\ log[i].req = r => i <= LastManual(log, r)
           /\ \A k : /\ LastEvidence(log, k) \in 0..Len(log)
                     /\ LastEvidence(log, k) # 0 => log[LastEvidence(log, k)].type = "evidence"
           /\ LastMutation(log) \in 0..Len(log)
           /\ \A i \in 1..Len(log) : Mutates(log[i]) => i <= LastMutation(log)
           /\ ReviewAfter(c, log) \in 0..Len(log)
           /\ LastMutation(log) <= ReviewAfter(c, log)
           /\ \A r \in Executed(c) : LastCheck(log, r) <= ReviewAfter(c, log)
           /\ \A r \in c.manual : LastManual(log, r) <= ReviewAfter(c, log)
           /\ \A k \in c.kinds : LastEvidence(log, k) <= ReviewAfter(c, log)
<1>1. Len(log) \in Nat /\ DOMAIN log = 1..Len(log)
  BY DEF TimeInv
<1>2. ASSUME NEW S \in SUBSET DOMAIN log
      PROVE  /\ LastIn(S) \in S \cup {0} /\ LastIn(S) \in 0..Len(log)
             /\ \A i \in S : i <= LastIn(S)
  <2>1. S \in SUBSET (0..Len(log))
    BY <1>1
  <2>2. QED
    BY <1>1, <2>1, LastPlace
<1>3. \A type : LastIn(Places(log, type)) \in Places(log, type) \cup {0}
  BY <1>2 DEF Places
<1>4. ASSUME NEW r
      PROVE  /\ LastCheck(log, r) \in 0..Len(log)
             /\ LastCheck(log, r) # 0 => /\ log[LastCheck(log, r)].type = "check"
                                         /\ log[LastCheck(log, r)].req = r
             /\ \A i \in 1..Len(log) :
                   log[i].type = "check" /\ log[i].req = r => i <= LastCheck(log, r)
  <2> DEFINE S == {i \in Places(log, "check") : log[i].req = r}
  <2>1. S \in SUBSET DOMAIN log
    BY DEF Places
  <2>2. LastCheck(log, r) = LastIn(S)
    BY DEF LastCheck
  <2>3. /\ LastIn(S) \in S \cup {0} /\ LastIn(S) \in 0..Len(log)
        /\ \A i \in S : i <= LastIn(S)
    BY <1>2, <2>1
  <2>4. QED
    BY <1>1, <2>2, <2>3 DEF Places
<1>5. ASSUME NEW r
      PROVE  /\ LastManual(log, r) \in 0..Len(log)
             /\ LastManual(log, r) # 0 => log[LastManual(log, r)].type = "manual"
             /\ \A i \in 1..Len(log) :
                   log[i].type = "manual" /\ log[i].req = r => i <= LastManual(log, r)
  <2> DEFINE S == {i \in Places(log, "manual") : log[i].req = r}
  <2>1. S \in SUBSET DOMAIN log
    BY DEF Places
  <2>2. LastManual(log, r) = LastIn(S)
    BY DEF LastManual
  <2>3. /\ LastIn(S) \in S \cup {0} /\ LastIn(S) \in 0..Len(log)
        /\ \A i \in S : i <= LastIn(S)
    BY <1>2, <2>1
  <2>4. QED
    BY <1>1, <2>2, <2>3 DEF Places
<1>6. ASSUME NEW k
      PROVE  /\ LastEvidence(log, k) \in 0..Len(log)
             /\ LastEvidence(log, k) # 0 => log[LastEvidence(log, k)].type = "evidence"
  <2> DEFINE S == {i \in Places(log, "evidence") : log[i].kind = k}
  <2>1. S \in SUBSET DOMAIN log
    BY DEF Places
  <2>2. LastEvidence(log, k) = LastIn(S)
    BY DEF LastEvidence
  <2>3. LastIn(S) \in S \cup {0} /\ LastIn(S) \in 0..Len(log)
    BY <1>2, <2>1
  <2>4. QED
    BY <2>2, <2>3 DEF Places
<1>7. /\ LastMutation(log) \in 0..Len(log)
      /\ \A i \in 1..Len(log) : Mutates(log[i]) => i <= LastMutation(log)
  <2> DEFINE S == {i \in DOMAIN log : Mutates(log[i])}
  <2>1. LastIn(S) \in 0..Len(log) /\ \A i \in S : i <= LastIn(S)
    BY <1>2
  <2>2. QED
    BY <1>1, <2>1 DEF LastMutation
<1>8. /\ ReviewAfter(c, log) \in 0..Len(log)
      /\ LastMutation(log) <= ReviewAfter(c, log)
      /\ \A r \in Executed(c) : LastCheck(log, r) <= ReviewAfter(c, log)
      /\ \A r \in c.manual : LastManual(log, r) <= ReviewAfter(c, log)
      /\ \A k \in c.kinds : LastEvidence(log, k) <= ReviewAfter(c, log)
  <2> DEFINE S == {LastMutation(log)}
                  \cup {LastCheck(log, r) : r \in Executed(c)}
                  \cup {LastManual(log, r) : r \in c.manual}
                  \cup {LastEvidence(log, k) : k \in c.kinds}
  <2>1. S \in SUBSET (0..Len(log))
    BY <1>4, <1>5, <1>6, <1>7
  <2>2. LastIn(S) \in 0..Len(log) /\ \A i \in S : i <= LastIn(S)
    BY <1>1, <2>1, LastPlace
  <2>3. ReviewAfter(c, log) = LastIn(S)
    BY DEF ReviewAfter
  <2>4. QED
    BY <2>2, <2>3
<1>9. QED
  BY <1>1, <1>3, <1>4, <1>5, <1>6, <1>7, <1>8

-----------------------------------------------------------------------------
(* What the gate knows when every requirement has a result that counts.    *)

\* All that has to be cited are results of the workspace as it is, from before
\* the place that the review has to come after.
LEMMA HashesAreCurrent ==
    ASSUME LoopInv, NEW c, ~RequirementIssues(c, log, ws),
           c.manual \subseteq run.contract.manual,
           NEW h \in RequirementHashes(c, log, ws)
    PROVE  /\ h \in 1..Len(log) /\ IsResult(log[h]) /\ log[h].ws = ws
           /\ h <= ReviewAfter(c, log)
<1> USE LatestPlaces DEF LoopInv
<1>1. CASE h \in {LastCheck(log, r) : r \in {r \in Executed(c) : CheckValid(log, ws, r)}}
  <2>1. PICK r \in Executed(c) : h = LastCheck(log, r) /\ CheckValid(log, ws, r)
    BY <1>1
  <2>2. h # 0 /\ log[h].ws = ws
    BY <2>1 DEF CheckValid
  <2>3. QED
    BY <2>1, <2>2 DEF IsResult
<1>2. CASE h \in UNION {ManualEvidence(log, r) : r \in c.manual}
  <2>1. PICK r \in c.manual : h \in ManualEvidence(log, r)
    BY <1>2
  <2> DEFINE i == LastManual(log, r)
  <2>2. ManualValid(log, ws, r)
    BY DEF RequirementIssues
  <2>3. /\ i # 0 /\ h = log[i].cites /\ h # 0
        /\ log[h].ws = log[i].ws /\ log[i].ws = ws
    BY <2>1, <2>2 DEF ManualEvidence, ManualValid
  <2>4. i \in 1..Len(log) /\ log[i].type = "manual" /\ i <= ReviewAfter(c, log)
    BY <2>3
  <2>5. h \in 0..(i - 1) /\ IsResult(log[h])
    BY <2>3, <2>4 DEF RowInv
  <2>6. QED
    BY <2>3, <2>4, <2>5
<1>3. CASE h \in {LastEvidence(log, k) : k \in {k \in c.kinds : GenericValid(log, ws, k)}}
  <2>1. PICK k \in c.kinds : h = LastEvidence(log, k) /\ GenericValid(log, ws, k)
    BY <1>3
  <2>2. h # 0 /\ log[h].ws = ws
    BY <2>1 DEF GenericValid
  <2>3. QED
    BY <2>1, <2>2 DEF IsResult
<1>4. QED
  BY <1>1, <1>2, <1>3 DEF RequirementHashes

\* Who cites all of that after this place looked at the workspace as it is.
LEMMA CitingIsSeeing ==
    ASSUME LoopInv, NEW c, ~RequirementIssues(c, log, ws),
           c.manual \subseteq run.contract.manual,
           NEW i \in 1..Len(log), IsLook(log[i]), i > ReviewAfter(c, log),
           log[i].refs # {}, log[i].refs = RequirementHashes(c, log, ws)
    PROVE  log[i].saw = ws
<1>1. PICK h \in RequirementHashes(c, log, ws) : TRUE
  OBVIOUS
<1>2. h \in 1..Len(log) /\ IsResult(log[h]) /\ log[h].ws = ws /\ h <= ReviewAfter(c, log)
  BY HashesAreCurrent
<1>3. ReviewAfter(c, log) \in Nat
  BY LatestPlaces DEF LoopInv
<1>4. h < i
  BY <1>2, <1>3
<1>5. QED
  BY <1>2, <1>4 DEF LoopInv, TimeInv

-----------------------------------------------------------------------------
(* What the steps do to the log.                                           *)

LEMMA ExtendKeeps ==
    ASSUME TimeInv, RowInv, NEW S, NEW new \in Seq(S), log' = log \o new,
           ws' \in Nat, ws <= ws', run'.contract = run.contract,
           (\A i \in 1..Len(new) : ~IsLook(new[i])) \/ (\A i \in 1..Len(new) : ~IsResult(new[i])),
           \A i \in 1..Len(new) :
              /\ IsResult(new[i]) => new[i].ws \in 0..ws'
              /\ IsLook(new[i]) => new[i].saw = ws
              /\ new[i].type = "check" => new[i].req \in Executed(run.contract)
              /\ new[i].type = "manual" => /\ new[i].req \in run.contract.manual
                                           /\ new[i].cites \in 0..Len(log)
                                           /\ new[i].cites # 0 => IsResult(log[new[i].cites])
              /\ new[i].type = "tool" /\ ~new[i].mutates =>
                     \E j \in 1..Len(new) : i < j /\ new[j].type = "check"
    PROVE  TimeInv' /\ RowInv'
<1> DEFINE n == Len(log)  m == Len(new)
<1>1. n \in Nat /\ m \in Nat
  BY DEF TimeInv
<1>2. /\ \E T : log' \in Seq(T)
      /\ Len(log') = n + m
      /\ \A i \in 1..n : log'[i] = log[i]
      /\ \A i \in 1..m : log'[n + i] = new[i]
      /\ \A i \in 1..(n + m) : i \in 1..n \/ \E k \in 1..m : i = n + k
  <2>1. PICK T : log \in Seq(T)
    BY DEF TimeInv
  <2>2. log \in Seq(T \cup S) /\ new \in Seq(T \cup S)
    BY <2>1
  <2>3. /\ log' \in Seq(T \cup S) /\ Len(log') = n + m
        /\ \A i \in 1..(n + m) : log'[i] = IF i <= n THEN log[i] ELSE new[i - n]
    BY <2>2, ConcatProperties
  <2>4. \A i \in 1..(n + m) : i \in 1..n \/ \E k \in 1..m : i = n + k
    <3> SUFFICES ASSUME NEW i \in 1..(n + m), i \notin 1..n
                 PROVE  \E k \in 1..m : i = n + k
      OBVIOUS
    <3>1. i - n \in 1..m /\ i = n + (i - n)
      BY <1>1
    <3>2. QED
      BY <3>1
  <2>5. QED
    BY <1>1, <2>3, <2>4
<1> HIDE DEF n, m
<1>3. \A i \in 1..n : IsResult(log[i]) => log[i].ws \in 0..ws'
  BY DEF TimeInv, n
<1>4. \A i \in 1..n : IsLook(log[i]) => log[i].saw \in 0..ws'
  BY DEF TimeInv, n
<1>5. \A i \in 1..Len(log') : IsResult(log[i])' => log[i]'.ws \in 0..ws'
  BY <1>1, <1>2, <1>3 DEF IsResult, m
<1>6. \A i \in 1..Len(log') : IsLook(log[i])' => log[i]'.saw \in 0..ws'
  BY <1>1, <1>2, <1>4 DEF IsLook, m, TimeInv
<1>7. ASSUME NEW i \in 1..Len(log'), NEW j \in 1..Len(log'), i < j,
             IsResult(log'[i]), IsLook(log'[j])
      PROVE  log'[i].ws <= log'[j].saw
  <2>1. CASE j \in 1..n
    <3>1. i \in 1..n
      BY <1>1, <1>2, <1>7, <2>1
    <3>2. QED
      BY <1>2, <1>7, <2>1, <3>1 DEF TimeInv, n
  <2>2. CASE \E k \in 1..m : j = n + k
    <3>1. PICK k \in 1..m : j = n + k
      BY <2>2
    <3>2. log'[j] = new[k] /\ IsLook(new[k]) /\ new[k].saw = ws
      BY <1>2, <1>7, <3>1 DEF m
    <3>3. \A l \in 1..m : ~IsResult(new[l])
      BY <3>2 DEF m
    <3>4. i \in 1..n
      <4>1. i \in 1..n \/ \E l \in 1..m : i = n + l
        BY <1>2
      <4>2. ASSUME NEW l \in 1..m, i = n + l
            PROVE  FALSE
        <5>1. log'[i] = new[l]
          BY <1>2, <4>2
        <5>2. QED
          BY <1>7, <3>3, <5>1
      <4>3. QED
        BY <4>1, <4>2
    <3>5. QED
      BY <1>2, <1>7, <3>2, <3>4 DEF TimeInv, n
  <2>3. QED
    BY <1>2, <2>1, <2>2
<1>8. TimeInv'
  BY <1>2, <1>5, <1>6, <1>7 DEF TimeInv
<1>9. ASSUME NEW i \in 1..Len(log')
      PROVE  /\ log'[i].type = "check" => log'[i].req \in Executed(run'.contract)
             /\ log'[i].type = "manual" => /\ log'[i].req \in run'.contract.manual
                                           /\ log'[i].cites \in 0..(i - 1)
                                           /\ log'[i].cites # 0 => IsResult(log'[log'[i].cites])
             /\ log'[i].type = "tool" /\ ~log'[i].mutates =>
                    \E j \in 1..Len(log') : i < j /\ log'[j].type = "check"
  <2>1. CASE i \in 1..n
    <3>1. /\ log[i].type = "check" => log[i].req \in Executed(run.contract)
          /\ log[i].type = "manual" => /\ log[i].req \in run.contract.manual
                                       /\ log[i].cites \in 0..(i - 1)
                                       /\ log[i].cites # 0 => IsResult(log[log[i].cites])
          /\ log[i].type = "tool" /\ ~log[i].mutates =>
                 \E j \in 1..n : i < j /\ log[j].type = "check"
      BY <2>1 DEF RowInv, n
    <3>2. log'[i] = log[i]
      BY <1>2, <2>1
    <3>3. log[i].type = "manual" /\ log[i].cites # 0 => log'[log[i].cites] = log[log[i].cites]
      BY <1>1, <1>2, <2>1, <3>1
    <3>4. \A j \in 1..n : j \in 1..Len(log') /\ log'[j] = log[j]
      BY <1>1, <1>2
    <3>5. log'[i].type = "check" => log'[i].req \in Executed(run'.contract)
      BY <3>1, <3>2
    <3>6. log'[i].type = "manual" => /\ log'[i].req \in run'.contract.manual
                                     /\ log'[i].cites \in 0..(i - 1)
                                     /\ log'[i].cites # 0 => IsResult(log'[log'[i].cites])
      BY <3>1, <3>2, <3>3 DEF IsResult
    <3>7. log'[i].type = "tool" /\ ~log'[i].mutates =>
             \E j \in 1..Len(log') : i < j /\ log'[j].type = "check"
      BY <3>1, <3>2, <3>4
    <3>8. QED
      BY <3>5, <3>6, <3>7
  <2>2. CASE \E k \in 1..m : i = n + k
    <3>1. PICK k \in 1..m : i = n + k
      BY <2>2
    <3>2. log'[i] = new[k]
      BY <1>2, <3>1
    <3>3. /\ new[k].type = "check" => new[k].req \in Executed(run.contract)
          /\ new[k].type = "manual" => /\ new[k].req \in run.contract.manual
                                       /\ new[k].cites \in 0..n
                                       /\ new[k].cites # 0 => IsResult(log[new[k].cites])
          /\ new[k].type = "tool" /\ ~new[k].mutates =>
                 \E j \in 1..m : k < j /\ new[j].type = "check"
      BY <3>1 DEF n, m
    <3>4. new[k].type = "manual" =>
             /\ new[k].cites \in 0..(i - 1)
             /\ new[k].cites # 0 => log'[new[k].cites] = log[new[k].cites]
      BY <1>1, <1>2, <3>1, <3>3
    <3>5. \A j \in 1..m : k < j => n + j \in 1..Len(log') /\ i < n + j /\ log'[n + j] = new[j]
      BY <1>1, <1>2, <3>1
    <3>6. log'[i].type = "check" => log'[i].req \in Executed(run'.contract)
      BY <3>2, <3>3
    <3>7. log'[i].type = "manual" => /\ log'[i].req \in run'.contract.manual
                                     /\ log'[i].cites \in 0..(i - 1)
                                     /\ log'[i].cites # 0 => IsResult(log'[log'[i].cites])
      BY <3>2, <3>3, <3>4 DEF IsResult
    <3>8. ASSUME new[k].type = "tool" /\ ~new[k].mutates
          PROVE  \E j \in 1..Len(log') : i < j /\ log'[j].type = "check"
      <4>1. PICK j \in 1..m : k < j /\ new[j].type = "check"
        BY <3>3, <3>8
      <4>2. n + j \in 1..Len(log') /\ i < n + j /\ log'[n + j].type = "check"
        BY <3>5, <4>1
      <4>3. QED
        BY <4>2
    <3>9. QED
      BY <3>2, <3>6, <3>7, <3>8
  <2>3. QED
    BY <1>2, <2>1, <2>2
<1>10. RowInv'
  BY <1>9 DEF RowInv
<1>11. QED
  BY <1>8, <1>10

\* One event.
LEMMA RecordKeeps ==
    ASSUME TimeInv, RowInv, NEW e, log' = Append(log, e), ws' = ws \/ ws' = ws + 1,
           run'.contract = run.contract,
           IsResult(e) => e.ws \in 0..ws',
           IsLook(e) => e.saw = ws,
           e.type = "check" => e.req \in Executed(run.contract),
           e.type = "manual" => /\ e.req \in run.contract.manual
                                /\ e.cites \in 0..Len(log)
                                /\ e.cites # 0 => IsResult(log[e.cites]),
           e.type = "tool" => e.mutates
    PROVE  TimeInv' /\ RowInv'
<1> DEFINE new == <<e>>
<1>1. new \in Seq({e}) /\ Len(new) = 1 /\ \A i \in 1..Len(new) : new[i] = e
  OBVIOUS
<1>2. log' = log \o new
  BY DEF TimeInv
<1>3. ws' \in Nat /\ ws <= ws'
  BY DEF TimeInv
<1>4. ~IsLook(e) \/ ~IsResult(e)
  BY DEF IsLook, IsResult
<1> HIDE DEF new
<1>5. QED
  BY <1>1, <1>2, <1>3, <1>4, ExtendKeeps

\* None, whatever happens to the workspace.
LEMMA SameLogKeeps ==
    ASSUME TimeInv, RowInv, log' = log, ws' = ws \/ ws' = ws + 1, run'.contract = run.contract
    PROVE  TimeInv' /\ RowInv'
<1>1. TimeInv'
  <2>1. ws' \in Nat /\ \A x \in 0..ws : x \in 0..ws'
    BY DEF TimeInv
  <2>2. QED
    BY <2>1 DEF TimeInv, IsResult, IsLook
<1>2. RowInv'
  BY DEF RowInv, IsResult
<1>3. QED
  BY <1>1, <1>2

\* A log that is forgotten.
LEMMA EmptyLogKeeps ==
    ASSUME log' = <<>>, ws' \in Nat
    PROVE  TimeInv' /\ RowInv'
<1>1. log' \in Seq({}) /\ Len(log') = 0
  OBVIOUS
<1>2. QED
  BY <1>1 DEF TimeInv, RowInv

\* What a check leaves: a command, the change of its declared file, its result
\* and perhaps a block, which a result that passed never has.
CheckRows(new) ==
    \E p \in 1..Len(new) :
        /\ new[p].type = "check" /\ new[p].ws = ws'
        /\ new[p].req = run.contract.checks[run.k] /\ new[p].req \in Executed(run.contract)
        /\ \A i \in 1..Len(new) : /\ i < p => new[i].type = "tool"
                                  /\ i > p => /\ new[i].type = "transition"
                                              /\ new[i].state = "blocked"
        /\ p < Len(new) => new[p].status # "pass"
        /\ new[p].status = "pass" =>
              p > 1 /\ IF new[p].own = 0 THEN new[p].tool = Len(log) + p - 1
                       ELSE new[p - 1].mutates

LEMMA CheckRecords ==
    ASSUME LoopInv, NEW outcome, NEW touches, Check(outcome, touches)
    PROVE  \E S : \E new \in Seq(S) : log' = log \o new /\ CheckRows(new)
<1> DEFINE c == run.contract
           r == c.checks[run.k]
           status == IF touches = "undeclared" THEN "fail" ELSE outcome
           tool == IF outcome \in {"pass", "fail"} THEN <<[type |-> "tool", mutates |-> FALSE]>>
                   ELSE <<>>
           change == IF touches = "artifact" THEN <<[type |-> "tool", mutates |-> TRUE]>>
                     ELSE <<>>
           first == Len(log) + 1
           result == [type |-> "check", req |-> r, status |-> status, ws |-> ws',
                      mutates |-> touches = "undeclared",
                      tool |-> IF tool = <<>> THEN 0 ELSE first,
                      own |-> IF change = <<>> THEN 0 ELSE first + Len(tool)]
           ended == status \in {"timeout", "blocked"}
           block == IF (ended \/ touches = "undeclared") /\ ~Blocked(c, log)
                    THEN <<[type |-> "transition", state |-> "blocked"]>> ELSE <<>>
           new == tool \o change \o <<result>> \o block
           S == {[type |-> "tool", mutates |-> FALSE], [type |-> "tool", mutates |-> TRUE],
                 result, [type |-> "transition", state |-> "blocked"]}
<1>1. /\ run.k <= Len(c.checks)
      /\ log' = log \o tool \o change \o <<result>> \o block
      /\ Edited(touches # "nothing")
      /\ run' = IF ended THEN [run EXCEPT !.at = "count"] ELSE [run EXCEPT !.k = @ + 1]
  BY DEF Check
<1>2. ws' = ws \/ ws' = ws + 1
  BY <1>1 DEF Edited, Edit
<1>3. ws' \in Nat /\ ws <= ws'
  BY <1>2 DEF LoopInv, TimeInv
<1>4. /\ tool \in Seq(S) /\ change \in Seq(S) /\ block \in Seq(S) /\ <<result>> \in Seq(S)
      /\ Len(tool) \in 0..1 /\ Len(change) \in 0..1 /\ Len(block) \in 0..1
      /\ Len(<<result>>) = 1
  <2> DEFINE command == [type |-> "tool", mutates |-> FALSE]
             own == [type |-> "tool", mutates |-> TRUE]
             blocked == [type |-> "transition", state |-> "blocked"]
  <2>0. /\ \A x \in S : <<x>> \in Seq(S) /\ Len(<<x>>) \in 0..1
        /\ <<>> \in Seq(S) /\ Len(<<>>) \in 0..1
    <3> HIDE DEF S
    <3>1. QED
      OBVIOUS
  <2>1. tool \in Seq(S) /\ Len(tool) \in 0..1
    <3>1. tool = <<command>> \/ tool = <<>>
      OBVIOUS
    <3>2. command \in S
      OBVIOUS
    <3> HIDE DEF tool, command, S
    <3>3. <<command>> \in Seq(S) /\ Len(<<command>>) \in 0..1
      BY <2>0, <3>2
    <3>4. QED
      BY <2>0, <3>1, <3>3
  <2>2. change \in Seq(S) /\ Len(change) \in 0..1
    <3>1. change = <<own>> \/ change = <<>>
      OBVIOUS
    <3>2. own \in S
      OBVIOUS
    <3> HIDE DEF change, own, S
    <3>3. <<own>> \in Seq(S) /\ Len(<<own>>) \in 0..1
      BY <2>0, <3>2
    <3>4. QED
      BY <2>0, <3>1, <3>3
  <2>3. block \in Seq(S) /\ Len(block) \in 0..1
    <3>1. block = <<blocked>> \/ block = <<>>
      OBVIOUS
    <3>2. blocked \in S
      OBVIOUS
    <3> HIDE DEF block, blocked, S
    <3>3. <<blocked>> \in Seq(S) /\ Len(<<blocked>>) \in 0..1
      BY <2>0, <3>2
    <3>4. QED
      BY <2>0, <3>1, <3>3
  <2>4. <<result>> \in Seq(S) /\ Len(<<result>>) = 1
    <3> HIDE DEF result
    <3>1. QED
      OBVIOUS
  <2>5. QED
    BY <2>1, <2>2, <2>3, <2>4
<1>5. /\ \A i \in 1..Len(tool) : tool[i].type = "tool"
      /\ \A i \in 1..Len(change) : change[i].type = "tool" /\ change[i].mutates
      /\ \A i \in 1..Len(block) : block[i].type = "transition" /\ block[i].state = "blocked"
      /\ <<result>>[1] = result
  OBVIOUS
<1>6. result.type = "check" /\ result.ws = ws' /\ result.req \in Executed(c)
  <2>1. r \in Executed(c)
    <3>1. c \in Contract \cup {NoContract} /\ run.k \in Nat \ {0}
      BY DEF Check, LoopInv, RunInv
    <3>2. c.checks \in Seq(Executed(c))
      <4>1. CASE c \in Contract
        BY <4>1, LoopAssumption
      <4>2. CASE c = NoContract
        <5>1. c.checks = <<>>
          BY <4>2 DEF NoContract
        <5>2. QED
          BY <5>1
      <4>3. QED
        BY <3>1, <4>1, <4>2
    <3>3. run.k \in DOMAIN c.checks
      BY <1>1, <3>1, <3>2
    <3>4. QED
      BY <3>3 DEF Executed, Range
  <2> HIDE DEF c, r, status, tool, change, first
  <2>2. QED
    BY <2>1
<1>6a. result.req = r /\ result.status = status /\ result.tool = (IF tool = <<>> THEN 0 ELSE first)
       /\ result.own = IF change = <<>> THEN 0 ELSE first + Len(tool)
  <2> HIDE DEF c, r, status, tool, change, first
  <2>1. QED
    OBVIOUS
<1>6b. status = "pass" => Len(tool) = 1 /\ tool # <<>> /\ Len(block) = 0
  <2> HIDE DEF result
  <2>1. QED
    OBVIOUS
<1>6c. r = run.contract.checks[run.k] /\ first = Len(log) + 1 /\ Len(log) \in Nat /\ c = run.contract
       /\ (change = <<>> => Len(change) = 0)
  BY DEF LoopInv, TimeInv
<1> HIDE DEF c, r, status, tool, change, first, result, block, S
<1>7. /\ new \in Seq(S)
      /\ Len(new) = Len(tool) + Len(change) + 1 + Len(block)
      /\ \A i \in 1..Len(new) :
           \/ /\ i <= Len(tool) + Len(change) /\ new[i].type = "tool"
              /\ i > Len(tool) => new[i].mutates
           \/ i = Len(tool) + Len(change) + 1 /\ new[i] = result
           \/ /\ i > Len(tool) + Len(change) + 1 /\ new[i].type = "transition"
              /\ new[i].state = "blocked"
  <2>1. /\ tool \o change \in Seq(S)
        /\ Len(tool \o change) = Len(tool) + Len(change)
        /\ \A i \in 1..Len(tool \o change) :
              /\ (tool \o change)[i].type = "tool"
              /\ i > Len(tool) => (tool \o change)[i].mutates
    BY <1>4, <1>5
  <2> DEFINE w == tool \o change
  <2> HIDE DEF w
  <2>2. /\ w \o <<result>> \in Seq(S)
        /\ Len(w \o <<result>>) = Len(w) + 1
        /\ \A i \in 1..(Len(w) + 1) :
              \/ i <= Len(w) /\ (w \o <<result>>)[i] = w[i]
              \/ i = Len(w) + 1 /\ (w \o <<result>>)[i] = result
    BY <1>4, <2>1 DEF w
  <2> DEFINE v == w \o <<result>>
  <2> HIDE DEF v
  <2>3. /\ v \o block \in Seq(S)
        /\ Len(v \o block) = Len(v) + Len(block)
        /\ \A i \in 1..Len(v \o block) :
              \/ i <= Len(v) /\ (v \o block)[i] = v[i]
              \/ /\ i > Len(v) /\ (v \o block)[i].type = "transition"
                 /\ (v \o block)[i].state = "blocked"
    BY <1>4, <1>5, <2>2 DEF v
  <2>4. new = v \o block
    BY DEF new, v, w
  <2>5. Len(w) = Len(tool) + Len(change) /\ Len(w) \in Nat /\ Len(v) = Len(w) + 1
        /\ Len(v) \in Nat
    BY <1>4, <2>1, <2>2 DEF w, v
  <2> HIDE DEF new
  <2>6. ASSUME NEW i \in 1..Len(new)
        PROVE  \/ i <= Len(w) /\ new[i].type = "tool" /\ (i > Len(tool) => new[i].mutates)
               \/ i = Len(w) + 1 /\ new[i] = result
               \/ /\ i > Len(w) + 1 /\ new[i].type = "transition"
                  /\ new[i].state = "blocked"
    BY <2>1, <2>2, <2>3, <2>4, <2>5 DEF w, v
  <2>7. QED
    BY <2>2, <2>3, <2>4, <2>5, <2>6 DEF v
<1>8. log' = log \o new
  <2>1. PICK T : log \in Seq(T)
    BY DEF LoopInv, TimeInv
  <2>2. log \in Seq(T \cup S) /\ tool \in Seq(T \cup S) /\ change \in Seq(T \cup S)
        /\ <<result>> \in Seq(T \cup S) /\ block \in Seq(T \cup S)
    BY <1>4, <2>1
  <2>3. log' = log \o tool \o change \o <<result>> \o block
    BY <1>1 DEF tool, change, result, block, first, status, r, c
  <2> DEFINE res == <<result>>
  <2> HIDE DEF res
  <2> DEFINE U == T \cup S
  <2>4. log \in Seq(U) /\ tool \in Seq(U) /\ change \in Seq(U) /\ res \in Seq(U)
        /\ block \in Seq(U)
    BY <2>2 DEF res
  <2> HIDE DEF U
  <2>5. tool \o change \in Seq(U) /\ (tool \o change) \o res \in Seq(U)
    BY <2>4
  <2>6. ASSUME NEW x \in Seq(U)
        PROVE  /\ (log \o x) \o res = log \o (x \o res)
               /\ (log \o x) \o block = log \o (x \o block)
    <3>1. (log \o x) \o res = log \o (x \o res)
      BY <2>4, <2>6
    <3>2. (log \o x) \o block = log \o (x \o block)
      BY <2>4, <2>6
    <3>3. QED
      BY <3>1, <3>2
  <2>7. log \o tool \o change = log \o (tool \o change)
    BY <2>4
  <2>8. (log \o (tool \o change)) \o res = log \o ((tool \o change) \o res)
    BY <2>5, <2>6
  <2>9. (log \o ((tool \o change) \o res)) \o block = log \o (((tool \o change) \o res) \o block)
    BY <2>5, <2>6
  <2>10. QED
    BY <2>3, <2>7, <2>8, <2>9 DEF res, new
<1> HIDE DEF new
<1> DEFINE p == Len(tool) + Len(change) + 1
<1>9. p \in 1..Len(new) /\ new[p] = result
  <2>1. p \in 1..Len(new)
    BY <1>4, <1>7
  <2>2. QED
    BY <1>4, <1>7, <2>1
<1>10. /\ \A i \in 1..Len(new) : /\ i < p => new[i].type = "tool"
                                 /\ i > p => /\ new[i].type = "transition"
                                             /\ new[i].state = "blocked"
       /\ p < Len(new) => new[p].status # "pass"
  <2>1. \A i \in 1..Len(new) : /\ i < p => new[i].type = "tool"
                               /\ i > p => /\ new[i].type = "transition"
                                           /\ new[i].state = "blocked"
    BY <1>4, <1>7
  <2>2. p < Len(new) => Len(block) # 0
    BY <1>4, <1>7
  <2>3. QED
    BY <1>6a, <1>6b, <1>9, <2>1, <2>2
<1>11. ASSUME new[p].status = "pass"
       PROVE  p > 1 /\ IF new[p].own = 0 THEN new[p].tool = Len(log) + p - 1
                       ELSE new[p - 1].mutates
  <2>1. Len(tool) = 1 /\ new[p].tool = Len(log) + 1 /\ p > 1
    BY <1>4, <1>6a, <1>6b, <1>6c, <1>9, <1>11
  <2>2. CASE change = <<>>
    <3>1. new[p].own = 0 /\ p = 2
      BY <1>6a, <1>6c, <1>9, <2>1, <2>2
    <3>2. QED
      BY <1>6c, <2>1, <3>1
  <2>3. CASE change # <<>>
    <3>1. new[p].own # 0 /\ Len(change) = 1
      <4>1. Len(change) # 0
        BY <1>4, <2>3
      <4>2. QED
        BY <1>4, <1>6a, <1>6c, <1>9, <2>1, <2>3, <4>1
    <3>2. p - 1 \in 1..Len(new) /\ p - 1 = 2
      BY <1>9, <2>1, <3>1
    <3>3. new[p - 1].mutates
      BY <1>4, <1>7, <2>1, <3>1, <3>2
    <3>4. QED
      BY <2>1, <3>1, <3>3
  <2>4. QED
    BY <2>2, <2>3
<1>12. CheckRows(new)
  <2>1. new[p].type = "check" /\ new[p].ws = ws' /\ new[p].req = run.contract.checks[run.k]
        /\ new[p].req \in Executed(run.contract)
    BY <1>6, <1>6a, <1>6c, <1>9
  <2> HIDE DEF p
  <2>2. QED
    BY <1>9, <1>10, <1>11, <2>1 DEF CheckRows
<1>13. QED
  BY <1>7, <1>8, <1>12

LEMMA CheckKeeps ==
    ASSUME LoopInv, NEW outcome, NEW touches, Check(outcome, touches)
    PROVE  TimeInv' /\ RowInv'
<1>1. PICK S : \E new \in Seq(S) : log' = log \o new /\ CheckRows(new)
  BY CheckRecords
<1>2. PICK new \in Seq(S) : log' = log \o new /\ CheckRows(new)
  BY <1>1
<1>3. PICK p \in 1..Len(new) :
         /\ new[p].type = "check" /\ new[p].ws = ws' /\ new[p].req \in Executed(run.contract)
         /\ \A i \in 1..Len(new) : /\ i < p => new[i].type = "tool"
                                   /\ i > p => new[i].type = "transition"
  BY <1>2 DEF CheckRows
<1>4. ws' \in Nat /\ ws <= ws' /\ run'.contract = run.contract
  <2>1. ws' = ws \/ ws' = ws + 1
    BY DEF Check, Edited, Edit
  <2>2. run'.contract = run.contract
    BY DEF Check, LoopInv, RunInv
  <2>3. QED
    BY <2>1, <2>2 DEF LoopInv, TimeInv
<1>5. ASSUME NEW i \in 1..Len(new)
      PROVE  /\ ~IsLook(new[i])
             /\ IsResult(new[i]) => new[i].ws \in 0..ws'
             /\ new[i].type = "check" => new[i].req \in Executed(run.contract)
             /\ new[i].type # "manual"
             /\ new[i].type = "tool" /\ ~new[i].mutates =>
                   \E j \in 1..Len(new) : i < j /\ new[j].type = "check"
  <2>1. CASE i < p
    BY <1>3, <2>1 DEF IsLook, IsResult
  <2>2. CASE i = p
    BY <1>3, <1>4, <2>2 DEF IsLook, IsResult
  <2>3. CASE i > p
    BY <1>3, <2>3 DEF IsLook, IsResult
  <2>4. QED
    BY <1>2, <2>1, <2>2, <2>3
<1>6. QED
  BY <1>2, <1>4, <1>5, ExtendKeeps DEF LoopInv

-----------------------------------------------------------------------------
(* The invariant.                                                          *)

LEMMA InitLoopInv == Init => LoopInv
<1> SUFFICES ASSUME Init
             PROVE  LoopInv
  OBVIOUS
<1>1. log = <<>> /\ log \in Seq({}) /\ Len(log) = 0 /\ ws = 0
  BY DEF Init
<1>2. TimeInv /\ RowInv
  BY <1>1 DEF TimeInv, RowInv
<1>3. RunInv
  BY <1>1 DEF Init, RunInv, Stage
<1>4. QED
  BY <1>2, <1>3 DEF LoopInv

\* A decision, whatever it is.
LEMMA DecideKeeps ==
    ASSUME LoopInv, NEW result \in {"PASS", "STOP", "ESCALATE", "raised"},
           Decide(result), UNCHANGED ws
    PROVE  LoopInv'
<1>1. log' = <<>> /\ ws' \in Nat
  BY DEF Decide, LoopInv, TimeInv
<1>2. TimeInv' /\ RowInv'
  BY <1>1, EmptyLogKeeps
<1>3. RunInv'
  BY DEF Decide, RunInv, Stage
<1>4. QED
  BY <1>2, <1>3 DEF LoopInv

\* Steps that keep the contract and record nothing.
LEMMA QuietKeeps ==
    ASSUME LoopInv, log' = log, ws' = ws \/ ws' = ws + 1, run'.contract = run.contract, RunInv'
    PROVE  LoopInv'
<1>1. TimeInv' /\ RowInv'
  BY SameLogKeeps DEF LoopInv
<1>2. QED
  BY <1>1 DEF LoopInv

\* The gates' answers.
LEMMA Answers ==
    /\ \A policy, s : ShouldStop(policy, s) \in {"PASS", "STOP", "ESCALATE"}
    /\ \A c : GateComplete(c, log, ws, MinPasses) \in {"PASS", "ESCALATE", "REPAIR"}
<1>1. \A policy, s : ShouldStop(policy, s) \in {"PASS", "STOP", "ESCALATE"}
  BY DEF ShouldStop
<1>2. \A c : GateComplete(c, log, ws, MinPasses) \in {"PASS", "ESCALATE", "REPAIR"}
  BY DEF GateComplete, CompleteStructured, CompleteReviewed
<1>3. QED
  BY <1>1, <1>2

\* The end of an iteration.
LEMMA CountKeeps ==
    ASSUME RunInv, run.at # "ended", NEW progress, Count(progress)
    PROVE  RunInv' /\ run'.contract = run.contract
<1> DEFINE n == IF progress THEN 0 ELSE run.noProgress + 1
<1>1. n \in Nat /\ run.iterations + 1 \in Nat
  BY DEF RunInv
<1>2. run' = [run EXCEPT !.at = "complete", !.iterations = run.iterations + 1, !.noProgress = n]
  BY DEF Count
<1> HIDE DEF n
<1>3. QED
  BY <1>1, <1>2 DEF RunInv, Stage

\* The loop's own steps.
LEMMA StepKeeps ==
    ASSUME LoopInv, Step
    PROVE  LoopInv'
<1> USE DEF Goto
<1>0. /\ ws \in Nat
      /\ run \in [at : Stage, contract : Contract \cup {NoContract}, iterations : Nat,
                  noProgress : Nat, failed : Nat, k : Nat, before : Nat,
                  result : {"none", "PASS", "STOP", "ESCALATE", "raised"}]
  BY DEF LoopInv, TimeInv, RunInv
<1>1. CASE PlanGate
  <2>1. CASE Goto("poll") /\ UNCHANGED log
    <3>1. RunInv'
      BY <1>0, <1>1, <2>1 DEF PlanGate, LoopInv, RunInv, Stage
    <3>2. run'.contract = run.contract
      BY <1>0, <2>1
    <3>3. QED
      BY <1>1, <2>1, <3>1, <3>2, QuietKeeps DEF PlanGate
  <2>2. CASE Decide("ESCALATE")
    BY <1>1, <2>2, DecideKeeps DEF PlanGate
  <2>3. QED
    BY <1>1, <2>1, <2>2 DEF PlanGate
<1>2. CASE Poll
  <2> DEFINE stop == ShouldStop(run.contract.stop, run)
  <2>1. CASE Goto("work") /\ UNCHANGED log
    <3>1. RunInv'
      BY <1>0, <1>2, <2>1 DEF Poll, PollWith, LoopInv, RunInv, Stage
    <3>2. run'.contract = run.contract
      BY <1>0, <2>1
    <3>3. QED
      BY <1>2, <2>1, <3>1, <3>2, QuietKeeps DEF Poll, PollWith
  <2>2. CASE Decide(stop)
    <3>1. stop \in {"PASS", "STOP", "ESCALATE"}
      BY Answers
    <3>2. UNCHANGED ws
      BY <1>2 DEF Poll, PollWith
    <3> HIDE DEF stop
    <3>3. QED
      BY <2>2, <3>1, <3>2, DecideKeeps
  <2>3. QED
    BY <1>2, <2>1, <2>2 DEF Poll, PollWith
<1>3. CASE WorkReturns \/ BeginReview \/ EndStep
  <2>1. RunInv' /\ run'.contract = run.contract
    <3>1. CASE WorkReturns
      <4>1. run.at = "work" /\ run' = [run EXCEPT !.at = "check", !.k = 1]
        BY <3>1 DEF WorkReturns
      <4>2. run.result = "none"
        BY <4>1 DEF LoopInv, RunInv
      <4>3. /\ run'.at = "check" /\ run'.contract = run.contract /\ run'.result = "none"
            /\ run'.k = 1
        BY <1>0, <4>1, <4>2
      <4>4. run' \in [at : Stage, contract : Contract \cup {NoContract}, iterations : Nat,
                      noProgress : Nat, failed : Nat, k : Nat, before : Nat,
                      result : {"none", "PASS", "STOP", "ESCALATE", "raised"}]
        BY <1>0, <4>1 DEF Stage
      <4>5. QED
        BY <4>3, <4>4 DEF RunInv
    <3>2. CASE BeginReview
      <4>1. run.at = "check" /\ run' = [run EXCEPT !.at = "review", !.k = 1, !.before = ws]
        BY <3>2 DEF BeginReview
      <4>2. run.result = "none"
        BY <4>1 DEF LoopInv, RunInv
      <4>3. /\ run'.at = "review" /\ run'.contract = run.contract /\ run'.result = "none"
            /\ run'.k = 1
        BY <1>0, <4>1, <4>2
      <4>4. run' \in [at : Stage, contract : Contract \cup {NoContract}, iterations : Nat,
                      noProgress : Nat, failed : Nat, k : Nat, before : Nat,
                      result : {"none", "PASS", "STOP", "ESCALATE", "raised"}]
        BY <1>0, <4>1 DEF Stage
      <4>5. QED
        BY <4>3, <4>4 DEF RunInv
    <3>3. CASE EndStep
      <4>1. RunInv /\ run.at # "ended" /\ Count(FALSE)
        BY <3>3 DEF EndStep, LoopInv
      <4>2. QED
        BY <4>1, CountKeeps
    <3>4. QED
      BY <1>3, <3>1, <3>2, <3>3
  <2>2. QED
    BY <1>3, <2>1, QuietKeeps DEF WorkReturns, BeginReview, EndStep
<1>4. CASE EndReview
  <2>1. RunInv' /\ run'.contract = run.contract /\ ws' = ws
    BY <1>4, CountKeeps DEF EndReview, LoopInv
  <2>2. CASE log' = log
    BY <2>1, <2>2, QuietKeeps
  <2> DEFINE command == [type |-> "tool", mutates |-> TRUE]
             blocked == [type |-> "transition", state |-> "blocked"]
             new == <<command, blocked>>
  <2>3. CASE log' = log \o new
    <3>1. new \in Seq({command, blocked}) /\ Len(new) = 2
          /\ new[1] = command /\ new[2] = blocked
      <4> HIDE DEF command, blocked
      <4>1. QED
        OBVIOUS
    <3>2. \A i \in 1..Len(new) : new[i] = command \/ new[i] = blocked
      <4>1. \A i \in 1..2 : i = 1 \/ i = 2
        OBVIOUS
      <4> HIDE DEF new
      <4>2. QED
        BY <3>1, <4>1
    <3>3. \A i \in 1..Len(new) :
             /\ ~IsLook(new[i]) /\ ~IsResult(new[i])
             /\ new[i].type # "check" /\ new[i].type # "manual"
             /\ new[i].type = "tool" => new[i].mutates
      BY <3>2 DEF IsLook, IsResult
    <3> HIDE DEF new
    <3>4. TimeInv' /\ RowInv'
      <4>1. ws' \in Nat /\ ws <= ws'
        BY <1>0, <2>1
      <4> DEFINE S == {command, blocked}
      <4>2. new \in Seq(S) /\ log' = log \o new
        BY <2>3, <3>1
      <4> HIDE DEF S, command, blocked
      <4>3. QED
        BY <2>1, <3>3, <4>1, <4>2, ExtendKeeps DEF LoopInv
    <3>5. QED
      BY <2>1, <3>4 DEF LoopInv
  <2>4. QED
    BY <1>4, <2>2, <2>3 DEF EndReview
<1>5. CASE Complete
  <2> DEFINE decision == GateComplete(run.contract, log, ws, MinPasses)
  <2>1. CASE /\ Record([type |-> "gate", decision |-> decision])
             /\ run' = [run EXCEPT !.at = "poll", !.k = 0]
    <3> DEFINE e == [type |-> "gate", decision |-> decision]
    <3>1. log' = Append(log, e) /\ ws' = ws
      BY <1>5, <2>1 DEF Record, Complete
    <3>2. RunInv' /\ run'.contract = run.contract
      BY <1>0, <1>5, <2>1 DEF Complete, LoopInv, RunInv, Stage
    <3>3. ~IsResult(e) /\ ~IsLook(e) /\ e.type \notin {"check", "manual", "tool"}
      BY DEF IsResult, IsLook
    <3> HIDE DEF e
    <3>4. QED
      BY <3>1, <3>2, <3>3, RecordKeeps DEF LoopInv
  <2>2. CASE decision # "REPAIR" /\ Decide(decision)
    <3>1. decision \in {"PASS", "ESCALATE"}
      BY <2>2, Answers
    <3>2. UNCHANGED ws
      BY <1>5 DEF Complete
    <3> HIDE DEF decision
    <3>3. QED
      BY <2>2, <3>1, <3>2, DecideKeeps
  <2>3. QED
    BY <1>5, <2>1, <2>2 DEF Complete
<1>6. ASSUME NEW o \in Opinion, Review(o)
      PROVE  LoopInv'
  <2> DEFINE e == [type |-> "verdict", verifier |-> Verifier[run.k], status |-> o.status,
                   refs |-> o.refs, rationale |-> o.rationale, saw |-> ws]
  <2>1. log' = Append(log, e) /\ ws' = ws
    BY <1>6 DEF Review, Record
  <2>2. RunInv' /\ run'.contract = run.contract
    BY <1>0, <1>6 DEF Review, LoopInv, RunInv, Stage
  <2>3. ~IsResult(e) /\ e.saw = ws /\ e.type \notin {"check", "manual", "tool"}
    BY DEF IsResult
  <2> HIDE DEF e
  <2>4. QED
    BY <2>1, <2>2, <2>3, RecordKeeps DEF LoopInv
<1>7. ASSUME NEW outcome, NEW touches, Check(outcome, touches)
      PROVE  LoopInv'
  <2>1. run.at = "check" /\ \/ run' = [run EXCEPT !.at = "count"]
                            \/ run' = [run EXCEPT !.k = @ + 1]
    BY <1>7 DEF Check
  <2>2. RunInv'
    <3>1. CASE run' = [run EXCEPT !.at = "count"]
      BY <2>1, <3>1 DEF LoopInv, RunInv, Stage
    <3>2. CASE run' = [run EXCEPT !.k = @ + 1]
      BY <2>1, <3>2 DEF LoopInv, RunInv, Stage
    <3>3. QED
      BY <2>1, <3>1, <3>2
  <2>3. QED
    BY <1>7, <2>2, CheckKeeps DEF LoopInv
<1>8. ASSUME NEW type \in {"tool", "evidence"}, Act(type)
      PROVE  LoopInv'
  <2> DEFINE e == IF type = "tool" THEN [type |-> "tool", mutates |-> TRUE]
                  ELSE [type |-> "evidence", kind |-> "artifact_hash", ws |-> ws',
                        mutates |-> TRUE]
  <2>1. log' = Append(log, e) /\ ws' = ws + 1 /\ run' = run
    BY <1>8 DEF Act, Record, Edit
  <2>2. RunInv'
    BY <1>8, <2>1 DEF Act, LoopInv, RunInv
  <2>3. /\ ~IsLook(e) /\ e.type \notin {"check", "manual"}
        /\ e.type = "tool" => e.mutates
        /\ IsResult(e) => e.ws = ws'
    BY DEF IsResult, IsLook
  <2> HIDE DEF e
  <2>4. IsResult(e) => e.ws \in 0..ws'
    BY <1>0, <2>1, <2>3
  <2>5. QED
    BY <2>1, <2>2, <2>3, <2>4, RecordKeeps DEF LoopInv
<1>9. ASSUME NEW decision \in {"STOP", "ESCALATE"}, WorkRefused(decision)
      PROVE  LoopInv'
  BY <1>9, DecideKeeps DEF WorkRefused
<1>10. ASSUME NEW c \in Contract, StartLoop(c)
       PROVE  LoopInv'
  <2>1. log' = <<>> /\ ws' \in Nat
    BY <1>0, <1>10 DEF StartLoop, LoopInv, RunInv
  <2>2. TimeInv' /\ RowInv'
    BY <2>1, EmptyLogKeeps
  <2>3. RunInv'
    BY <1>0, <1>10 DEF StartLoop, LoopInv, RunInv, Stage
  <2>4. QED
    BY <2>2, <2>3 DEF LoopInv
<1>11. ASSUME NEW c \in Contract, NEW approves \in BOOLEAN, Bind(c, approves)
       PROVE  LoopInv'
  <2> DEFINE e == [type |-> "human", stage |-> "plan", approved |-> TRUE, saw |-> ws, refs |-> {}]
  <2>1. log = <<>> /\ ws' = ws /\ (log' = log \/ log' = Append(log, e))
    BY <1>11 DEF Bind, LoopInv, RunInv, Record
  <2>2. RunInv'
    BY <1>0, <1>11 DEF Bind, LoopInv, RunInv, Stage
  <2>3. e.type = "human" /\ e.saw = ws
    OBVIOUS
  <2> HIDE DEF e
  <2>4. CASE log' = log
    <3>1. TimeInv' /\ RowInv'
      BY <1>0, <2>1, <2>4, EmptyLogKeeps
    <3>2. QED
      BY <2>2, <3>1 DEF LoopInv
  <2>5. CASE log' = Append(log, e)
    <3>1. log' \in Seq({e}) /\ Len(log') = 1 /\ log'[1] = e
      BY <2>1, <2>5
    <3>2. ~IsResult(e)
      BY <2>3 DEF IsResult
    <3>3. TimeInv'
      <4>1. \A i \in 1..Len(log') : log'[i] = e
        BY <3>1
      <4>2. ws' \in Nat /\ ws \in 0..ws'
        BY <1>0, <2>1
      <4>3. QED
        BY <2>3, <3>1, <3>2, <4>1, <4>2 DEF TimeInv, IsResult, IsLook
    <3>4. RowInv'
      BY <2>3, <3>1 DEF RowInv
    <3>5. QED
      BY <2>2, <3>3, <3>4 DEF LoopInv
  <2>6. QED
    BY <2>1, <2>4, <2>5
<1>12. QED
  BY <1>1, <1>2, <1>3, <1>4, <1>5, <1>6, <1>7, <1>8, <1>9, <1>10, <1>11 DEF Step

\* What happens around it.
LEMMA PeopleKeep ==
    ASSUME LoopInv, People
    PROVE  LoopInv'
<1>0. ws \in Nat
  BY DEF LoopInv, TimeInv
<1>1. ASSUME NEW stage, NEW approved, DecideStage(stage, approved)
      PROVE  LoopInv'
  <2> DEFINE e == [type |-> "human", stage |-> stage, approved |-> approved, saw |-> ws,
                   refs |-> IF stage = "final" /\ approved
                            THEN RequirementHashes(run.contract, log, ws) ELSE {}]
  <2>1. log' = Append(log, e) /\ ws' = ws /\ run' = run
    BY <1>1 DEF DecideStage, Record
  <2>2. RunInv'
    BY <1>1, <2>1 DEF DecideStage, PeopleMay, LoopInv, RunInv
  <2>3. ~IsResult(e) /\ e.saw = ws /\ e.type = "human"
    BY DEF IsResult
  <2> HIDE DEF e
  <2>4. QED
    BY <2>1, <2>2, <2>3, RecordKeeps DEF LoopInv
<1>2. ASSUME NEW kind, RecordEvidence(kind)
      PROVE  LoopInv'
  <2> DEFINE e == [type |-> "evidence", kind |-> kind, ws |-> ws, mutates |-> FALSE]
  <2>1. log' = Append(log, e) /\ ws' = ws /\ run' = run
    BY <1>2 DEF RecordEvidence, Record
  <2>2. RunInv'
    BY <1>2, <2>1 DEF RecordEvidence, PeopleMay, LoopInv, RunInv
  <2>3. ~IsLook(e) /\ e.ws = ws /\ e.type = "evidence"
    BY DEF IsLook
  <2> HIDE DEF e
  <2>4. QED
    BY <1>0, <2>1, <2>2, <2>3, RecordKeeps DEF LoopInv
<1>3. ASSUME NEW r, NEW approved,
             NEW cites \in {0} \cup Places(log, "evidence") \cup Places(log, "check"),
             RecordManual(r, approved, cites)
      PROVE  LoopInv'
  <2> DEFINE e == [type |-> "manual", req |-> r, approved |-> approved, cites |-> cites,
                   ws |-> ws]
  <2>1. log' = Append(log, e) /\ ws' = ws /\ run' = run /\ r \in run.contract.manual
    BY <1>3 DEF RecordManual, Record
  <2>2. RunInv'
    BY <1>3, <2>1 DEF RecordManual, PeopleMay, LoopInv, RunInv
  <2>3. ~IsLook(e) /\ e.ws = ws /\ e.type = "manual" /\ e.req = r /\ e.cites = cites
    BY DEF IsLook
  <2>4. Len(log) \in Nat /\ DOMAIN log = 1..Len(log)
    BY DEF LoopInv, TimeInv
  <2>5. cites \in 0..Len(log) /\ (cites # 0 => IsResult(log[cites]))
    BY <2>4 DEF Places, IsResult
  <2> HIDE DEF e
  <2>6. QED
    BY <1>0, <2>1, <2>2, <2>3, <2>5, RecordKeeps DEF LoopInv
<1>4. QED
  BY <1>1, <1>2, <1>3 DEF People

LEMMA NextKeepsLoopInv == LoopInv /\ [Next]_vars => LoopInv'
<1> SUFFICES ASSUME LoopInv, [Next]_vars
             PROVE  LoopInv'
  OBVIOUS
<1>1. CASE Raise
  BY <1>1, DecideKeeps DEF Raise
<1>2. CASE Drift
  <2>1. log' = log /\ run' = run /\ ws' = ws + 1
    BY <1>2 DEF Drift, Edit
  <2>2. RunInv'
    BY <2>1 DEF LoopInv, RunInv
  <2>3. QED
    BY <2>1, <2>2, QuietKeeps
<1>3. CASE UNCHANGED vars
  BY <1>3 DEF vars, LoopInv, TimeInv, RowInv, RunInv, IsResult, IsLook
<1>4. QED
  BY <1>1, <1>2, <1>3, StepKeeps, PeopleKeep DEF Next

-----------------------------------------------------------------------------
(* What passes.                                                            *)

\* A pass is the gate's.
LEMMA PassIsTheGates ==
    ASSUME LoopInv, Next, run.at = "complete", run'.result = "PASS"
    PROVE  GateComplete(run.contract, log, ws, MinPasses) = "PASS"
<1>1. run.result = "none"
  BY DEF LoopInv, RunInv
<1>2. ~Raise /\ ~People /\ ~Drift
  <2>1. ~Raise
    BY DEF Raise, Decide
  <2>2. run' # run
    BY <1>1
  <2>3. QED
    BY <2>1, <2>2 DEF People, DecideStage, RecordEvidence, RecordManual, Drift
<1>3. Complete
  BY <1>2 DEF Next, Step, PlanGate, Poll, PollWith, WorkReturns, BeginReview, EndReview, EndStep,
              Review, Check, Act, WorkRefused, StartLoop, Bind
<1>4. CASE run' = [run EXCEPT !.at = "poll", !.k = 0]
  BY <1>1, <1>4 DEF LoopInv, RunInv
<1>5. CASE Decide(GateComplete(run.contract, log, ws, MinPasses))
  BY <1>5 DEF Decide
<1>6. QED
  BY <1>3, <1>4, <1>5 DEF Complete

\* What the gate asks for when it passes a contract that asks for evidence.
LEMMA GatePasses ==
    ASSUME NEW c, GateComplete(c, log, ws, MinPasses) = "PASS",
           Structured(c) \/ c.kinds # {} \/ c.high
    PROVE  /\ c.high => ~PlanIssue(log) /\ ~FinalApprovalIssue(c, log, ws)
           /\ ~RequirementIssues(c, log, ws)
           /\ ~VerifierIssues(c, log, ws, MinPasses)
  BY DEF GateComplete, CompleteStructured

\* The passes that a review needs.
LEMMA Quorum == Max({2, MinPasses}) \in Nat /\ Max({2, MinPasses}) >= 2
<1>1. MinPasses \in Nat
  BY LoopAssumption
<1>2. \E x \in {2, MinPasses} : \A y \in {2, MinPasses} : x >= y
  BY <1>1
<1>3. /\ Max({2, MinPasses}) \in {2, MinPasses}
      /\ \A y \in {2, MinPasses} : Max({2, MinPasses}) >= y
  BY <1>2 DEF Max
<1>4. QED
  BY <1>1, <1>3

\* Enough verifiers looked last at the workspace as it is.
LEMMA VerifiersSawIt ==
    ASSUME LoopInv, NEW c, c = run.contract,
           ~RequirementIssues(c, log, ws), ~VerifierIssues(c, log, ws, MinPasses)
    PROVE  Cardinality({i \in LatestVerdicts(log) : log[i].status = "pass" /\ log[i].saw = ws})
               >= Max({2, MinPasses})
<1> DEFINE passes == {i \in Verdicts(c, log) : log[i].status = "pass"}
           cited == {i \in passes : log[i].refs # {}
                                    /\ log[i].refs = RequirementHashes(c, log, ws)}
           seen == {i \in LatestVerdicts(log) : log[i].status = "pass" /\ log[i].saw = ws}
<1>1. /\ \A i, j \in Verdicts(c, log) : log[i].verifier = log[j].verifier => i = j
      /\ ~(Cardinality(cited) < Max({2, MinPasses}))
  BY DEF VerifierIssues
<1>2. /\ Len(log) \in Nat /\ DOMAIN log = 1..Len(log)
      /\ ReviewAfter(c, log) \in 0..Len(log)
  BY LatestPlaces DEF LoopInv
<1>3. ASSUME NEW i \in cited
      PROVE  i \in seen
  <2>1. i \in 1..Len(log) /\ log[i].type = "verdict" /\ i > ReviewAfter(c, log)
    BY <1>2 DEF Verdicts, Places
  <2>2. log[i].saw = ws
    BY <2>1, CitingIsSeeing DEF IsLook
  <2>3. ASSUME NEW j \in Places(log, "verdict"), log[j].verifier = log[i].verifier
        PROVE  j <= i
    <3>1. j \in 1..Len(log)
      BY <1>2 DEF Places
    <3>2. CASE j > ReviewAfter(c, log)
      <4>1. i \in Verdicts(c, log) /\ j \in Verdicts(c, log)
        BY <2>3, <3>2 DEF Verdicts
      <4>2. j = i
        BY <1>1, <2>3, <4>1
      <4>3. QED
        BY <2>1, <4>2
    <3>3. CASE ~(j > ReviewAfter(c, log))
      BY <1>2, <2>1, <3>1, <3>3
    <3>4. QED
      BY <3>2, <3>3
  <2>4. QED
    BY <2>2, <2>3 DEF LatestVerdicts, Verdicts
<1>4. IsFiniteSet(seen) /\ cited \subseteq seen
  <2>1. IsFiniteSet(1..Len(log))
    BY <1>2, FS_Interval
  <2>2. seen \subseteq 1..Len(log)
    BY <1>2 DEF LatestVerdicts, Places
  <2>3. QED
    BY <1>3, <2>1, <2>2, FS_Subset
<1> HIDE DEF cited, seen
<1>5. /\ Cardinality(cited) <= Cardinality(seen)
      /\ Cardinality(cited) \in Nat /\ Cardinality(seen) \in Nat
  BY <1>4, FS_Subset, FS_CardinalityType
<1>6. QED
  BY <1>1, <1>5, Quorum DEF seen

\* For any contracts, verifiers and edits: a contract that asks for evidence
\* passes only when its checks ran, and enough verifiers looked, at the
\* workspace as it is (HITLGate._complete_locked).
THEOREM PassesAreReviewed == Spec => PassedIsReviewed
<1> DEFINE A == run.at = "complete" /\ run'.result = "PASS"
                  /\ (Structured(run.contract) \/ run.contract.kinds # {})
                => /\ \A r \in Executed(run.contract) : log[LastCheck(log, r)].ws = ws
                   /\ Cardinality({i \in LatestVerdicts(log) :
                                     log[i].status = "pass" /\ log[i].saw = ws})
                          >= Max({2, MinPasses})
<1>1. LoopInv /\ [Next]_vars => [A]_vars
  <2> SUFFICES ASSUME LoopInv, Next, run.at = "complete", run'.result = "PASS",
                      Structured(run.contract) \/ run.contract.kinds # {}
               PROVE  A
    OBVIOUS
  <2>1. /\ ~RequirementIssues(run.contract, log, ws)
        /\ ~VerifierIssues(run.contract, log, ws, MinPasses)
    BY PassIsTheGates, GatePasses
  <2>2. \A r \in Executed(run.contract) : log[LastCheck(log, r)].ws = ws
    BY <2>1 DEF RequirementIssues, CheckValid
  <2>3. QED
    BY <2>1, <2>2, VerifiersSawIt
<1>2. QED
  BY <1>1, InitLoopInv, NextKeepsLoopInv, PTL DEF Spec, PassedIsReviewed

\* The final approval that the gate accepts is behind all work, checks and
\* verdicts.
LEMMA ApprovalIsLast ==
    ASSUME LoopInv, NEW c, c = run.contract, ~RequirementIssues(c, log, ws),
           ~FinalApprovalIssue(c, log, ws)
    PROVE  \E d \in Decisions(log, "final") :
              /\ log[d].approved /\ log[d].saw = ws
              /\ \A i \in DOMAIN log :
                   \/ IsWork(log[i]) \/ log[i].type \in {"check", "verdict"}
                   \/ log[i].type = "human" /\ log[i].stage = "final"
                   => i <= d
<1> DEFINE d == LastIn(Decisions(log, "final"))
           after == LastIn({ReviewAfter(c, log)} \cup Verdicts(c, log))
<1>1. /\ ~(d <= after) /\ log[d].approved
      /\ log[d].refs # {} /\ log[d].refs = RequirementHashes(c, log, ws)
  BY DEF FinalApprovalIssue
<1>2. /\ Len(log) \in Nat /\ DOMAIN log = 1..Len(log)
      /\ ReviewAfter(c, log) \in 0..Len(log)
  BY LatestPlaces DEF LoopInv
<1>3. /\ d \in Decisions(log, "final") \cup {0}
      /\ \A i \in Decisions(log, "final") : i <= d
  <2>1. Decisions(log, "final") \in SUBSET (0..Len(log))
    BY <1>2 DEF Decisions, Places
  <2>2. QED
    BY <1>2, <2>1, LastPlace
<1>4. /\ after \in 0..Len(log) /\ ReviewAfter(c, log) <= after
      /\ \A i \in Verdicts(c, log) : i <= after
  <2>1. {ReviewAfter(c, log)} \cup Verdicts(c, log) \in SUBSET (0..Len(log))
    BY <1>2 DEF Verdicts, Places
  <2>2. QED
    BY <1>2, <2>1, LastPlace
<1> HIDE DEF d, after
<1>5. d \in Decisions(log, "final") /\ d \in 1..Len(log) /\ d > after
      /\ log[d].type = "human"
  <2>1. d # 0
    <3>1. d \in 0..Len(log)
      BY <1>2, <1>3 DEF Decisions, Places
    <3>2. QED
      BY <1>1, <1>2, <1>4, <3>1
  <2>2. d \in Decisions(log, "final")
    BY <1>3, <2>1
  <2>3. d \in 1..Len(log) /\ log[d].type = "human"
    BY <1>2, <2>2 DEF Decisions, Places
  <2>4. QED
    BY <1>1, <1>2, <1>4, <2>2, <2>3
<1>6. log[d].saw = ws
  <2>1. d > ReviewAfter(c, log)
    BY <1>2, <1>4, <1>5
  <2>2. QED
    BY <1>1, <1>5, <2>1, CitingIsSeeing DEF IsLook
<1>7. \A i \in 1..Len(log) : i <= ReviewAfter(c, log) => i <= d
  BY <1>2, <1>4, <1>5
<1>8. ASSUME NEW i \in 1..Len(log), log[i].type = "check"
      PROVE  i <= ReviewAfter(c, log)
  <2>1. log[i].req \in Executed(c)
    BY <1>8 DEF LoopInv, RowInv
  <2>2. i <= LastCheck(log, log[i].req) /\ LastCheck(log, log[i].req) <= ReviewAfter(c, log)
        /\ LastCheck(log, log[i].req) \in Nat
    BY <1>8, <2>1, LatestPlaces DEF LoopInv
  <2>3. QED
    BY <1>2, <2>2
<1>9. ASSUME NEW i \in 1..Len(log), IsWork(log[i])
      PROVE  i <= ReviewAfter(c, log)
  <2>1. CASE Mutates(log[i])
    <3>1. i <= LastMutation(log) /\ LastMutation(log) <= ReviewAfter(c, log)
          /\ LastMutation(log) \in Nat
      BY <2>1, LatestPlaces DEF LoopInv
    <3>2. QED
      BY <1>2, <3>1
  <2>2. CASE log[i].type = "tool" /\ ~Mutates(log[i])
    <3>1. PICK j \in 1..Len(log) : i < j /\ log[j].type = "check"
      BY <2>2 DEF Mutates, LoopInv, RowInv
    <3>2. QED
      BY <1>2, <1>8, <3>1
  <2>3. CASE log[i].type = "manual"
    <3>1. log[i].req \in c.manual
      BY <2>3 DEF LoopInv, RowInv
    <3>2. i <= LastManual(log, log[i].req) /\ LastManual(log, log[i].req) <= ReviewAfter(c, log)
          /\ LastManual(log, log[i].req) \in Nat
      BY <2>3, <3>1, LatestPlaces DEF LoopInv
    <3>3. QED
      BY <1>2, <3>2
  <2>4. QED
    BY <1>9, <2>1, <2>2, <2>3 DEF IsWork
<1>10. ASSUME NEW i \in 1..Len(log), log[i].type = "verdict"
       PROVE  i <= d
  <2>1. CASE i > ReviewAfter(c, log)
    <3>1. i <= after
      BY <1>2, <1>4, <1>10, <2>1 DEF Verdicts, Places
    <3>2. QED
      BY <1>2, <1>4, <1>5, <3>1
  <2>2. CASE ~(i > ReviewAfter(c, log))
    BY <1>2, <1>7, <2>2
  <2>3. QED
    BY <2>1, <2>2
<1>11. ASSUME NEW i \in DOMAIN log,
              \/ IsWork(log[i]) \/ log[i].type \in {"check", "verdict"}
              \/ log[i].type = "human" /\ log[i].stage = "final"
       PROVE  i <= d
  <2>1. i \in 1..Len(log)
    BY <1>2
  <2>2. CASE log[i].type = "human" /\ log[i].stage = "final"
    BY <1>3, <2>2 DEF Decisions, Places
  <2>3. QED
    BY <1>7, <1>8, <1>9, <1>10, <1>11, <2>1, <2>2
<1>12. QED
  BY <1>1, <1>5, <1>6, <1>11

\* For any contracts, verifiers, edits and people: a high-risk run passes only
\* with an approval of the workspace as it is, given after all of its work,
\* checks and verdicts, under a plan whose approval stands
\* (HITLGate._complete_locked).
THEOREM ApproverSaw == Spec => ApproverSawWhatPasses
<1> DEFINE A == run.at = "complete" /\ run.contract.high /\ run'.result = "PASS"
                => /\ HumanApproval(log, "plan")
                   /\ \E d \in Decisions(log, "final") :
                        /\ log[d].approved /\ log[d].saw = ws
                        /\ \A i \in DOMAIN log :
                             \/ IsWork(log[i]) \/ log[i].type \in {"check", "verdict"}
                             \/ log[i].type = "human" /\ log[i].stage = "final"
                             => i <= d
<1>1. LoopInv /\ [Next]_vars => [A]_vars
  <2> SUFFICES ASSUME LoopInv, Next, run.at = "complete", run'.result = "PASS",
                      run.contract.high
               PROVE  A
    OBVIOUS
  <2>1. /\ ~PlanIssue(log) /\ ~FinalApprovalIssue(run.contract, log, ws)
        /\ ~RequirementIssues(run.contract, log, ws)
    BY PassIsTheGates, GatePasses
  <2>2. HumanApproval(log, "plan")
    BY <2>1 DEF PlanIssue
  <2>3. QED
    BY <2>1, <2>2, ApprovalIsLast
<1>2. QED
  BY <1>1, InitLoopInv, NextKeepsLoopInv, PTL DEF Spec, ApproverSawWhatPasses


-----------------------------------------------------------------------------
(* The steps, by what they leave of the run and add to the log.            *)

\* The log has only grown.
Grown ==
    /\ Len(log) \in Nat /\ Len(log') \in Nat /\ Len(log) <= Len(log')
    /\ DOMAIN log = 1..Len(log) /\ DOMAIN log' = 1..Len(log')
    /\ \A i \in 1..Len(log) : log'[i] = log[i]

Adds(e) == Grown /\ Len(log') = Len(log) + 1 /\ log'[Len(log) + 1] = e

SameCounts == /\ run'.contract = run.contract /\ run'.iterations = run.iterations
              /\ run'.noProgress = run.noProgress /\ run'.failed = run.failed

SamePlace == run'.k = run.k /\ run'.before = run.before

Quietly ==
    /\ log' = log /\ ws <= ws' /\ SameCounts
    /\ \/ run'.at = run.at /\ SamePlace
       \/ run.at = "plan" /\ run'.at = "poll" /\ SamePlace
       \/ run.at = "poll" /\ run'.at = "work" /\ SamePlace
          /\ ShouldStop(run.contract.stop, run) = "PASS"
       \/ run.at = "work" /\ run'.at = "check" /\ run'.k = 1 /\ run'.before = run.before
       \/ run.at = "check" /\ run'.at = "review" /\ run'.k = 1 /\ run'.before = ws

Ends ==
    /\ run.at # "ended" /\ run'.at = "ended" /\ log' = <<>> /\ ws' = ws
    /\ run'.contract = NoContract /\ run'.iterations = 0 /\ run'.noProgress = 0
    /\ run'.failed = 0 /\ run'.before = 0

Begins ==
    /\ run.at = "begin" /\ run'.at \in {"plan", "poll"} /\ log = <<>> /\ ws' = ws
    /\ run'.contract \in Contract /\ run'.iterations = run.iterations
    /\ run'.noProgress = run.noProgress /\ run'.failed = run.failed /\ SamePlace
    /\ log' = log \/ \E e : Adds(e) /\ e.type = "human"

Works ==
    /\ run.at = "work" /\ run' = run /\ ws <= ws'
    /\ \E e : Adds(e) /\ e.type \in {"tool", "evidence"}

\* A check adds a command, a change, its result, and a block, from the first on.
CheckAdds ==
    \E p \in (Len(log) + 1)..Len(log') :
        /\ log'[p].type = "check" /\ log'[p].req = run.contract.checks[run.k]
        /\ \A i \in (Len(log) + 1)..Len(log') :
              /\ i < p => log'[i].type = "tool"
              /\ i > p => log'[i].type = "transition" /\ log'[i].state = "blocked"
        /\ p < Len(log') => log'[p].status # "pass"
        /\ log'[p].status = "pass" =>
              p > Len(log) + 1 /\ IF log'[p].own = 0 THEN log'[p].tool = p - 1
                                  ELSE log'[p - 1].mutates

Checks ==
    /\ run.at = "check" /\ run.k <= Len(run.contract.checks)
    /\ SameCounts /\ run'.before = run.before /\ ws <= ws'
    /\ \/ run'.at = "count" /\ run'.k = run.k
       \/ run'.at = "check" /\ run'.k = run.k + 1
    /\ Grown /\ CheckAdds

Says ==
    /\ run.at = "review" /\ run'.at = "review" /\ run.k <= Len(Verifier)
    /\ SameCounts /\ run'.k = run.k + 1 /\ run'.before = run.before /\ ws' = ws
    /\ \E e : Adds(e) /\ e.type = "verdict" /\ e.verifier = Verifier[run.k]

Counts(progress) ==
    /\ run'.at = "complete" /\ run'.contract = run.contract /\ run'.failed = run.failed
    /\ SamePlace /\ ws' = ws
    /\ run'.iterations = run.iterations + 1
    /\ run'.noProgress = IF progress THEN 0 ELSE run.noProgress + 1

Reviews ==
    /\ run.at = "review" /\ Counts(Approved /\ ~Changed)
    /\ IF Changed
       THEN /\ Grown /\ Len(log') = Len(log) + 2
            /\ log'[Len(log) + 1] = [type |-> "tool", mutates |-> TRUE]
            /\ log'[Len(log) + 2] = [type |-> "transition", state |-> "blocked"]
       ELSE log' = log

Stops == run.at = "count" /\ Counts(FALSE) /\ log' = log

Repairs ==
    /\ run.at = "complete" /\ run'.at = "poll" /\ SameCounts /\ ws' = ws
    /\ run'.before = run.before
    /\ GateComplete(run.contract, log, ws, MinPasses) = "REPAIR"
    /\ \E e : Adds(e) /\ e.type = "gate"

Meanwhile ==
    /\ run.at \in {"work", "check", "review", "complete"} /\ run' = run /\ ws' = ws
    /\ \E e : Adds(e) /\ e.type \in {"human", "manual", "evidence"} /\ ~Mutates(e)

LEMMA SameGrows ==
    ASSUME TimeInv, log' = log
    PROVE  Grown
  BY DEF TimeInv, Grown

LEMMA RecordAdds ==
    ASSUME TimeInv, NEW e, Record(e)
    PROVE  Adds(e)
<1>1. PICK T : log \in Seq(T)
  BY DEF TimeInv
<1>2. log \in Seq(T \cup {e}) /\ e \in T \cup {e} /\ log' = Append(log, e)
  BY <1>1 DEF Record
<1>3. /\ Len(log) \in Nat /\ DOMAIN log = 1..Len(log)
      /\ Len(log') = Len(log) + 1 /\ DOMAIN log' = 1..Len(log')
      /\ \A i \in 1..Len(log) : log'[i] = log[i]
      /\ log'[Len(log) + 1] = e
  BY <1>2
<1>4. QED
  BY <1>3 DEF Adds, Grown

LEMMA ConcatGrows ==
    ASSUME TimeInv, NEW S, NEW new \in Seq(S), log' = log \o new
    PROVE  /\ Grown /\ Len(log') = Len(log) + Len(new)
           /\ \A k \in 1..Len(new) : log'[Len(log) + k] = new[k]
<1>1. PICK T : log \in Seq(T)
  BY DEF TimeInv
<1>2. log \in Seq(T \cup S) /\ new \in Seq(T \cup S)
  BY <1>1
<1>3. /\ Len(log) \in Nat /\ DOMAIN log = 1..Len(log) /\ Len(new) \in Nat
      /\ Len(log') = Len(log) + Len(new) /\ DOMAIN log' = 1..Len(log')
      /\ \A i \in 1..Len(log) : log'[i] = log[i]
      /\ \A k \in 1..Len(new) : log'[Len(log) + k] = new[k]
  BY <1>2
<1>4. QED
  BY <1>3 DEF Grown

LEMMA CheckDoes ==
    ASSUME LoopInv, NEW outcome, NEW touches, Check(outcome, touches)
    PROVE  Checks
<1>1. PICK S : \E new \in Seq(S) : log' = log \o new /\ CheckRows(new)
  BY CheckRecords
<1>2. PICK new \in Seq(S) : log' = log \o new /\ CheckRows(new)
  BY <1>1
<1>3. /\ Grown /\ Len(log') = Len(log) + Len(new) /\ Len(new) \in Nat
      /\ \A k \in 1..Len(new) : log'[Len(log) + k] = new[k]
  BY <1>2, ConcatGrows DEF LoopInv
<1>4. PICK q \in 1..Len(new) :
        /\ new[q].type = "check" /\ new[q].ws = ws'
        /\ new[q].req = run.contract.checks[run.k]
        /\ \A i \in 1..Len(new) : /\ i < q => new[i].type = "tool"
                                  /\ i > q => /\ new[i].type = "transition"
                                              /\ new[i].state = "blocked"
        /\ q < Len(new) => new[q].status # "pass"
        /\ new[q].status = "pass" =>
              q > 1 /\ IF new[q].own = 0 THEN new[q].tool = Len(log) + q - 1
                       ELSE new[q - 1].mutates
  BY <1>2 DEF CheckRows
<1>5. CheckAdds
  <2>1. Len(log) \in Nat
    BY <1>3 DEF Grown
  <2>2. PICK p : p = Len(log) + q
    OBVIOUS
  <2>3. p \in (Len(log) + 1)..Len(log') /\ log'[p] = new[q]
    BY <1>3, <2>1, <2>2
  <2>4. ASSUME NEW i \in (Len(log) + 1)..Len(log')
        PROVE  i - Len(log) \in 1..Len(new) /\ log'[i] = new[i - Len(log)]
               /\ (i < p <=> i - Len(log) < q) /\ (i > p <=> i - Len(log) > q)
    <3>1. i - Len(log) \in 1..Len(new) /\ Len(log) + (i - Len(log)) = i
      BY <1>3, <2>1
    <3>2. QED
      BY <1>3, <2>1, <2>2, <3>1
  <2>5. \A i \in (Len(log) + 1)..Len(log') :
           /\ i < p => log'[i].type = "tool"
           /\ i > p => log'[i].type = "transition" /\ log'[i].state = "blocked"
    BY <1>4, <2>4
  <2>6. p < Len(log') => log'[p].status # "pass"
    BY <1>3, <1>4, <2>1, <2>2, <2>3
  <2>7. ASSUME log'[p].status = "pass"
        PROVE  p > Len(log) + 1 /\ IF log'[p].own = 0 THEN log'[p].tool = p - 1
                                  ELSE log'[p - 1].mutates
    <3>1. q > 1 /\ p > Len(log) + 1
      BY <1>4, <2>1, <2>2, <2>3, <2>7
    <3>2. p - 1 \in (Len(log) + 1)..Len(log') /\ (p - 1) - Len(log) = q - 1
      BY <2>1, <2>2, <2>3, <3>1
    <3>3. log'[p - 1] = new[q - 1]
      BY <2>4, <3>2
    <3>4. CASE log'[p].own = 0
      BY <1>4, <2>1, <2>2, <2>3, <2>7, <3>1, <3>4
    <3>5. CASE log'[p].own # 0
      BY <1>4, <2>3, <2>7, <3>1, <3>3, <3>5
    <3>6. QED
      BY <3>1, <3>4, <3>5
  <2>8. QED
    BY <1>4, <2>3, <2>5, <2>6, <2>7 DEF CheckAdds
<1>6. /\ run.at = "check" /\ run.k <= Len(run.contract.checks)
      /\ SameCounts /\ run'.before = run.before /\ ws <= ws'
      /\ \/ run'.at = "count" /\ run'.k = run.k
         \/ run'.at = "check" /\ run'.k = run.k + 1
  <2>1. ws' = ws \/ ws' = ws + 1
    BY DEF Check, Edited, Edit
  <2>2. ws <= ws'
    BY <2>1 DEF LoopInv, TimeInv
  <2>3. \/ run' = [run EXCEPT !.at = "count"]
        \/ run' = [run EXCEPT !.k = @ + 1]
    BY DEF Check
  <2>4. run.at = "check" /\ run.k <= Len(run.contract.checks)
    BY DEF Check
  <2>5. QED
    BY <2>2, <2>3, <2>4 DEF LoopInv, RunInv, SameCounts
<1>7. QED
  BY <1>3, <1>5, <1>6 DEF Checks

\* Every step is one of these.
LEMMA Moves ==
    ASSUME LoopInv, [Next]_vars
    PROVE  \/ Quietly \/ Ends \/ Begins \/ Works \/ Checks \/ Says \/ Reviews \/ Stops
           \/ Repairs \/ Meanwhile
<1>0. /\ ws \in Nat /\ TimeInv
      /\ run \in [at : Stage, contract : Contract \cup {NoContract}, iterations : Nat,
                  noProgress : Nat, failed : Nat, k : Nat, before : Nat,
                  result : {"none", "PASS", "STOP", "ESCALATE", "raised"}]
  BY DEF LoopInv, TimeInv, RunInv
<1>1. ASSUME NEW result, Decide(result), UNCHANGED ws, run.at # "ended"
      PROVE  Ends
  BY <1>1 DEF Decide, Ends
<1>2. ASSUME NEW at, Goto(at), UNCHANGED <<log, ws>>
      PROVE  log' = log /\ ws <= ws' /\ SameCounts /\ SamePlace /\ run'.at = at
  BY <1>0, <1>2 DEF Goto, SameCounts, SamePlace
<1>3. CASE PlanGate
  BY <1>1, <1>2, <1>3 DEF PlanGate, Quietly
<1>4. CASE Poll
  <2>1. run.at = "poll" /\ UNCHANGED ws
    BY <1>4 DEF Poll, PollWith
  <2>2. CASE ShouldStop(run.contract.stop, run) = "PASS"
    <3>1. Goto("work") /\ UNCHANGED log
      BY <1>4, <2>2 DEF Poll, PollWith
    <3>2. QED
      BY <1>2, <2>1, <2>2, <3>1 DEF Quietly
  <2>3. CASE ShouldStop(run.contract.stop, run) # "PASS"
    <3>1. Decide(ShouldStop(run.contract.stop, run))
      BY <1>4, <2>3 DEF Poll, PollWith
    <3>2. QED
      BY <1>1, <2>1, <3>1
  <2>4. QED
    BY <2>2, <2>3
<1>5. CASE WorkReturns
  BY <1>0, <1>5 DEF WorkReturns, Quietly, SameCounts
<1>6. CASE BeginReview
  BY <1>0, <1>6 DEF BeginReview, Quietly, SameCounts
<1>7. ASSUME NEW progress, Count(progress), UNCHANGED ws
      PROVE  Counts(progress)
  <2> DEFINE n == IF progress THEN 0 ELSE run.noProgress + 1
  <2>1. run' = [run EXCEPT !.at = "complete", !.iterations = run.iterations + 1, !.noProgress = n]
    BY <1>7 DEF Count
  <2> HIDE DEF n
  <2>2. /\ run'.at = "complete" /\ run'.contract = run.contract /\ run'.failed = run.failed
        /\ run'.k = run.k /\ run'.before = run.before /\ run'.iterations = run.iterations + 1
        /\ run'.noProgress = n
    BY <1>0, <2>1
  <2>3. QED
    BY <1>7, <2>2 DEF Counts, SamePlace, n
<1>8. CASE EndReview
  <2>1. Counts(Approved /\ ~Changed) /\ run.at = "review"
    BY <1>7, <1>8 DEF EndReview
  <2>2. CASE ~Changed
    BY <1>8, <2>1, <2>2 DEF EndReview, Reviews
  <2>3. CASE Changed
    <3> DEFINE command == [type |-> "tool", mutates |-> TRUE]
               blocked == [type |-> "transition", state |-> "blocked"]
    <3>1. log' = log \o <<command, blocked>>
      BY <1>8, <2>3 DEF EndReview
    <3>2. PICK x : x = command
      OBVIOUS
    <3>3. PICK y : y = blocked
      OBVIOUS
    <3>4. log' = log \o <<x, y>>
      BY <3>1, <3>2, <3>3
    <3> HIDE DEF command, blocked
    <3>5. /\ <<x, y>> \in Seq({x, y}) /\ Len(<<x, y>>) = 2
          /\ <<x, y>>[1] = x /\ <<x, y>>[2] = y
      OBVIOUS
    <3> DEFINE new == <<x, y>>
    <3> HIDE DEF new
    <3>6. Grown /\ Len(log') = Len(log) + 2
          /\ \A k \in 1..2 : log'[Len(log) + k] = new[k]
      BY <1>0, <3>4, <3>5, ConcatGrows DEF new
    <3>7. log'[Len(log) + 1] = x /\ log'[Len(log) + 2] = y
      BY <3>5, <3>6 DEF new
    <3>8. QED
      BY <2>1, <2>3, <3>2, <3>3, <3>6, <3>7 DEF Reviews, command, blocked
  <2>4. QED
    BY <2>2, <2>3
<1>9. CASE EndStep
  BY <1>7, <1>9 DEF EndStep, Stops
<1>10. CASE Complete
  <2> DEFINE decision == GateComplete(run.contract, log, ws, MinPasses)
  <2>1. run.at = "complete" /\ UNCHANGED ws
    BY <1>10 DEF Complete
  <2>2. CASE /\ decision = "REPAIR" /\ Record([type |-> "gate", decision |-> decision])
             /\ run' = [run EXCEPT !.at = "poll", !.k = 0]
    <3>1. PICK e : e = [type |-> "gate", decision |-> decision]
      OBVIOUS
    <3>2. Adds(e) /\ e.type = "gate"
      BY <1>0, <2>2, <3>1, RecordAdds
    <3>3. run'.at = "poll" /\ SameCounts /\ run'.before = run.before
      BY <1>0, <2>2 DEF SameCounts
    <3>4. QED
      BY <2>1, <2>2, <3>2, <3>3 DEF Repairs
  <2>3. CASE Decide(decision)
    BY <1>1, <2>1, <2>3
  <2>4. QED
    BY <1>10, <2>2, <2>3 DEF Complete
<1>11. ASSUME NEW o \in Opinion, Review(o)
       PROVE  Says
  <2>1. PICK e : e = [type |-> "verdict", verifier |-> Verifier[run.k], status |-> o.status,
                      refs |-> o.refs, rationale |-> o.rationale, saw |-> ws]
    OBVIOUS
  <2>2. Record(e) /\ run' = [run EXCEPT !.k = @ + 1]
        /\ run.at = "review" /\ run.k <= Len(Verifier) /\ ws' = ws
    BY <1>11, <2>1 DEF Review
  <2>3. Adds(e) /\ e.type = "verdict" /\ e.verifier = Verifier[run.k]
    BY <1>0, <2>1, <2>2, RecordAdds
  <2>4. /\ run'.at = "review" /\ SameCounts /\ run'.k = run.k + 1 /\ run'.before = run.before
    BY <1>0, <2>2 DEF SameCounts
  <2>5. QED
    BY <2>2, <2>3, <2>4 DEF Says
<1>12. ASSUME NEW type \in {"tool", "evidence"}, Act(type)
       PROVE  Works
  <2>1. PICK e : e = IF type = "tool" THEN [type |-> "tool", mutates |-> TRUE]
                     ELSE [type |-> "evidence", kind |-> "artifact_hash", ws |-> ws',
                           mutates |-> TRUE]
    OBVIOUS
  <2>2. Record(e) /\ run.at = "work" /\ run' = run /\ ws' = ws + 1
    BY <1>12, <2>1 DEF Act, Edit
  <2>3. Adds(e) /\ e.type \in {"tool", "evidence"}
    BY <1>0, <2>1, <2>2, RecordAdds
  <2>4. ws <= ws'
    BY <1>0, <2>2
  <2>5. QED
    BY <2>2, <2>3, <2>4 DEF Works
<1>13. ASSUME NEW decision, WorkRefused(decision)
       PROVE  Ends
  BY <1>1, <1>13 DEF WorkRefused
<1>14. ASSUME NEW c \in Contract, StartLoop(c)
       PROVE  Begins
  BY <1>0, <1>14 DEF StartLoop, Begins, SamePlace, LoopInv, RunInv
<1>15. ASSUME NEW c \in Contract, NEW approves \in BOOLEAN, Bind(c, approves)
       PROVE  Begins
  <2>1. PICK e : e = [type |-> "human", stage |-> "plan", approved |-> TRUE, saw |-> ws,
                      refs |-> {}]
    OBVIOUS
  <2>2. log' = log \/ Record(e)
    BY <1>15, <2>1 DEF Bind
  <2>3. e.type = "human" /\ (Record(e) => Adds(e))
    BY <1>0, <2>1, RecordAdds
  <2>4. /\ run.at = "begin" /\ run'.at = "plan" /\ ws' = ws /\ run'.contract \in Contract
        /\ run'.iterations = run.iterations /\ run'.noProgress = run.noProgress
        /\ run'.failed = run.failed /\ SamePlace
    BY <1>0, <1>15 DEF Bind, SamePlace
  <2>5. log = <<>>
    BY <2>4 DEF LoopInv, RunInv
  <2>6. QED
    BY <2>2, <2>3, <2>4, <2>5 DEF Begins
<1>16. CASE Raise
  BY <1>1, <1>16 DEF Raise
<1>17. CASE Drift
  BY <1>0, <1>17 DEF Drift, Edit, Quietly, SameCounts, SamePlace
<1>18. ASSUME NEW stage, NEW approved, DecideStage(stage, approved)
       PROVE  Meanwhile
  <2>1. PICK e : e = [type |-> "human", stage |-> stage, approved |-> approved, saw |-> ws,
                      refs |-> IF stage = "final" /\ approved
                               THEN RequirementHashes(run.contract, log, ws) ELSE {}]
    OBVIOUS
  <2>2. Record(e) /\ PeopleMay /\ UNCHANGED <<ws, run>>
    BY <1>18, <2>1 DEF DecideStage
  <2>3. Adds(e) /\ e.type = "human" /\ ~Mutates(e)
    BY <1>0, <2>1, <2>2, RecordAdds DEF Mutates
  <2>4. QED
    BY <2>2, <2>3 DEF Meanwhile, PeopleMay
<1>19. ASSUME NEW kind, RecordEvidence(kind)
       PROVE  Meanwhile
  <2>1. PICK e : e = [type |-> "evidence", kind |-> kind, ws |-> ws, mutates |-> FALSE]
    OBVIOUS
  <2>2. Record(e) /\ PeopleMay /\ UNCHANGED <<ws, run>>
    BY <1>19, <2>1 DEF RecordEvidence
  <2>3. Adds(e) /\ e.type = "evidence" /\ ~Mutates(e)
    BY <1>0, <2>1, <2>2, RecordAdds DEF Mutates
  <2>4. QED
    BY <2>2, <2>3 DEF Meanwhile, PeopleMay
<1>20. ASSUME NEW r, NEW approved, NEW cites, RecordManual(r, approved, cites)
       PROVE  Meanwhile
  <2>1. PICK e : e = [type |-> "manual", req |-> r, approved |-> approved, cites |-> cites,
                      ws |-> ws]
    OBVIOUS
  <2>2. Record(e) /\ PeopleMay /\ UNCHANGED <<ws, run>>
    BY <1>20, <2>1 DEF RecordManual
  <2>3. Adds(e) /\ e.type = "manual" /\ ~Mutates(e)
    BY <1>0, <2>1, <2>2, RecordAdds DEF Mutates
  <2>4. QED
    BY <2>2, <2>3 DEF Meanwhile, PeopleMay
<1>21. CASE UNCHANGED vars
  BY <1>0, <1>21 DEF vars, Quietly, SameCounts, SamePlace
<1>22. CASE Step
  <2>1. \/ PlanGate \/ Poll \/ WorkReturns \/ BeginReview \/ EndReview \/ EndStep \/ Complete
        \/ \E o \in Opinion : Review(o)
        \/ \E outcome, touches : Check(outcome, touches)
        \/ \E type \in {"tool", "evidence"} : Act(type)
        \/ \E decision : WorkRefused(decision)
        \/ \E c \in Contract : StartLoop(c)
        \/ \E c \in Contract, approves \in BOOLEAN : Bind(c, approves)
    BY <1>22 DEF Step
  <2>2. QED
    BY <1>3, <1>4, <1>5, <1>6, <1>8, <1>9, <1>10, <1>11, <1>12, <1>13, <1>14, <1>15, <2>1,
       CheckDoes
<1>23. CASE People
  BY <1>18, <1>19, <1>20, <1>23 DEF People
<1>24. QED
  BY <1>16, <1>17, <1>21, <1>22, <1>23 DEF Next


-----------------------------------------------------------------------------
(* The counters.                                                           *)

Kind == {"human", "manual", "tool", "check", "evidence", "verdict", "transition", "gate"}

\* Neither counter passes the ceiling, which the loop looks at before work.
CountInv ==
    /\ run.failed = 0 /\ run.noProgress <= run.iterations
    /\ run.iterations <= run.contract.stop.iterations
    /\ run.at \in {"work", "check", "review", "count"} =>
          run.iterations < run.contract.stop.iterations
    /\ run.at = "begin" => run.iterations = 0
    /\ run.before <= ws
    /\ \A i \in 1..Len(log) : log[i].type \in Kind

\* One event, of a kind that there is.
LEMMA KindsKept ==
    ASSUME \A i \in 1..Len(log) : log[i].type \in Kind, NEW e, Adds(e), e.type \in Kind
    PROVE  \A i \in 1..Len(log') : log'[i].type \in Kind
<1>1. ASSUME NEW i \in 1..Len(log')
      PROVE  i \in 1..Len(log) \/ i = Len(log) + 1
  BY DEF Adds, Grown
<1>2. QED
  BY <1>1 DEF Adds, Grown

LEMMA Ceilings ==
    ASSUME NEW c \in Contract \cup {NoContract}
    PROVE  c.stop.iterations \in Nat \ {0}
  BY LoopAssumption DEF NoContract

LEMMA CountStep == LoopInv /\ CountInv /\ [Next]_vars => CountInv'
<1> SUFFICES ASSUME LoopInv, CountInv, [Next]_vars
             PROVE  CountInv'
  OBVIOUS
<1> DEFINE C == run.contract.stop.iterations
<1>0. /\ ws \in Nat /\ run.at \in Stage
      /\ run.iterations \in Nat /\ run.noProgress \in Nat /\ run.before \in Nat
      /\ run.contract \in Contract \cup {NoContract} /\ C \in Nat \ {0}
      /\ run'.at \in Stage /\ ws' \in Nat
      /\ run'.iterations \in Nat /\ run'.noProgress \in Nat /\ run'.before \in Nat
      /\ run'.contract \in Contract \cup {NoContract}
  <2>1. LoopInv'
    BY NextKeepsLoopInv
  <2>2. QED
    BY <2>1, Ceilings DEF LoopInv, TimeInv, RunInv
<1>1. CASE Quietly
  <2>1. \A i \in 1..Len(log') : log'[i].type \in Kind
    BY <1>1 DEF Quietly, CountInv
  <2>2. run'.before <= ws'
    BY <1>0, <1>1 DEF Quietly, CountInv, SamePlace
  <2>3. run.at = "poll" /\ run'.at = "work" => run.iterations < C
    <3>1. CASE ShouldStop(run.contract.stop, run) = "PASS"
      BY <1>0, <3>1 DEF ShouldStop, Reached
    <3>2. QED
      BY <1>1, <3>1 DEF Quietly
  <2>4. QED
    BY <1>0, <1>1, <2>1, <2>2, <2>3 DEF Quietly, CountInv, SameCounts
<1>2. CASE Ends
  <2>1. run'.contract.stop.iterations \in Nat \ {0}
    BY <1>2, Ceilings DEF Ends
  <2>2. Len(log') = 0
    BY <1>2 DEF Ends
  <2>3. QED
    BY <1>0, <1>2, <2>1, <2>2 DEF Ends, CountInv
<1>3. CASE Begins
  <2>1. run'.contract.stop.iterations \in Nat \ {0}
    BY <1>3, Ceilings DEF Begins
  <2>2. \A i \in 1..Len(log') : log'[i].type \in Kind
    BY <1>3, KindsKept DEF Begins, CountInv, Kind
  <2>3. QED
    BY <1>0, <1>3, <2>1, <2>2 DEF Begins, CountInv, SamePlace
<1>4. CASE Works \/ Meanwhile
  <2>1. \A i \in 1..Len(log') : log'[i].type \in Kind
    BY <1>4, KindsKept DEF Works, Meanwhile, CountInv, Kind
  <2>2. run' = run /\ ws <= ws'
    BY <1>0, <1>4 DEF Works, Meanwhile
  <2>3. QED
    BY <1>0, <2>1, <2>2 DEF CountInv
<1>5. CASE Checks
  <2>1. PICK p \in (Len(log) + 1)..Len(log') :
           /\ log'[p].type = "check"
           /\ \A i \in (Len(log) + 1)..Len(log') :
                 /\ i < p => log'[i].type = "tool"
                 /\ i > p => log'[i].type = "transition"
    BY <1>5 DEF Checks, CheckAdds
  <2>2. ASSUME NEW i \in 1..Len(log')
        PROVE  log'[i].type \in Kind
    <3>1. CASE i \in 1..Len(log)
      BY <1>5, <3>1 DEF Checks, Grown, CountInv
    <3>2. CASE i \notin 1..Len(log)
      <4>1. i \in (Len(log) + 1)..Len(log') /\ (i < p \/ i = p \/ i > p)
        BY <1>5, <3>2 DEF Checks, Grown
      <4>2. QED
        BY <2>1, <4>1 DEF Kind
    <3>3. QED
      BY <3>1, <3>2
  <2>3. QED
    BY <1>0, <1>5, <2>2 DEF Checks, CountInv, SameCounts
<1>6. CASE Says
  <2>1. \A i \in 1..Len(log') : log'[i].type \in Kind
    BY <1>6, KindsKept DEF Says, CountInv, Kind
  <2>2. QED
    BY <1>0, <1>6, <2>1 DEF Says, CountInv, SameCounts
<1>7. CASE Reviews
  <2>1. \A i \in 1..Len(log') : log'[i].type \in Kind
    <3>1. CASE log' = log
      BY <3>1 DEF CountInv
    <3>2. CASE Changed
      <4>1. /\ Grown /\ Len(log') = Len(log) + 2
            /\ log'[Len(log) + 1].type \in Kind /\ log'[Len(log) + 2].type \in Kind
        BY <1>7, <3>2 DEF Reviews, Kind
      <4>2. \A i \in 1..Len(log') : i \in 1..Len(log) \/ i = Len(log) + 1 \/ i = Len(log) + 2
        BY <4>1 DEF Grown
      <4>3. QED
        BY <4>1, <4>2 DEF Grown, CountInv
    <3>3. QED
      BY <1>7, <3>1, <3>2 DEF Reviews
  <2>2. QED
    BY <1>0, <1>7, <2>1 DEF Reviews, Counts, CountInv, SamePlace
<1>8. CASE Stops
  BY <1>0, <1>8 DEF Stops, Counts, CountInv, SamePlace
<1>9. CASE Repairs
  <2>1. \A i \in 1..Len(log') : log'[i].type \in Kind
    BY <1>9, KindsKept DEF Repairs, CountInv, Kind
  <2>2. QED
    BY <1>0, <1>9, <2>1 DEF Repairs, CountInv, SameCounts
<1>10. QED
  BY <1>1, <1>2, <1>3, <1>4, <1>5, <1>6, <1>7, <1>8, <1>9, Moves

LEMMA InitCountInv == Init => CountInv
<1> SUFFICES ASSUME Init
             PROVE  CountInv
  OBVIOUS
<1>1. Len(log) = 0 /\ run.contract = NoContract
  BY DEF Init
<1>2. run.contract.stop.iterations \in Nat \ {0}
  BY <1>1, Ceilings
<1>3. QED
  BY <1>1, <1>2 DEF Init, CountInv

\* For any contracts, verifiers, edits and people: the variables have their
\* types, and no counter of the loop ever passes the contract's ceiling of
\* iterations (run_bounded_loop).
THEOREM Types == Spec => []TypeOK
<1>1. Init => LoopInv /\ CountInv
  BY InitLoopInv, InitCountInv
<1>2. LoopInv /\ CountInv /\ [Next]_vars => (LoopInv /\ CountInv)'
  BY NextKeepsLoopInv, CountStep
<1>3. LoopInv /\ CountInv => TypeOK
  <2> SUFFICES ASSUME LoopInv, CountInv
               PROVE  TypeOK
    OBVIOUS
  <2>1. run.contract.stop.iterations \in Nat
    BY Ceilings DEF LoopInv, RunInv
  <2>2. {run.iterations, run.noProgress, run.failed} \subseteq 0..run.contract.stop.iterations
    BY <2>1 DEF LoopInv, RunInv, CountInv
  <2>3. run.before \in 0..ws
    BY DEF LoopInv, TimeInv, RunInv, CountInv
  <2>4. \A e \in Range(log) : e.type \in Kind
    BY DEF LoopInv, TimeInv, CountInv, Range
  <2>5. QED
    BY <2>2, <2>3, <2>4 DEF TypeOK, LoopInv, TimeInv, RunInv, Stage, Kind
<1>4. QED
  BY <1>1, <1>2, <1>3, PTL DEF Spec


-----------------------------------------------------------------------------
(* What the counters count.                                                *)

\* Where the iteration began, and what its verifiers have said.
Start == LastIn(Gates)
Said == {i \in Places(log, "verdict") : i > Start}

\* The review between two places approved, and nothing was changed during it.
Good(from, to) ==
    LET verdicts == {i \in Places(log, "verdict") : from < i /\ i < to}
        last == {i \in verdicts : \A j \in verdicts : log[j].verifier = log[i].verifier => j <= i}
    IN  /\ Cardinality({i \in last : CountsAsPass(log[i], Structured(run.contract))}) >= MinPasses
        /\ \A i \in last : log[i].status # "critical"
        /\ \A i \in DOMAIN log, v \in verdicts :
              Mutates(log[i]) /\ from < i /\ i < to => i < v

After(g) == {h \in Gates : h > g}

\* n iterations have brought nothing since the last one that did.
Fruitless(n) ==
    /\ n <= Cardinality(Gates)
    /\ \A g \in Gates : Fruitful(g) => n <= Cardinality(After(g))
    /\ n = Cardinality(Gates) \/ \E g \in Gates : Fruitful(g) /\ n = Cardinality(After(g))

PolicyInv ==
    /\ run.at \notin {"complete", "ended"} =>
          run.iterations = Cardinality(Gates) /\ Fruitless(run.noProgress)
    /\ run.at = "complete" =>
          /\ run.iterations = Cardinality(Gates) + 1
          /\ IF Good(Start, Len(log) + 1) THEN run.noProgress = 0
             ELSE run.noProgress # 0 /\ Fruitless(run.noProgress - 1)
    /\ run.at \notin {"review", "complete", "ended"} => Said = {}
    /\ run.at = "review" =>
          \A i \in 1..Len(log), v \in Said : Mutates(log[i]) => i < v

\* The first of some places.
LEMMA LeastIs ==
    ASSUME NEW S \in SUBSET Nat, S # {}
    PROVE  Min(S) \in S /\ \A i \in S : Min(S) <= i
<1> DEFINE R == OpToRel(<, Nat)
<1>1. \A y, m \in Nat : <<y, m>> \in R <=> y < m
  BY DEF OpToRel
<1>2. IsWellFoundedOn(R, Nat)
  BY NatLessThanWellFounded
<1> HIDE DEF R
<1>3. PICK m \in S : \A y \in S : ~(<<y, m>> \in R)
  BY <1>2, WFMin
<1>4. \A y \in S : m <= y
  <2>1. ASSUME NEW y \in S, y < m
        PROVE  FALSE
    BY <1>1, <1>3, <2>1
  <2>2. QED
    BY <2>1
<1>5. QED
  BY <1>4 DEF Min

LEMMA Rounds ==
    ASSUME TimeInv
    PROVE  /\ Len(log) \in Nat /\ DOMAIN log = 1..Len(log)
           /\ Gates \subseteq 1..Len(log) /\ IsFiniteSet(Gates) /\ Cardinality(Gates) \in Nat
           /\ Start \in 0..Len(log) /\ Start \in Gates \cup {0} /\ \A g \in Gates : g <= Start
           /\ \A g : After(g) \subseteq Gates /\ IsFiniteSet(After(g))
                     /\ Cardinality(After(g)) \in Nat
<1>1. Len(log) \in Nat /\ DOMAIN log = 1..Len(log)
  BY DEF TimeInv
<1>2. Gates \subseteq 1..Len(log)
  BY <1>1 DEF Gates, Places
<1>3. IsFiniteSet(1..Len(log))
  BY <1>1, FS_Interval
<1>4. IsFiniteSet(Gates) /\ Cardinality(Gates) \in Nat
  BY <1>2, <1>3, FS_Subset, FS_CardinalityType
<1>5. Gates \in SUBSET (0..Len(log))
  BY <1>1, <1>2
<1>6. Start \in 0..Len(log) /\ Start \in Gates \cup {0} /\ \A g \in Gates : g <= Start
  BY <1>1, <1>5, LastPlace DEF Start
<1>7. ASSUME NEW g
      PROVE  After(g) \subseteq Gates /\ IsFiniteSet(After(g)) /\ Cardinality(After(g)) \in Nat
  <2>1. After(g) \subseteq Gates
    BY DEF After
  <2>2. QED
    BY <1>4, <2>1, FS_Subset, FS_CardinalityType
<1>8. QED
  BY <1>1, <1>2, <1>4, <1>6, <1>7

\* What the gates and verdicts are when the log grows by others.
LEMMA GatesKept ==
    ASSUME Grown, \A i \in (Len(log) + 1)..Len(log') : log'[i].type # "gate"
    PROVE  Gates' = Gates /\ Start' = Start /\ \A g : After(g)' = After(g)
<1>1. \A i \in 1..Len(log') : i \in 1..Len(log) \/ i \in (Len(log) + 1)..Len(log')
  BY DEF Grown
<1>2. \A i : i \in Gates' <=> i \in Gates
  BY <1>1 DEF Grown, Gates, Places
<1>3. Gates' = Gates
  BY <1>2
<1>4. QED
  BY <1>3 DEF Start, After

LEMMA SaidKept ==
    ASSUME Grown, Start' = Start, \A i \in (Len(log) + 1)..Len(log') : log'[i].type # "verdict"
    PROVE  Said' = Said
<1>1. \A i \in 1..Len(log') : i \in 1..Len(log) \/ i \in (Len(log) + 1)..Len(log')
  BY DEF Grown
<1>2. \A i : i \in Said' <=> i \in Said
  BY <1>1 DEF Grown, Said, Places
<1>3. QED
  BY <1>2

LEMMA GoodKept ==
    ASSUME Grown, run'.contract = run.contract,
           NEW from \in Nat, NEW to \in Nat, NEW end \in Nat,
           to <= Len(log) + 1, to <= end,
           \A i \in 1..Len(log') : to <= i /\ i < end =>
               log'[i].type # "verdict" /\ ~Mutates(log'[i])
    PROVE  Good(from, to) <=> Good(from, end)'
<1> DEFINE verdicts == {i \in Places(log, "verdict") : from < i /\ i < to}
           last == {i \in verdicts : \A j \in verdicts : log[j].verifier = log[i].verifier => j <= i}
           others == {i \in Places(log, "verdict")' : from < i /\ i < end}
           latest == {i \in others : \A j \in others : log'[j].verifier = log'[i].verifier => j <= i}
<1>1. \A i \in 1..Len(log') : i < to => i \in 1..Len(log) /\ log'[i] = log[i]
  BY DEF Grown
<1>2. \A i \in 1..Len(log) : i \in 1..Len(log')
  BY DEF Grown
<1>3. \A i : i \in others <=> i \in verdicts
  BY <1>1, <1>2 DEF Grown, Places
<1>4. others = verdicts
  BY <1>3
<1>5. \A i \in verdicts : log'[i] = log[i] /\ i \in 1..Len(log)
  BY DEF Grown, Places
<1>6. \A i : i \in latest <=> i \in last
  BY <1>4, <1>5
<1>7. latest = last
  BY <1>6
<1>8. {i \in latest : CountsAsPass(log'[i], Structured(run'.contract))}
      = {i \in last : CountsAsPass(log[i], Structured(run.contract))}
  BY <1>5, <1>7
<1>9. (\A i \in last : log[i].status # "critical") <=> (\A i \in latest : log'[i].status # "critical")
  BY <1>5, <1>7
<1>10. ASSUME NEW i \in 1..Len(log'), i < end, Mutates(log'[i])
       PROVE  i < to /\ i \in 1..Len(log) /\ log'[i] = log[i]
  <2>1. i < to
    BY <1>10 DEF Grown
  <2>2. QED
    BY <1>1, <2>1
<1>11. (\A i \in DOMAIN log, v \in verdicts : Mutates(log[i]) /\ from < i /\ i < to => i < v)
       <=> (\A i \in DOMAIN log', v \in others :
               Mutates(log'[i]) /\ from < i /\ i < end => i < v)
  <2>1. \A i \in 1..Len(log) : i < to => i < end /\ log'[i] = log[i]
    BY DEF Grown
  <2>2. DOMAIN log = 1..Len(log) /\ DOMAIN log' = 1..Len(log')
    BY DEF Grown
  <2> HIDE DEF verdicts, others
  <2>3. QED
    BY <1>2, <1>4, <1>10, <2>1, <2>2
<1>12. Good(from, to) <=>
          /\ Cardinality({i \in last : CountsAsPass(log[i], Structured(run.contract))}) >= MinPasses
          /\ \A i \in last : log[i].status # "critical"
          /\ \A i \in DOMAIN log, v \in verdicts :
                Mutates(log[i]) /\ from < i /\ i < to => i < v
  BY DEF Good
<1>13. Good(from, end)' <=>
          /\ Cardinality({i \in latest : CountsAsPass(log'[i], Structured(run'.contract))})
                >= MinPasses
          /\ \A i \in latest : log'[i].status # "critical"
          /\ \A i \in DOMAIN log', v \in others :
                Mutates(log'[i]) /\ from < i /\ i < end => i < v
  BY DEF Good
<1> HIDE DEF verdicts, last, others, latest
<1>14. QED
  BY <1>8, <1>9, <1>11, <1>12, <1>13

\* A review without verdicts does not approve.
LEMMA NobodySaid ==
    ASSUME MinPasses # 0, NEW from, NEW to,
           {i \in Places(log, "verdict") : from < i /\ i < to} = {}
    PROVE  ~Good(from, to)
<1> DEFINE verdicts == {i \in Places(log, "verdict") : from < i /\ i < to}
           last == {i \in verdicts : \A j \in verdicts : log[j].verifier = log[i].verifier => j <= i}
           passes == {i \in last : CountsAsPass(log[i], Structured(run.contract))}
<1>1. passes = {}
  OBVIOUS
<1>2. Cardinality(passes) = 0
  BY <1>1, FS_EmptySet
<1>3. Good(from, to) => Cardinality(passes) >= MinPasses
  BY DEF Good
<1> HIDE DEF passes
<1>4. QED
  BY <1>2, <1>3, LoopAssumption

\* An old iteration stays as fruitful as it was.
LEMMA FruitfulKept ==
    ASSUME Grown, run'.contract = run.contract, NEW g \in Gates
    PROVE  g \in Gates' /\ (Fruitful(g)' <=> Fruitful(g))
<1> DEFINE before == {h \in Gates : h < g}
           begun == LastIn(before)
           verdicts == {i \in Places(log, "verdict") : begun < i /\ i < g}
           last == {i \in verdicts : \A j \in verdicts : log[j].verifier = log[i].verifier => j <= i}
           others == {i \in Places(log, "verdict")' : begun < i /\ i < g}
           latest == {i \in others : \A j \in others : log'[j].verifier = log'[i].verifier => j <= i}
<1>1. g \in 1..Len(log) /\ g \in Gates'
  BY DEF Grown, Gates, Places
<1>2. {h \in Gates' : h < g} = before
  <2>1. \A h \in 1..Len(log') : h < g => h \in 1..Len(log) /\ log'[h] = log[h]
    BY <1>1 DEF Grown
  <2>2. \A h \in 1..Len(log) : h \in 1..Len(log') /\ log'[h] = log[h]
    BY DEF Grown
  <2>3. QED
    BY <2>1, <2>2 DEF Grown, Gates, Places
<1> HIDE DEF begun
<1>3. others = verdicts
  <2>1. \A h \in 1..Len(log') : h < g => h \in 1..Len(log) /\ log'[h] = log[h]
    BY <1>1 DEF Grown
  <2>2. \A h \in 1..Len(log) : h \in 1..Len(log') /\ log'[h] = log[h]
    BY DEF Grown
  <2>3. QED
    BY <2>1, <2>2 DEF Grown, Places
<1>4. \A i \in verdicts : log'[i] = log[i]
  BY DEF Grown, Places
<1>5. latest = last
  BY <1>3, <1>4
<1>6. {i \in latest : CountsAsPass(log'[i], Structured(run'.contract))}
      = {i \in last : CountsAsPass(log[i], Structured(run.contract))}
  BY <1>4, <1>5
<1>7. (\A i \in last : log[i].status # "critical") <=> (\A i \in latest : log'[i].status # "critical")
  BY <1>4, <1>5
<1>8. (\A i \in DOMAIN log : Mutates(log[i]) /\ begun < i /\ i < g => i < Min(verdicts))
      <=> (\A i \in DOMAIN log' : Mutates(log'[i]) /\ begun < i /\ i < g => i < Min(others))
  <2>1. \A i \in 1..Len(log') : i < g => i \in 1..Len(log) /\ log'[i] = log[i]
    BY <1>1 DEF Grown
  <2>2. \A i \in 1..Len(log) : i \in 1..Len(log') /\ log'[i] = log[i]
    BY DEF Grown
  <2>3. DOMAIN log = 1..Len(log) /\ DOMAIN log' = 1..Len(log')
    BY DEF Grown
  <2> HIDE DEF verdicts, others
  <2>4. QED
    BY <1>3, <2>1, <2>2, <2>3
<1>9. Fruitful(g) <=>
         /\ Cardinality({i \in last : CountsAsPass(log[i], Structured(run.contract))}) >= MinPasses
         /\ \A i \in last : log[i].status # "critical"
         /\ \A i \in DOMAIN log : Mutates(log[i]) /\ begun < i /\ i < g => i < Min(verdicts)
  BY DEF Fruitful, begun
<1>10. Fruitful(g)' <=>
         /\ Cardinality({i \in latest : CountsAsPass(log'[i], Structured(run'.contract))})
               >= MinPasses
         /\ \A i \in latest : log'[i].status # "critical"
         /\ \A i \in DOMAIN log' : Mutates(log'[i]) /\ begun < i /\ i < g => i < Min(others)
  <2>1. begun = LastIn({h \in Gates' : h < g})
    BY <1>2 DEF begun
  <2> HIDE DEF before
  <2>2. QED
    BY <2>1 DEF Fruitful
<1> HIDE DEF verdicts, last, others, latest
<1>11. QED
  BY <1>1, <1>6, <1>7, <1>8, <1>9, <1>10

\* The iteration that ends with a gate is as fruitful as its review was good.
LEMMA FruitfulThen ==
    ASSUME MinPasses # 0, Len(log') \in Nat, DOMAIN log' = 1..Len(log'),
           NEW g \in Nat, NEW from, from = LastIn({h \in Gates' : h < g})
    PROVE  Fruitful(g)' <=> Good(from, g)'
<1> DEFINE verdicts == {i \in Places(log, "verdict")' : from < i /\ i < g}
           last == {i \in verdicts : \A j \in verdicts : log'[j].verifier = log'[i].verifier => j <= i}
           passes == {i \in last : CountsAsPass(log'[i], Structured(run'.contract))}
<1>1. Fruitful(g)' <=>
         /\ Cardinality(passes) >= MinPasses
         /\ \A i \in last : log'[i].status # "critical"
         /\ \A i \in DOMAIN log' : Mutates(log'[i]) /\ from < i /\ i < g => i < Min(verdicts)
  BY DEF Fruitful
<1>2. Good(from, g)' <=>
         /\ Cardinality(passes) >= MinPasses
         /\ \A i \in last : log'[i].status # "critical"
         /\ \A i \in DOMAIN log', v \in verdicts :
               Mutates(log'[i]) /\ from < i /\ i < g => i < v
  BY DEF Good
<1>3. ASSUME Cardinality(passes) >= MinPasses
      PROVE  verdicts # {}
  <2>1. SUFFICES ASSUME verdicts = {}
                 PROVE  FALSE
    OBVIOUS
  <2>2. passes = {}
    BY <2>1
  <2>3. Cardinality(passes) = 0
    BY <2>2, FS_EmptySet
  <2> HIDE DEF passes
  <2>4. QED
    BY <1>3, <2>3, LoopAssumption
<1>4. verdicts \in SUBSET Nat
  BY DEF Places
<1> HIDE DEF passes, last, verdicts
<1>5. ASSUME Cardinality(passes) >= MinPasses, NEW i \in 1..Len(log')
      PROVE  i < Min(verdicts) <=> \A v \in verdicts : i < v
  <2>1. Min(verdicts) \in verdicts /\ \A v \in verdicts : Min(verdicts) <= v
    BY <1>3, <1>4, <1>5, LeastIs
  <2>2. i \in Nat /\ Min(verdicts) \in Nat
    <3>1. i \in Nat
      OBVIOUS
    <3>2. Min(verdicts) \in Nat
      BY <1>4, <2>1
    <3>3. QED
      BY <3>1, <3>2
  <2>3. ASSUME NEW v \in verdicts, i < Min(verdicts)
        PROVE  i < v
    BY <1>4, <2>1, <2>2, <2>3
  <2>4. QED
    BY <2>1, <2>3
<1>6. QED
  BY <1>1, <1>2, <1>5

LEMMA FruitlessKept ==
    ASSUME Grown, run'.contract = run.contract, Gates' = Gates, \A g : After(g)' = After(g),
           NEW n, Fruitless(n)
    PROVE  Fruitless(n)'
<1>1. \A g \in Gates : Fruitful(g)' <=> Fruitful(g)
  BY FruitfulKept
<1>2. QED
  BY <1>1 DEF Fruitless


\* Steps that add neither a gate nor a verdict, and leave the counters alone.
LEMMA SameStreak ==
    ASSUME LoopInv, PolicyInv, Grown, run.at \notin {"complete", "ended"}, SameCounts,
           \A i \in (Len(log) + 1)..Len(log') : log'[i].type \notin {"gate", "verdict"}
    PROVE  /\ run'.iterations = Cardinality(Gates') /\ Fruitless(run.noProgress)'
           /\ Said' = Said
<1>1. Gates' = Gates /\ Start' = Start /\ \A g : After(g)' = After(g)
  BY GatesKept
<1>2. Said' = Said
  BY <1>1, SaidKept
<1>3. PICK n : n = run.noProgress
  OBVIOUS
<1>4. Fruitless(n) /\ run.iterations = Cardinality(Gates)
  BY <1>3 DEF PolicyInv
<1>5. Fruitless(n)'
  BY <1>1, <1>4, FruitlessKept DEF SameCounts
<1>6. Fruitless(run.noProgress)'
  <2>1. n = run'.noProgress
    BY <1>3 DEF SameCounts
  <2>2. QED
    BY <1>5, <2>1
<1>7. QED
  BY <1>1, <1>2, <1>4, <1>6 DEF SameCounts

\* At the gate, what was counted stays what the review was worth.
LEMMA WaitingKeeps ==
    ASSUME LoopInv, PolicyInv, Grown, run.at = "complete", run'.at = "complete", SameCounts,
           \A i \in (Len(log) + 1)..Len(log') :
               log'[i].type \notin {"gate", "verdict"} /\ ~Mutates(log'[i])
    PROVE  PolicyInv'
<1>1. Gates' = Gates /\ Start' = Start /\ \A g : After(g)' = After(g)
  BY GatesKept
<1>2. PICK s : s = Start
  OBVIOUS
<1>3. PICK n : n = Len(log) + 1
  OBVIOUS
<1>4. PICK m : m = Len(log') + 1
  OBVIOUS
<1>5. s \in Nat /\ n \in Nat /\ m \in Nat /\ n <= m
  BY <1>2, <1>3, <1>4, Rounds DEF LoopInv, Grown
<1>6. Good(s, n) <=> Good(s, m)'
  <2>1. \A i \in 1..Len(log') : n <= i /\ i < m => i \in (Len(log) + 1)..Len(log')
    BY <1>3, <1>4 DEF Grown
  <2>2. \A i \in 1..Len(log') : n <= i /\ i < m =>
            log'[i].type # "verdict" /\ ~Mutates(log'[i])
    BY <2>1
  <2>3. n <= Len(log) + 1
    BY <1>3, <1>5
  <2>4. run'.contract = run.contract
    BY DEF SameCounts
  <2>5. QED
    BY <1>5, <2>2, <2>3, <2>4, GoodKept
<1>7. Good(Start, Len(log) + 1)' <=> Good(Start, Len(log) + 1)
  <2>1. Good(Start, Len(log) + 1) <=> Good(s, n)
    BY <1>2, <1>3
  <2>2. Good(Start, Len(log) + 1)' <=> Good(s, m)'
    BY <1>1, <1>2, <1>4
  <2>3. QED
    BY <1>6, <2>1, <2>2
<1>8. CASE Good(Start, Len(log) + 1)
  BY <1>1, <1>7, <1>8 DEF PolicyInv, SameCounts
<1>9. CASE ~Good(Start, Len(log) + 1)
  <2>1. PICK k : k = run.noProgress - 1
    OBVIOUS
  <2>2. Fruitless(k)'
    BY <1>1, <1>9, <2>1, FruitlessKept DEF PolicyInv, SameCounts
  <2>3. Fruitless(run.noProgress - 1)'
    <3>1. k = run'.noProgress - 1
      BY <2>1 DEF SameCounts
    <3>2. QED
      BY <2>2, <3>1
  <2>4. QED
    BY <1>1, <1>7, <1>9, <2>3 DEF PolicyInv, SameCounts
<1>10. QED
  BY <1>8, <1>9

\* What the loop counts as progress is what the record shows of the review.
LEMMA ReviewIsGood ==
    ASSUME LoopInv, PolicyInv, MinPasses # 0, Reviews
    PROVE  /\ Gates' = Gates /\ Start' = Start /\ \A g : After(g)' = After(g)
           /\ Grown
           /\ Good(Start, Len(log) + 1)' <=> Approved /\ ~Changed
<1>0. /\ Len(log) \in Nat /\ DOMAIN log = 1..Len(log) /\ Start \in 0..Len(log)
      /\ Gates \subseteq 1..Len(log)
  BY Rounds DEF LoopInv
<1>1. CASE ~Changed
  <2>1. log' = log /\ run'.contract = run.contract
    BY <1>1 DEF Reviews, Counts
  <2>2. Gates' = Gates /\ Start' = Start /\ Grown /\ \A g : After(g)' = After(g)
    BY <2>1, SameGrows DEF LoopInv, Start, Gates, Places, After
  <2> DEFINE verdicts == {i \in Places(log, "verdict") : Start < i /\ i < Len(log) + 1}
             last == {i \in verdicts : \A j \in verdicts :
                         log[j].verifier = log[i].verifier => j <= i}
  <2>3. Good(Start, Len(log) + 1)' <=> Good(Start, Len(log) + 1)
    BY <2>1, <2>2 DEF Good
  <2>4. verdicts = Said
    BY <1>0 DEF Said, Places
  <2>5. \A i : i \in last <=> i \in RoundVerdicts
    <3>1. \A i \in Places(log, "verdict") : i \in 1..Len(log) /\ (i > Start <=> i \in Said)
      BY <1>0 DEF Said, Places
    <3>2. ASSUME NEW i \in RoundVerdicts
          PROVE  i \in last
      <4>1. i \in Places(log, "verdict") /\ i > Start
            /\ \A j \in Places(log, "verdict") : log[j].verifier = log[i].verifier => j <= i
        BY DEF RoundVerdicts, LatestVerdicts, Start, Gates
      <4>2. QED
        BY <2>4, <3>1, <4>1 DEF Said
    <3>3. ASSUME NEW i \in last
          PROVE  i \in RoundVerdicts
      <4>1. i \in Places(log, "verdict") /\ i > Start
            /\ \A j \in Said : log[j].verifier = log[i].verifier => j <= i
        BY <2>4 DEF Said
      <4>2. ASSUME NEW j \in Places(log, "verdict"), log[j].verifier = log[i].verifier
            PROVE  j <= i
        <5>1. CASE j \in Said
          BY <4>1, <4>2, <5>1
        <5>2. CASE j \notin Said
          BY <1>0, <3>1, <4>1, <5>2
        <5>3. QED
          BY <5>1, <5>2
      <4>3. QED
        BY <4>1, <4>2 DEF RoundVerdicts, LatestVerdicts, Start, Gates
    <3>4. QED
      BY <3>2, <3>3
  <2>6. last = RoundVerdicts
    BY <2>5
  <2>7. \A i \in DOMAIN log, v \in verdicts :
           Mutates(log[i]) /\ Start < i /\ i < Len(log) + 1 => i < v
    BY <1>0, <2>4 DEF PolicyInv, Reviews
  <2>8. Good(Start, Len(log) + 1) <=>
           /\ Cardinality({i \in last : CountsAsPass(log[i], Structured(run.contract))})
                  >= MinPasses
           /\ \A i \in last : log[i].status # "critical"
    BY <2>7 DEF Good
  <2> HIDE DEF last
  <2>9. QED
    BY <1>1, <2>2, <2>3, <2>6, <2>8 DEF Approved
<1>2. CASE Changed
  <2>1. /\ Grown /\ Len(log') = Len(log) + 2
        /\ log'[Len(log) + 1] = [type |-> "tool", mutates |-> TRUE]
        /\ log'[Len(log) + 2] = [type |-> "transition", state |-> "blocked"]
    BY <1>2 DEF Reviews
  <2>2. \A i \in (Len(log) + 1)..Len(log') : log'[i].type \notin {"gate", "verdict"}
    <3>1. \A i \in (Len(log) + 1)..Len(log') : i = Len(log) + 1 \/ i = Len(log) + 2
      BY <1>0, <2>1
    <3>2. QED
      BY <2>1, <3>1
  <2>3. Gates' = Gates /\ Start' = Start /\ \A g : After(g)' = After(g)
    BY <2>1, <2>2, GatesKept
  <2>4. SUFFICES ASSUME Good(Start, Len(log) + 1)'
                 PROVE  FALSE
    BY <1>2, <2>1, <2>3
  <2> DEFINE verdicts == {i \in Places(log, "verdict")' : Start < i /\ i < Len(log') + 1}
             last == {i \in verdicts : \A j \in verdicts :
                         log'[j].verifier = log'[i].verifier => j <= i}
             passes == {i \in last : CountsAsPass(log'[i], Structured(run'.contract))}
  <2>5. /\ Cardinality(passes) >= MinPasses
        /\ \A i \in DOMAIN log', v \in verdicts :
              Mutates(log'[i]) /\ Start < i /\ i < Len(log') + 1 => i < v
    BY <2>3, <2>4 DEF Good
  <2>6. verdicts # {}
    <3>1. SUFFICES ASSUME verdicts = {}
                   PROVE  FALSE
      OBVIOUS
    <3>2. passes = {}
      BY <3>1
    <3>3. Cardinality(passes) = 0
      BY <3>2, FS_EmptySet
    <3> HIDE DEF passes
    <3>4. QED
      BY <2>5, <3>3, LoopAssumption
  <2>7. PICK v \in verdicts : TRUE
    BY <2>6
  <2>8. v \in 1..Len(log)
    <3>1. v \in 1..Len(log') /\ log'[v].type = "verdict"
      BY <2>1 DEF Places, Grown
    <3>2. v \notin (Len(log) + 1)..Len(log')
      BY <2>2, <3>1
    <3>3. QED
      BY <2>1, <3>1, <3>2 DEF Grown
  <2>9. Len(log) + 1 < v
    <3>1. Len(log) + 1 \in DOMAIN log' /\ Start < Len(log) + 1 /\ Len(log) + 1 < Len(log') + 1
      BY <1>0, <2>1 DEF Grown
    <3>2. Mutates(log'[Len(log) + 1])
      BY <2>1 DEF Mutates
    <3> HIDE DEF verdicts
    <3>3. QED
      BY <2>5, <3>1, <3>2
  <2>10. QED
    BY <1>0, <2>8, <2>9
<1>3. QED
  BY <1>1, <1>2

\* The end of an iteration counts it.
LEMMA CountingKeeps ==
    ASSUME LoopInv, PolicyInv, Grown, NEW progress \in BOOLEAN, Counts(progress),
           run.at \in {"review", "count"}, Gates' = Gates, \A g : After(g)' = After(g),
           Good(Start, Len(log) + 1)' <=> progress
    PROVE  PolicyInv'
<1>1. run'.iterations = Cardinality(Gates') + 1
  BY DEF PolicyInv, Counts
<1>2. CASE progress
  BY <1>1, <1>2 DEF PolicyInv, Counts
<1>3. CASE ~progress
  <2>1. PICK n : n = run.noProgress
    OBVIOUS
  <2>2. Fruitless(n)' /\ n \in Nat
    BY <2>1, FruitlessKept DEF PolicyInv, Counts, LoopInv, RunInv
  <2>3. run'.noProgress = n + 1 /\ n = run'.noProgress - 1 /\ run'.noProgress # 0
    BY <1>3, <2>1, <2>2 DEF Counts
  <2>4. Fruitless(run.noProgress - 1)'
    BY <2>2, <2>3
  <2>5. QED
    BY <1>1, <1>3, <2>3, <2>4 DEF PolicyInv, Counts
<1>4. QED
  BY <1>2, <1>3


\* A repair starts another iteration: what the gate's record adds to the count.
LEMMA RepairKeeps ==
    ASSUME LoopInv, PolicyInv, MinPasses # 0, Repairs
    PROVE  PolicyInv'
<1> DEFINE N == Len(log) + 1
<1>1. PICK n : n = N
  OBVIOUS
<1>2. PICK s : s = Start
  OBVIOUS
<1>3. /\ Len(log) \in Nat /\ DOMAIN log = 1..Len(log) /\ Gates \subseteq 1..Len(log)
      /\ IsFiniteSet(Gates) /\ Cardinality(Gates) \in Nat
      /\ s \in 0..Len(log) /\ n \in Nat /\ n = Len(log) + 1
      /\ \A g : After(g) \subseteq Gates /\ IsFiniteSet(After(g)) /\ Cardinality(After(g)) \in Nat
  BY <1>1, <1>2, Rounds DEF LoopInv
<1>4. PICK e : Adds(e) /\ e.type = "gate"
  BY DEF Repairs
<1>5. /\ Grown /\ Len(log') = n /\ DOMAIN log' = 1..n /\ log'[n].type = "gate"
      /\ \A i \in 1..Len(log) : log'[i] = log[i]
  BY <1>3, <1>4 DEF Adds, Grown
<1>6. \A i \in 1..n : i \in 1..Len(log) \/ i = n
  BY <1>3
<1>7. Gates' = Gates \cup {n}
  <2>1. \A g : g \in Gates' <=> g \in Gates \cup {n}
    BY <1>3, <1>5, <1>6 DEF Gates, Places
  <2>2. QED
    BY <2>1
<1>8. n \notin Gates /\ ~(n < n) /\ \A g \in Gates : g \in 1..n /\ g < n /\ ~(g > n)
  BY <1>3
<1>9. Cardinality(Gates') = Cardinality(Gates) + 1
  BY <1>3, <1>7, <1>8, FS_AddElement
<1>10. ASSUME NEW g \in Gates
       PROVE  Cardinality(After(g)') = Cardinality(After(g)) + 1
  <2>1. After(g)' = After(g) \cup {n}
    BY <1>7, <1>8 DEF After
  <2>2. n \notin After(g)
    BY <1>8 DEF After
  <2>3. QED
    BY <1>3, <2>1, <2>2, FS_AddElement
<1>11. Cardinality(After(n)') = 0
  <2>1. \A g \in Gates' : ~(g > n)
    <3>1. ~(n > n)
      BY <1>3
    <3>2. QED
      BY <3>1, <1>7, <1>8
  <2>2. After(n)' = {}
    BY <2>1 DEF After
  <2>3. QED
    BY <2>2, FS_EmptySet
<1>12. Said' = {} /\ run'.at = "poll"
  <2>1. Gates' \in SUBSET (0..n) /\ n \in Gates'
    <3>1. n \in 0..n /\ \A i \in 1..n : i \in 0..n
      BY <1>3
    <3>2. QED
      BY <3>1, <1>7, <1>8
  <2>2. Start' \in 0..n /\ n <= Start'
    BY <1>3, <2>1, LastPlace DEF Start
  <2>3. \A i \in 1..n : ~(i > Start')
    BY <1>3, <2>2
  <2>4. QED
    BY <1>5, <2>3 DEF Said, Places, Repairs
<1>13. run'.contract = run.contract
  BY DEF Repairs, SameCounts
<1>14. Fruitful(n)' <=> Good(s, n)
  <2>1. {h \in Gates' : h < n} = Gates
    BY <1>7, <1>8
  <2>2. s = LastIn({h \in Gates' : h < n})
    BY <1>2, <2>1 DEF Start
  <2>3. Fruitful(n)' <=> Good(s, n)'
    BY <1>3, <1>5, <2>2, FruitfulThen
  <2>4. Good(s, n) <=> Good(s, n)'
    <3>1. s \in Nat /\ n <= Len(log) + 1 /\ n <= n
      BY <1>3
    <3>2. \A i \in 1..Len(log') : n <= i /\ i < n =>
              log'[i].type # "verdict" /\ ~Mutates(log'[i])
      BY <1>3
    <3>3. QED
      BY <1>3, <1>5, <1>13, <3>1, <3>2, GoodKept
  <2>5. QED
    BY <2>3, <2>4
<1>15. \A g \in Gates : Fruitful(g)' <=> Fruitful(g)
  BY <1>5, <1>13, FruitfulKept
<1>16. Fruitless(run.noProgress)'
  <2>1. PICK k : k = run.noProgress
    OBVIOUS
  <2>2. k = run'.noProgress /\ k \in Nat
    BY <2>1 DEF Repairs, SameCounts, LoopInv, RunInv
  <2>3. CASE Good(s, n)
    <3>1. k = 0
      BY <1>1, <1>2, <2>1, <2>3 DEF PolicyInv, Repairs
    <3>2. k <= Cardinality(Gates')
      BY <1>3, <1>9, <3>1
    <3>3. \A g \in Gates' : k <= Cardinality(After(g)')
      BY <1>3, <1>7, <1>10, <1>11, <3>1
    <3>4. Fruitful(n)' /\ n \in Gates' /\ k = Cardinality(After(n)')
      BY <1>7, <1>11, <1>14, <2>3, <3>1
    <3>5. Fruitless(k)'
      BY <3>2, <3>3, <3>4 DEF Fruitless
    <3>6. QED
      BY <2>2, <3>5
  <2>4. CASE ~Good(s, n)
    <3>1. PICK m : m = k - 1
      OBVIOUS
    <3>2. Fruitless(m) /\ k = m + 1 /\ m \in Nat
      <4>1. k # 0 /\ Fruitless(run.noProgress - 1)
        BY <1>1, <1>2, <2>1, <2>4 DEF PolicyInv, Repairs
      <4>2. QED
        BY <2>1, <2>2, <3>1, <4>1
    <3>3. k <= Cardinality(Gates')
      BY <1>3, <1>9, <3>2 DEF Fruitless
    <3>4. ASSUME NEW g \in Gates', Fruitful(g)'
          PROVE  k <= Cardinality(After(g)')
      <4>1. g \in Gates
        BY <1>7, <1>14, <2>4, <3>4
      <4>2. m <= Cardinality(After(g))
        BY <1>15, <3>2, <3>4, <4>1 DEF Fruitless
      <4>3. QED
        BY <1>3, <1>10, <3>2, <4>1, <4>2
    <3>5. k = Cardinality(Gates') \/ \E g \in Gates' : Fruitful(g)' /\ k = Cardinality(After(g)')
      <4>1. CASE m = Cardinality(Gates)
        BY <1>9, <3>2, <4>1
      <4>2. CASE \E g \in Gates : Fruitful(g) /\ m = Cardinality(After(g))
        BY <1>7, <1>10, <1>15, <3>2, <4>2
      <4>3. QED
        BY <3>2, <4>1, <4>2 DEF Fruitless
    <3>6. Fruitless(k)'
      BY <3>3, <3>4, <3>5 DEF Fruitless
    <3>7. QED
      BY <2>2, <3>6
  <2>5. QED
    BY <2>3, <2>4
<1>17. run'.iterations = Cardinality(Gates')
  BY <1>9 DEF PolicyInv, Repairs, SameCounts
<1>18. QED
  BY <1>12, <1>16, <1>17 DEF PolicyInv

LEMMA PolicyStep ==
    ASSUME MinPasses # 0
    PROVE  LoopInv /\ PolicyInv /\ [Next]_vars => PolicyInv'
<1> SUFFICES ASSUME LoopInv, PolicyInv, [Next]_vars
             PROVE  PolicyInv'
  OBVIOUS
<1>0. /\ Len(log) \in Nat /\ DOMAIN log = 1..Len(log) /\ Start \in 0..Len(log) /\ TimeInv
      /\ run.at \in Stage
  BY Rounds DEF LoopInv, RunInv
<1>1. CASE Quietly
  <2>1. Grown /\ SameCounts /\ log' = log
    BY <1>0, <1>1, SameGrows DEF Quietly
  <2>2. ~\E i \in (Len(log) + 1)..Len(log') : TRUE
    BY <1>0, <2>1
  <2>3. CASE run.at = "complete"
    <3>1. run'.at = "complete"
      BY <1>1, <2>3 DEF Quietly
    <3>2. QED
      BY <2>1, <2>2, <2>3, <3>1, WaitingKeeps
  <2>4. CASE run.at = "ended"
    BY <1>1, <2>4 DEF Quietly, PolicyInv
  <2>5. CASE run.at \notin {"complete", "ended"}
    <3>1. /\ run'.iterations = Cardinality(Gates') /\ Fruitless(run.noProgress)'
          /\ Said' = Said
      <4>1. \A i \in (Len(log) + 1)..Len(log') : log'[i].type \notin {"gate", "verdict"}
        BY <2>2
      <4>2. QED
        BY <2>1, <2>5, <4>1, SameStreak
    <3>3. run'.at \notin {"complete", "ended"}
      BY <1>1, <2>5 DEF Quietly
    <3>4. CASE run.at = "review"
      <4>1. run'.at = "review"
        BY <1>1, <3>4 DEF Quietly
      <4>2. QED
        BY <2>1, <3>1, <3>4, <4>1 DEF PolicyInv
    <3>5. CASE run.at # "review"
      <4>1. Said = {}
        BY <2>5, <3>5 DEF PolicyInv
      <4>2. QED
        BY <3>1, <3>3, <4>1 DEF PolicyInv
    <3>6. QED
      BY <3>4, <3>5
  <2>6. QED
    BY <2>3, <2>4, <2>5
<1>2. CASE Ends
  BY <1>2 DEF Ends, PolicyInv
<1>3. CASE Begins
  <2>1. Len(log) = 0 /\ Gates = {}
    BY <1>3 DEF Begins, Gates, Places
  <2>2. Gates' = {} /\ Said' = {}
    <3>1. CASE log' = log
      BY <1>3, <3>1 DEF Begins, Gates, Said, Places
    <3>2. CASE \E e : Adds(e) /\ e.type = "human"
      <4>1. \A i \in DOMAIN log' : log'[i].type = "human"
        BY <2>1, <3>2 DEF Adds, Grown
      <4>2. QED
        BY <4>1 DEF Gates, Said, Places
    <3>3. QED
      BY <1>3, <3>1, <3>2 DEF Begins
  <2>3. Cardinality(Gates') = 0 /\ Cardinality(Gates) = 0
    BY <2>1, <2>2, FS_EmptySet
  <2>4. run.iterations = 0 /\ run.noProgress = 0
    <3>1. run.iterations = 0 /\ Fruitless(run.noProgress) /\ run.noProgress \in Nat
      BY <1>3, <2>3 DEF Begins, PolicyInv, LoopInv, RunInv
    <3>2. run.noProgress <= 0
      BY <2>3, <3>1 DEF Fruitless
    <3>3. QED
      BY <3>1, <3>2
  <2>5. run'.iterations = 0 /\ run'.noProgress = 0
    BY <1>3, <2>4 DEF Begins
  <2>6. PICK k : k = 0
    OBVIOUS
  <2>7. Fruitless(k)'
    BY <2>2, <2>3, <2>6 DEF Fruitless
  <2>8. Fruitless(run.noProgress)'
    BY <2>5, <2>6, <2>7
  <2>9. run'.at \in {"plan", "poll"}
    BY <1>3 DEF Begins
  <2>10. QED
    BY <2>2, <2>3, <2>5, <2>8, <2>9 DEF PolicyInv
<1>4. ASSUME NEW e, Adds(e)
      PROVE  Grown /\ \A i \in (Len(log) + 1)..Len(log') : i = Len(log) + 1 /\ log'[i] = e
  BY <1>0, <1>4 DEF Adds
<1>5. CASE Works
  <2>1. PICK e : Adds(e) /\ e.type \in {"tool", "evidence"}
    BY <1>5 DEF Works
  <2>2. Grown /\ \A i \in (Len(log) + 1)..Len(log') : log'[i].type \notin {"gate", "verdict"}
    BY <1>4, <2>1
  <2>3. SameCounts /\ run.at = "work" /\ run'.at = "work"
    BY <1>5 DEF Works, SameCounts
  <2>4. /\ run'.iterations = Cardinality(Gates') /\ Fruitless(run.noProgress)' /\ Said' = Said
    BY <2>2, <2>3, SameStreak
  <2>5. Said = {}
    BY <2>3 DEF PolicyInv
  <2>6. QED
    BY <2>3, <2>4, <2>5 DEF PolicyInv
<1>6. CASE Checks
  <2>1. PICK p \in (Len(log) + 1)..Len(log') :
           /\ log'[p].type = "check"
           /\ \A i \in (Len(log) + 1)..Len(log') :
                 /\ i < p => log'[i].type = "tool"
                 /\ i > p => log'[i].type = "transition"
    BY <1>6 DEF Checks, CheckAdds
  <2>2. ASSUME NEW i \in (Len(log) + 1)..Len(log')
        PROVE  log'[i].type \notin {"gate", "verdict"}
    <3>1. i < p \/ i = p \/ i > p
      BY <1>0
    <3>2. QED
      BY <2>1, <3>1
  <2>3. Grown /\ SameCounts /\ run.at = "check" /\ run'.at \in {"check", "count"}
    BY <1>6 DEF Checks
  <2>4. /\ run'.iterations = Cardinality(Gates') /\ Fruitless(run.noProgress)' /\ Said' = Said
    BY <2>2, <2>3, SameStreak
  <2>5. Said = {}
    BY <2>3 DEF PolicyInv
  <2>6. QED
    BY <2>3, <2>4, <2>5 DEF PolicyInv
<1>7. CASE Says
  <2>1. PICK e : Adds(e) /\ e.type = "verdict"
    BY <1>7 DEF Says
  <2>2. Grown /\ \A i \in (Len(log) + 1)..Len(log') : i = Len(log) + 1 /\ log'[i] = e
    BY <1>4, <2>1
  <2>3. SameCounts /\ run.at = "review" /\ run'.at = "review"
    BY <1>7 DEF Says
  <2>4. Gates' = Gates /\ Start' = Start /\ \A g : After(g)' = After(g)
    BY <2>1, <2>2, GatesKept
  <2>5. PICK n : n = run.noProgress
    OBVIOUS
  <2>6. Fruitless(n)' /\ run.iterations = Cardinality(Gates)
    BY <2>2, <2>3, <2>4, <2>5, FruitlessKept DEF PolicyInv, SameCounts
  <2>7. Fruitless(run.noProgress)'
    <3>1. n = run'.noProgress
      BY <2>3, <2>5 DEF SameCounts
    <3>2. QED
      BY <2>6, <3>1
  <2>8. ASSUME NEW i \in 1..Len(log'), NEW v \in Said', Mutates(log'[i])
        PROVE  i < v
    <3>1. i \in 1..Len(log) /\ log'[i] = log[i]
      <4>1. ~Mutates(e)
        BY <2>1 DEF Mutates
      <4>2. i # Len(log) + 1
        BY <2>1, <2>8, <4>1 DEF Adds
      <4>3. QED
        BY <1>0, <2>1, <4>2 DEF Adds, Grown
    <3>2. v \in Said \/ v = Len(log) + 1
      BY <1>0, <2>1, <2>4 DEF Adds, Grown, Said, Places
    <3>3. QED
      BY <1>0, <2>3, <2>8, <3>1, <3>2 DEF PolicyInv
  <2>9. QED
    BY <2>3, <2>4, <2>6, <2>7, <2>8 DEF PolicyInv, SameCounts
<1>8. CASE Reviews
  <2>1. /\ Gates' = Gates /\ Start' = Start /\ \A g : After(g)' = After(g) /\ Grown
        /\ Good(Start, Len(log) + 1)' <=> Approved /\ ~Changed
    BY <1>8, ReviewIsGood
  <2>2. Counts(Approved /\ ~Changed) /\ run.at = "review"
    BY <1>8 DEF Reviews
  <2>3. PICK progress \in BOOLEAN : progress <=> Approved /\ ~Changed
    OBVIOUS
  <2>4. Counts(progress)
    BY <2>2, <2>3 DEF Counts
  <2>5. QED
    BY <2>1, <2>2, <2>3, <2>4, CountingKeeps
<1>9. CASE Stops
  <2>1. log' = log /\ run.at = "count" /\ Counts(FALSE) /\ Grown
    BY <1>0, <1>9, SameGrows DEF Stops
  <2>2. Gates' = Gates /\ Start' = Start /\ \A g : After(g)' = After(g)
    BY <2>1 DEF Gates, Start, After, Places
  <2>3. ~Good(Start, Len(log) + 1)'
    <3>1. Said = {}
      BY <2>1 DEF PolicyInv
    <3>2. {i \in Places(log, "verdict") : Start < i /\ i < Len(log) + 1} = {}
      BY <1>0, <3>1 DEF Said, Places
    <3>3. ~Good(Start, Len(log) + 1)
      BY <3>2, NobodySaid
    <3>4. Good(Start, Len(log) + 1)' <=> Good(Start, Len(log) + 1)
      BY <2>1, <2>2 DEF Good, Counts
    <3>5. QED
      BY <3>3, <3>4
  <2>4. FALSE \in BOOLEAN
    OBVIOUS
  <2>5. QED
    BY <2>1, <2>2, <2>3, <2>4, CountingKeeps
<1>10. CASE Repairs
  BY <1>10, RepairKeeps
<1>11. CASE Meanwhile
  <2>1. PICK e : Adds(e) /\ e.type \in {"human", "manual", "evidence"} /\ ~Mutates(e)
    BY <1>11 DEF Meanwhile
  <2>2. Grown /\ \A i \in (Len(log) + 1)..Len(log') :
           log'[i].type \notin {"gate", "verdict"} /\ ~Mutates(log'[i])
    BY <1>4, <2>1
  <2>3. /\ SameCounts /\ run'.at = run.at
        /\ run.at \in {"work", "check", "review", "complete"}
    BY <1>11 DEF Meanwhile, SameCounts
  <2>4. CASE run.at = "complete"
    BY <2>2, <2>3, <2>4, WaitingKeeps
  <2>5. CASE run.at # "complete"
    <3>1. /\ run'.iterations = Cardinality(Gates') /\ Fruitless(run.noProgress)'
          /\ Said' = Said
      BY <2>2, <2>3, <2>5, SameStreak
    <3>2. ASSUME run.at = "review", NEW i \in 1..Len(log'), NEW v \in Said, Mutates(log'[i])
          PROVE  i < v
      <4>1. i \in 1..Len(log) /\ log'[i] = log[i]
        <5>1. i # Len(log) + 1
          BY <2>1, <3>2 DEF Adds
        <5>2. QED
          BY <1>0, <2>1, <5>1 DEF Adds, Grown
      <4>2. QED
        BY <3>2, <4>1 DEF PolicyInv
    <3>3. QED
      BY <2>3, <2>5, <3>1, <3>2 DEF PolicyInv
  <2>6. QED
    BY <2>4, <2>5
<1>12. QED
  BY <1>1, <1>2, <1>3, <1>5, <1>6, <1>7, <1>8, <1>9, <1>10, <1>11, Moves

LEMMA InitPolicyInv == Init => PolicyInv
<1> SUFFICES ASSUME Init
             PROVE  PolicyInv
  OBVIOUS
<1>1. Gates = {} /\ Said = {} /\ run.at = "begin" /\ run.iterations = 0 /\ run.noProgress = 0
  BY DEF Init, Gates, Said, Places
<1>2. Cardinality(Gates) = 0
  BY <1>1, FS_EmptySet
<1>3. QED
  BY <1>1, <1>2 DEF PolicyInv, Fruitless

\* Only a poll goes on to work or ends the loop without an error.
LEMMA PollDecides ==
    ASSUME LoopInv, CountInv, Next, run.at = "poll", run'.at \in {"work", "ended"},
           run'.result # "raised"
    PROVE  run'.at = "work" <=>
              /\ run.iterations < run.contract.stop.iterations
              /\ ~Reached(run.noProgress, run.contract.stop.noProgress)
<1> DEFINE stop == run.contract.stop
<1>1. /\ run.contract \in Contract \cup {NoContract} /\ run.iterations \in Nat
      /\ run.noProgress \in Nat /\ run.failed = 0
  BY DEF LoopInv, RunInv, CountInv
<1>2. stop.iterations \in Nat \ {0} /\ stop.failed \in Nat
  BY <1>1, LoopAssumption DEF NoContract
<1>3. ShouldStop(stop, run) = "PASS" <=>
         run.iterations < stop.iterations /\ ~Reached(run.noProgress, stop.noProgress)
  BY <1>1, <1>2 DEF ShouldStop, Reached
<1>4. ~Raise /\ ~People /\ ~Drift
  BY DEF Raise, Decide, People, DecideStage, RecordEvidence, RecordManual, PeopleMay, Drift
<1>5. Poll
  BY <1>4 DEF Next, Step, PlanGate, WorkReturns, BeginReview, EndReview, EndStep, Complete,
              Review, Check, Act, WorkRefused, StartLoop, Bind
<1>6. CASE ShouldStop(stop, run) = "PASS"
  <2>1. Goto("work")
    BY <1>5, <1>6 DEF Poll, PollWith
  <2>2. run'.at = "work"
    BY <2>1 DEF Goto, LoopInv, RunInv
  <2>3. QED
    BY <1>3, <1>6, <2>2
<1>7. CASE ShouldStop(stop, run) # "PASS"
  <2>1. Decide(ShouldStop(stop, run))
    BY <1>5, <1>7 DEF Poll, PollWith
  <2>2. run'.at = "ended"
    BY <2>1 DEF Decide
  <2>3. QED
    BY <1>3, <1>7, <2>2
<1>8. QED
  BY <1>6, <1>7

\* For any contracts, verifiers, edits and people, when a review asks for at
\* least one pass: the loop goes on exactly when the record shows fewer
\* iterations than the ceiling, and one with progress among the last few
\* (run_bounded_loop, should_stop).
THEOREM KeepsToPolicy ==
    ASSUME MinPasses # 0
    PROVE  Spec => LoopKeepsToPolicy
<1> DEFINE A == LET stop == run.contract.stop
                IN  run.at = "poll" /\ run'.at \in {"work", "ended"} /\ run'.result # "raised" =>
                      (run'.at = "work" <=>
                         /\ Cardinality(Gates) < stop.iterations
                         /\ \/ ~Reached(Cardinality(Gates), stop.noProgress)
                            \/ \E g \in Gates :
                                 /\ Fruitful(g)
                                 /\ Cardinality({h \in Gates : h > g}) < stop.noProgress)
<1>1. LoopInv /\ CountInv /\ PolicyInv /\ [Next]_vars => [A]_vars
  <2> SUFFICES ASSUME LoopInv, CountInv, PolicyInv, Next, run.at = "poll",
                      run'.at \in {"work", "ended"}, run'.result # "raised"
               PROVE  A
    OBVIOUS
  <2> DEFINE stop == run.contract.stop
             n == run.noProgress
  <2>1. run'.at = "work" <=>
           run.iterations < stop.iterations /\ ~Reached(n, stop.noProgress)
    BY PollDecides
  <2>2. run.iterations = Cardinality(Gates) /\ Fruitless(n)
    BY DEF PolicyInv
  <2>3. /\ n \in Nat /\ Cardinality(Gates) \in Nat /\ \A g : Cardinality(After(g)) \in Nat
        /\ stop.noProgress \in Nat
    <3>1. stop.noProgress \in Nat
      BY LoopAssumption DEF LoopInv, RunInv, NoContract
    <3>2. QED
      BY <3>1, Rounds DEF LoopInv, RunInv
  <2>4. ~Reached(n, stop.noProgress) <=>
           \/ ~Reached(Cardinality(Gates), stop.noProgress)
           \/ \E g \in Gates : Fruitful(g) /\ Cardinality(After(g)) < stop.noProgress
    <3>1. CASE stop.noProgress = 0
      BY <2>3, <3>1 DEF Reached
    <3>2. CASE stop.noProgress # 0
      <4>1. \A m \in Nat : ~Reached(m, stop.noProgress) <=> m < stop.noProgress
        BY <2>3, <3>2 DEF Reached
      <4>2. ASSUME n < stop.noProgress
            PROVE  \/ Cardinality(Gates) < stop.noProgress
                   \/ \E g \in Gates : Fruitful(g) /\ Cardinality(After(g)) < stop.noProgress
        BY <2>2, <4>2 DEF Fruitless
      <4>3. ASSUME \/ Cardinality(Gates) < stop.noProgress
                   \/ \E g \in Gates : Fruitful(g) /\ Cardinality(After(g)) < stop.noProgress
            PROVE  n < stop.noProgress
        BY <2>2, <2>3, <4>3 DEF Fruitless
      <4>4. QED
        BY <2>3, <4>1, <4>2, <4>3
    <3>3. QED
      BY <3>1, <3>2
  <2>5. QED
    BY <2>1, <2>2, <2>4 DEF After
<1>2. Init => LoopInv /\ CountInv /\ PolicyInv
  BY InitLoopInv, InitCountInv, InitPolicyInv
<1>3. LoopInv /\ CountInv /\ PolicyInv /\ [Next]_vars => (LoopInv /\ CountInv /\ PolicyInv)'
  BY NextKeepsLoopInv, CountStep, PolicyStep
<1>4. QED
  BY <1>1, <1>2, <1>3, PTL DEF Spec, LoopKeepsToPolicy


-----------------------------------------------------------------------------
(* What an iteration leaves for its gate.                                  *)

\* The verifiers speak once each, in their order, after the checks.
SaidInv ==
    /\ \A i \in Places(log, "verdict") : log[i].verifier \in Range(Verifier)
    /\ run.at \notin {"review", "complete"} => Said = {}
    /\ \A i \in Places(log, "check"), v \in Said : i < v
    /\ IsInjective(Verifier) =>
          \A i, j \in Said : log[i].verifier = log[j].verifier => i = j
    /\ run.at = "review" =>
          run.k # 0 /\ \A i \in Said : \E j \in 1..(run.k - 1) : log[i].verifier = Verifier[j]

\* A result that passed comes right after its command or the change that this
\* made, and an iteration's results are of different requirements.
RanInv ==
    /\ \A i \in Places(log, "check") : log[i].status = "pass" =>
          i > 1 /\ IF log[i].own = 0 THEN log[i].tool = i - 1
                   ELSE log[i - 1].type = "tool" /\ log[i - 1].mutates
    /\ run.at \notin {"check", "review", "count", "complete"} =>
          \A i \in Places(log, "check") : i <= Start
    /\ run.at = "check" =>
          \A i \in Places(log, "check") : i > Start =>
              \E m \in 1..(run.k - 1) : log[i].req = run.contract.checks[m]

\* A block stands for what keeps this iteration from being clean: a result that
\* did not pass, or a change during its review.
Unclean(t) ==
    /\ log[t].state = "blocked"
    /\ \/ \E i \in Places(log, "check") :
             /\ i > Start /\ log[i].status # "pass"
             /\ \A j \in Places(log, "check") : log[j].req = log[i].req => j <= i
       \/ /\ run.at = "complete"
          /\ \E i \in 1..Len(log) : Mutates(log[i]) /\ \A j \in Places(log, "check") : j < i

BlockInv == Structured(run.contract) => \A t \in Places(log, "transition") : Unclean(t)

CleanInv == SaidInv /\ RanInv /\ BlockInv

LEMMA PlacesKept ==
    ASSUME Grown, NEW type, \A i \in (Len(log) + 1)..Len(log') : log'[i].type # type
    PROVE  /\ Places(log', type) = Places(log, type)
           /\ \A i \in Places(log, type) : i \in 1..Len(log) /\ log'[i] = log[i]
<1>1. \A i \in 1..Len(log') : i \in 1..Len(log) \/ i \in (Len(log) + 1)..Len(log')
  BY DEF Grown
<1>2. \A i : i \in Places(log', type) <=> i \in Places(log, type)
  BY <1>1 DEF Grown, Places
<1>3. QED
  BY <1>2 DEF Grown, Places

\* Where a result that passed stands stays so.
LEMMA PassedKept ==
    ASSUME Grown, CleanInv, NEW i \in Places(log, "check"), log'[i].status = "pass"
    PROVE  i > 1 /\ IF log'[i].own = 0 THEN log'[i].tool = i - 1
                    ELSE log'[i - 1].type = "tool" /\ log'[i - 1].mutates
<1>1. i \in 1..Len(log) /\ log'[i] = log[i] /\ Len(log) \in Nat
  BY DEF Grown, Places
<1>2. i > 1 /\ IF log[i].own = 0 THEN log[i].tool = i - 1
               ELSE log[i - 1].type = "tool" /\ log[i - 1].mutates
  BY <1>1 DEF CleanInv, RanInv
<1>3. log'[i - 1] = log[i - 1]
  <2>1. i - 1 \in 1..Len(log)
    BY <1>1, <1>2
  <2>2. QED
    BY <2>1 DEF Grown
<1>4. QED
  BY <1>1, <1>2, <1>3

\* A log without verdicts, checks and blocks.
LEMMA NothingYet ==
    ASSUME Places(log, "verdict") = {}, Places(log, "check") = {},
           Places(log, "transition") = {}, run.at # "review"
    PROVE  CleanInv
<1>1. Said = {}
  BY DEF Said
<1>2. QED
  BY <1>1 DEF CleanInv, SaidInv, RanInv, BlockInv

\* Rows that are none of these change nothing of it.
LEMMA OthersKeep ==
    ASSUME LoopInv, CleanInv, Grown, run'.contract = run.contract,
           \A i \in (Len(log) + 1)..Len(log') :
               log'[i].type \notin {"gate", "verdict", "check", "transition"},
           \/ run'.at = run.at /\ run'.k = run.k
           \/ <<run.at, run'.at>> \in {<<"plan", "poll">>, <<"poll", "work">>,
                                       <<"work", "check">>, <<"count", "complete">>,
                                       <<"review", "complete">>}
           \/ run.at = "check" /\ run'.at = "review" /\ run'.k = 1
    PROVE  CleanInv'
<1>1. Start' = Start
  BY GatesKept
<1>2. Said' = Said
  BY <1>1, SaidKept
<1>3. /\ Places(log', "verdict") = Places(log, "verdict")
      /\ Places(log', "check") = Places(log, "check")
      /\ Places(log', "transition") = Places(log, "transition")
      /\ \A i \in Places(log, "verdict") \cup Places(log, "check") \cup Places(log, "transition") :
            i \in 1..Len(log) /\ log'[i] = log[i]
  BY PlacesKept
<1>4. Said \subseteq Places(log, "verdict")
  BY DEF Said
<1>5. Len(log) \in Nat /\ Len(log') \in Nat /\ Len(log) <= Len(log')
  BY DEF Grown
<1>6. SaidInv'
  <2>1. \A i \in Places(log', "verdict") : log'[i].verifier \in Range(Verifier)
    BY <1>3 DEF CleanInv, SaidInv
  <2>2. run'.at \notin {"review", "complete"} => Said' = {}
    BY <1>2 DEF CleanInv, SaidInv
  <2>3. \A i \in Places(log', "check"), v \in Said' : i < v
    BY <1>2, <1>3 DEF CleanInv, SaidInv
  <2>4. IsInjective(Verifier) =>
           \A i, j \in Said' : log'[i].verifier = log'[j].verifier => i = j
    BY <1>2, <1>3, <1>4 DEF CleanInv, SaidInv
  <2>5. ASSUME run'.at = "review"
        PROVE  /\ run'.k # 0
               /\ \A i \in Said' : \E j \in 1..(run'.k - 1) : log'[i].verifier = Verifier[j]
    <3>1. CASE run.at = "review"
      BY <1>2, <1>3, <1>4, <2>5, <3>1 DEF CleanInv, SaidInv
    <3>2. CASE run.at = "check"
      BY <1>2, <2>5, <3>2 DEF CleanInv, SaidInv
    <3>3. QED
      BY <2>5, <3>1, <3>2
  <2>6. QED
    BY <2>1, <2>2, <2>3, <2>4, <2>5 DEF SaidInv
<1>7. RanInv'
  <2>1. \A i \in Places(log', "check") : log'[i].status = "pass" =>
           i > 1 /\ IF log'[i].own = 0 THEN log'[i].tool = i - 1
                    ELSE log'[i - 1].type = "tool" /\ log'[i - 1].mutates
    BY <1>3, PassedKept
  <2>2. run'.at \notin {"check", "review", "count", "complete"} =>
           \A i \in Places(log', "check") : i <= Start'
    BY <1>1, <1>3 DEF CleanInv, RanInv
  <2>3. ASSUME run'.at = "check"
        PROVE  \A i \in Places(log', "check") : i > Start' =>
                  \E m \in 1..(run'.k - 1) : log'[i].req = run'.contract.checks[m]
    <3>1. CASE run.at = "check" /\ run'.k = run.k
      BY <1>1, <1>3, <3>1 DEF CleanInv, RanInv
    <3>2. CASE run.at = "work"
      <4>1. \A i \in Places(log, "check") : i <= Start
        BY <3>2 DEF CleanInv, RanInv
      <4>2. Start \in Nat
        BY Rounds DEF LoopInv
      <4>3. \A i \in Places(log, "check") : ~(i > Start)
        BY <1>3, <1>5, <4>1, <4>2
      <4>4. QED
        BY <1>1, <1>3, <4>3
    <3>3. QED
      BY <2>3, <3>1, <3>2
  <2>4. QED
    BY <2>1, <2>2, <2>3 DEF RanInv
<1>8. BlockInv'
  <2> SUFFICES ASSUME Structured(run.contract)', NEW t \in Places(log', "transition")
               PROVE  Unclean(t)'
    BY DEF BlockInv
  <2>1. t \in Places(log, "transition") /\ log'[t] = log[t] /\ Unclean(t)
    BY <1>3 DEF CleanInv, BlockInv, Structured, Executed
  <2>2. CASE \E i \in Places(log, "check") :
                /\ i > Start /\ log[i].status # "pass"
                /\ \A j \in Places(log, "check") : log[j].req = log[i].req => j <= i
    BY <1>1, <1>3, <2>1, <2>2 DEF Unclean
  <2>3. CASE /\ run.at = "complete"
             /\ \E i \in 1..Len(log) :
                   Mutates(log[i]) /\ \A j \in Places(log, "check") : j < i
    <3>1. run'.at = "complete"
      BY <2>3
    <3>2. \A i \in 1..Len(log) : i \in 1..Len(log') /\ log'[i] = log[i]
      BY DEF Grown
    <3>3. QED
      BY <1>3, <2>1, <2>3, <3>1, <3>2 DEF Unclean
  <2>4. QED
    BY <2>1, <2>2, <2>3 DEF Unclean
<1>9. QED
  BY <1>6, <1>7, <1>8 DEF CleanInv

\* A verifier's word, after those of the verifiers before it.
LEMMA SayingKeeps ==
    ASSUME LoopInv, CleanInv, Says
    PROVE  CleanInv'
<1> DEFINE n == Len(log) + 1
<1>1. /\ Len(log) \in Nat /\ DOMAIN log = 1..Len(log) /\ Start \in 0..Len(log)
      /\ run.k \in Nat /\ Len(Verifier) \in Nat /\ DOMAIN Verifier = 1..Len(Verifier)
  BY Rounds, LoopAssumption DEF LoopInv, RunInv
<1>2. PICK e : Adds(e) /\ e.type = "verdict" /\ e.verifier = Verifier[run.k]
  BY DEF Says
<1>3. /\ Grown /\ Len(log') = n /\ log'[n].type = "verdict" /\ log'[n].verifier = Verifier[run.k]
      /\ \A i \in (Len(log) + 1)..Len(log') : log'[i].type = "verdict"
  BY <1>1, <1>2 DEF Adds
<1>4. Start' = Start
  BY <1>3, GatesKept
<1>5. /\ Places(log', "check") = Places(log, "check")
      /\ Places(log', "transition") = Places(log, "transition")
      /\ \A i \in Places(log, "check") \cup Places(log, "transition") :
            i \in 1..Len(log) /\ log'[i] = log[i]
  BY <1>3, PlacesKept
<1>6. \A i \in Places(log', "verdict") : \/ i \in Places(log, "verdict") /\ log'[i] = log[i]
                                        \/ i = n
  BY <1>1, <1>3 DEF Grown, Places
<1>7. \A i \in Said' : \/ i \in Said /\ log'[i] = log[i] /\ i \in 1..Len(log)
                   \/ i = n
  BY <1>1, <1>3, <1>4 DEF Grown, Said, Places
<1>8. /\ run.at = "review" /\ run'.at = "review" /\ run'.k = run.k + 1 /\ run'.contract = run.contract
      /\ run.k \in 1..Len(Verifier)
  BY <1>1 DEF Says, SameCounts, CleanInv, SaidInv
<1>9. \A i \in Said : \E j \in 1..(run.k - 1) : log[i].verifier = Verifier[j]
  BY <1>8 DEF CleanInv, SaidInv
<1>10. SaidInv'
  <2>1. \A i \in Places(log', "verdict") : log'[i].verifier \in Range(Verifier)
    <3>1. Verifier[run.k] \in Range(Verifier)
      BY <1>1, <1>8 DEF Range
    <3>2. QED
      BY <1>3, <1>6, <3>1 DEF CleanInv, SaidInv
  <2>2. \A i \in Places(log', "check"), v \in Said' : i < v
    <3>1. ASSUME NEW i \in Places(log, "check"), NEW v \in Said'
          PROVE  i < v
      <4>1. i < n
        BY <1>1, <1>5
      <4>2. QED
        BY <1>7, <4>1 DEF CleanInv, SaidInv
    <3>2. QED
      BY <1>5, <3>1
  <2>3. ASSUME IsInjective(Verifier), NEW i \in Said', NEW j \in Said',
               log'[i].verifier = log'[j].verifier
        PROVE  i = j
    <3>1. ASSUME NEW h \in Said
          PROVE  log[h].verifier # Verifier[run.k]
      <4>1. PICK m \in 1..(run.k - 1) : log[h].verifier = Verifier[m]
        BY <1>9
      <4>2. m \in DOMAIN Verifier /\ run.k \in DOMAIN Verifier /\ m # run.k
        BY <1>1, <1>8
      <4>3. QED
        BY <2>3, <4>1, <4>2 DEF IsInjective
    <3>2. CASE i \in Said /\ j \in Said /\ log'[i] = log[i] /\ log'[j] = log[j]
      BY <2>3, <3>2 DEF CleanInv, SaidInv
    <3>3. QED
      BY <1>3, <1>7, <2>3, <3>1, <3>2
  <2>4. ASSUME NEW i \in Said'
        PROVE  \E j \in 1..(run'.k - 1) : log'[i].verifier = Verifier[j]
    <3>1. \A j \in 1..(run.k - 1) : j \in 1..(run'.k - 1)
      BY <1>1, <1>8
    <3>2. run.k \in 1..(run'.k - 1)
      BY <1>1, <1>8
    <3>3. QED
      BY <1>3, <1>7, <1>9, <3>1, <3>2
  <2>5. run'.k # 0
    BY <1>1, <1>8
  <2>6. QED
    BY <1>8, <2>1, <2>2, <2>3, <2>4, <2>5 DEF SaidInv
<1>11. RanInv'
  <2>1. \A i \in Places(log', "check") : log'[i].status = "pass" =>
           i > 1 /\ IF log'[i].own = 0 THEN log'[i].tool = i - 1
                    ELSE log'[i - 1].type = "tool" /\ log'[i - 1].mutates
    BY <1>3, <1>5, PassedKept
  <2>2. QED
    BY <1>8, <2>1 DEF RanInv
<1>12. BlockInv'
  <2> SUFFICES ASSUME Structured(run.contract)', NEW t \in Places(log', "transition")
               PROVE  Unclean(t)'
    BY DEF BlockInv
  <2>1. t \in Places(log, "transition") /\ log'[t] = log[t] /\ Unclean(t)
    BY <1>5, <1>8 DEF CleanInv, BlockInv, Structured, Executed
  <2>2. \E i \in Places(log, "check") :
                /\ i > Start /\ log[i].status # "pass"
                /\ \A j \in Places(log, "check") : log[j].req = log[i].req => j <= i
    BY <1>8, <2>1 DEF Unclean
  <2>3. QED
    BY <1>4, <1>5, <2>1, <2>2 DEF Unclean
<1>13. QED
  BY <1>10, <1>11, <1>12 DEF CleanInv

\* A check, which no earlier one of the iteration was for.
LEMMA CheckingKeeps ==
    ASSUME LoopInv, CleanInv, Checks
    PROVE  CleanInv'
<1>1. /\ Len(log) \in Nat /\ DOMAIN log = 1..Len(log) /\ Start \in 0..Len(log)
      /\ run.k \in Nat \ {0} /\ Grown
      /\ Len(log') \in Nat /\ DOMAIN log' = 1..Len(log')
  BY Rounds DEF LoopInv, RunInv, Checks, Grown
<1>2. /\ run.contract \in Contract
      /\ DOMAIN run.contract.checks = 1..Len(run.contract.checks)
      /\ IsInjective(run.contract.checks) /\ run.k \in DOMAIN run.contract.checks
  <2>1. run.contract # NoContract
    <3>1. SUFFICES ASSUME run.contract = NoContract
                   PROVE  FALSE
      OBVIOUS
    <3>2. Len(run.contract.checks) = 0
      BY <3>1 DEF NoContract
    <3>3. QED
      BY <1>1, <3>2 DEF Checks
  <2>2. run.contract \in Contract
    BY <2>1 DEF LoopInv, RunInv
  <2>3. run.contract.checks \in Seq(Executed(run.contract)) /\ IsInjective(run.contract.checks)
    BY <2>2, LoopAssumption
  <2>4. QED
    BY <1>1, <2>2, <2>3 DEF Checks
<1>3. PICK p \in (Len(log) + 1)..Len(log') :
        /\ log'[p].type = "check" /\ log'[p].req = run.contract.checks[run.k]
        /\ \A i \in (Len(log) + 1)..Len(log') :
              /\ i < p => log'[i].type = "tool"
              /\ i > p => log'[i].type = "transition" /\ log'[i].state = "blocked"
        /\ p < Len(log') => log'[p].status # "pass"
        /\ log'[p].status = "pass" =>
              p > Len(log) + 1 /\ IF log'[p].own = 0 THEN log'[p].tool = p - 1
                                  ELSE log'[p - 1].mutates
  BY DEF Checks, CheckAdds
<1>4. /\ run.at = "check" /\ run'.contract = run.contract
      /\ \/ run'.at = "count"
         \/ run'.at = "check" /\ run'.k = run.k + 1
  BY DEF Checks, SameCounts
<1>5. \A i \in (Len(log) + 1)..Len(log') : i < p \/ i = p \/ i > p
  BY <1>1
<1>6. \A i \in (Len(log) + 1)..Len(log') : log'[i].type \notin {"gate", "verdict"}
  BY <1>3, <1>5
<1>7. Start' = Start /\ Said' = {} /\ Places(log', "verdict") = Places(log, "verdict")
      /\ \A i \in Places(log, "verdict") : log'[i] = log[i]
  <2>1. Start' = Start
    BY <1>1, <1>6, GatesKept
  <2>2. Said' = Said
    BY <1>1, <1>6, <2>1, SaidKept
  <2>3. Said = {}
    BY <1>4 DEF CleanInv, SaidInv
  <2>4. QED
    BY <1>1, <1>6, <2>1, <2>2, <2>3, PlacesKept
<1>8. \A i \in 1..Len(log') : \/ i \in 1..Len(log) /\ log'[i] = log[i]
                             \/ i \in (Len(log) + 1)..Len(log')
  BY <1>1 DEF Grown
<1>9. \A i \in Places(log', "check") :
         \/ i \in Places(log, "check") /\ i \in 1..Len(log) /\ log'[i] = log[i]
         \/ i = p
  BY <1>1, <1>3, <1>5, <1>8 DEF Places
<1>10. SaidInv'
  <2>1. \A i \in Places(log', "verdict") : log'[i].verifier \in Range(Verifier)
    BY <1>7 DEF CleanInv, SaidInv
  <2>2. run'.at # "review"
    BY <1>4
  <2>3. QED
    BY <1>7, <2>1, <2>2 DEF SaidInv
<1>11. ASSUME NEW i \in Places(log, "check"), i > Start
       PROVE  \E m \in 1..(run.k - 1) : log[i].req = run.contract.checks[m]
  BY <1>4, <1>11 DEF CleanInv, RanInv
<1>12. RanInv'
  <2>1. ASSUME NEW i \in Places(log', "check"), log'[i].status = "pass"
        PROVE  i > 1 /\ IF log'[i].own = 0 THEN log'[i].tool = i - 1
                        ELSE log'[i - 1].type = "tool" /\ log'[i - 1].mutates
    <3>1. CASE i \in Places(log, "check")
      BY <1>1, <2>1, <3>1, PassedKept
    <3>2. CASE i = p
      <4>1. p > Len(log) + 1 /\ IF log'[p].own = 0 THEN log'[p].tool = p - 1
                                ELSE log'[p - 1].mutates
        BY <1>3, <2>1, <3>2
      <4>2. p - 1 \in (Len(log) + 1)..Len(log') /\ p - 1 < p /\ p > 1
        BY <1>1, <4>1
      <4>3. log'[p - 1].type = "tool"
        BY <1>3, <4>2
      <4>4. QED
        BY <3>2, <4>1, <4>2, <4>3
    <3>3. QED
      BY <1>9, <3>1, <3>2
  <2>2. ASSUME run'.at = "check", NEW i \in Places(log', "check"), i > Start'
        PROVE  \E m \in 1..(run'.k - 1) : log'[i].req = run'.contract.checks[m]
    <3>1. run'.k = run.k + 1
      BY <1>4, <2>2
    <3>2. CASE i = p
      <4>1. run.k \in 1..(run'.k - 1)
        BY <1>1, <3>1
      <4>2. QED
        BY <1>3, <1>4, <3>2, <4>1
    <3>3. CASE i \in Places(log, "check") /\ log'[i] = log[i]
      <4>1. PICK m \in 1..(run.k - 1) : log[i].req = run.contract.checks[m]
        BY <1>7, <1>11, <2>2, <3>3
      <4>2. m \in 1..(run'.k - 1)
        BY <1>1, <3>1
      <4>3. QED
        BY <1>4, <3>3, <4>1, <4>2
    <3>4. QED
      BY <1>9, <3>2, <3>3
  <2>3. QED
    BY <1>4, <2>1, <2>2 DEF RanInv
<1>13. BlockInv'
  <2> SUFFICES ASSUME Structured(run.contract)', NEW t \in Places(log', "transition")
               PROVE  Unclean(t)'
    BY DEF BlockInv
  <2>1. CASE t \in 1..Len(log) /\ log'[t] = log[t]
    <3>1. t \in Places(log, "transition")
      BY <1>1, <2>1 DEF Places
    <3>2. Unclean(t)
      BY <1>4, <3>1 DEF CleanInv, BlockInv, Structured, Executed
    <3>3. PICK i \in Places(log, "check") :
             /\ i > Start /\ log[i].status # "pass"
             /\ \A j \in Places(log, "check") : log[j].req = log[i].req => j <= i
      BY <1>4, <3>2 DEF Unclean
    <3>4. i \in Places(log', "check") /\ log'[i] = log[i]
      BY <1>1 DEF Places, Grown
    <3>5. log'[p].req # log[i].req
      <4>1. PICK m \in 1..(run.k - 1) : log[i].req = run.contract.checks[m]
        BY <1>11, <3>3
      <4>2. m \in DOMAIN run.contract.checks /\ m # run.k
        BY <1>1, <1>2
      <4>3. QED
        BY <1>2, <1>3, <4>1, <4>2 DEF IsInjective
    <3>6. \A j \in Places(log', "check") : log'[j].req = log'[i].req => j <= i
      BY <1>9, <3>3, <3>4, <3>5
    <3>7. QED
      BY <1>7, <2>1, <3>2, <3>3, <3>4, <3>6 DEF Unclean
  <2>2. CASE t \in (Len(log) + 1)..Len(log')
    <3>1. log'[t].type = "transition"
      BY DEF Places
    <3>2. t > p /\ log'[t].state = "blocked"
      BY <1>3, <1>5, <2>2, <3>1
    <3>3. log'[p].status # "pass" /\ p > Start'
      BY <1>1, <1>3, <1>7, <2>2, <3>2
    <3>4. p \in Places(log', "check")
      BY <1>1, <1>3 DEF Places
    <3>5. \A j \in Places(log', "check") : j <= p
      BY <1>1, <1>9
    <3>6. QED
      BY <3>2, <3>3, <3>4, <3>5 DEF Unclean
  <2>3. QED
    BY <1>1, <1>8, <2>1, <2>2 DEF Places
<1>14. QED
  BY <1>10, <1>12, <1>13 DEF CleanInv

\* A change that was found after the review.
LEMMA FindingKeeps ==
    ASSUME LoopInv, CleanInv, Reviews, Changed
    PROVE  CleanInv'
<1> DEFINE n == Len(log) + 1
<1>1. /\ Grown /\ Len(log') = Len(log) + 2 /\ Len(log) \in Nat
      /\ DOMAIN log' = 1..Len(log')
      /\ log'[n] = [type |-> "tool", mutates |-> TRUE]
      /\ log'[Len(log) + 2] = [type |-> "transition", state |-> "blocked"]
  BY DEF Reviews, Grown
<1>2. /\ run.at = "review" /\ run'.at = "complete" /\ run'.contract = run.contract
  BY DEF Reviews, Counts
<1>3. \A i \in n..Len(log') : log'[i].type \in {"tool", "transition"}
  <2>1. \A i \in n..Len(log') : i = n \/ i = Len(log) + 2
    BY <1>1
  <2>2. QED
    BY <1>1, <2>1
<1>4. Start' = Start
  BY <1>1, <1>3, GatesKept
<1>5. Said' = Said
  BY <1>1, <1>3, <1>4, SaidKept
<1>6. /\ Places(log', "verdict") = Places(log, "verdict")
      /\ Places(log', "check") = Places(log, "check")
      /\ \A i \in Places(log, "verdict") \cup Places(log, "check") :
            i \in 1..Len(log) /\ log'[i] = log[i]
  BY <1>1, <1>3, PlacesKept
<1>7. SaidInv'
  <2>1. \A i \in Said : log'[i] = log[i]
    BY <1>6 DEF Said
  <2>2. QED
    BY <1>2, <1>5, <1>6, <2>1 DEF CleanInv, SaidInv
<1>8. RanInv'
  <2>1. \A i \in Places(log', "check") : log'[i].status = "pass" =>
           i > 1 /\ IF log'[i].own = 0 THEN log'[i].tool = i - 1
                    ELSE log'[i - 1].type = "tool" /\ log'[i - 1].mutates
    BY <1>1, <1>6, PassedKept
  <2>2. QED
    BY <1>2, <2>1 DEF RanInv
<1>9. BlockInv'
  <2> SUFFICES ASSUME Structured(run.contract)', NEW t \in Places(log', "transition")
               PROVE  Unclean(t)'
    BY DEF BlockInv
  <2>1. log'[t].state = "blocked"
    <3>1. CASE t \in 1..Len(log) /\ log'[t] = log[t]
      <4>1. t \in Places(log, "transition")
        BY <1>1, <3>1 DEF Places, Grown
      <4>2. Unclean(t)
        BY <1>2, <4>1 DEF CleanInv, BlockInv, Structured, Executed
      <4>3. QED
        BY <3>1, <4>2 DEF Unclean
    <3>2. CASE t \in n..Len(log')
      <4>1. log'[t].type = "transition" /\ (t = n \/ t = Len(log) + 2)
        BY <1>1, <3>2 DEF Places
      <4>2. QED
        BY <1>1, <4>1
    <3>3. QED
      BY <1>1, <3>1, <3>2 DEF Places, Grown
  <2>2. n \in 1..Len(log') /\ Mutates(log'[n])
    BY <1>1 DEF Mutates
  <2>3. \A j \in Places(log', "check") : j < n
    BY <1>1, <1>6
  <2>4. QED
    BY <1>2, <2>1, <2>2, <2>3 DEF Unclean
<1>10. QED
  BY <1>7, <1>8, <1>9 DEF CleanInv

\* A repair: nothing is left of the iteration, and no block lets it happen.
LEMMA RepairingKeeps ==
    ASSUME LoopInv, CleanInv, Repairs
    PROVE  CleanInv'
<1> DEFINE n == Len(log) + 1
<1>1. PICK e : Adds(e) /\ e.type = "gate"
  BY DEF Repairs
<1>2. /\ Grown /\ Len(log') = n /\ Len(log) \in Nat /\ DOMAIN log' = 1..n
      /\ log'[n].type = "gate" /\ \A i \in n..Len(log') : log'[i].type = "gate"
  BY <1>1 DEF Adds, Grown
<1>3. run'.at = "poll" /\ run'.contract = run.contract
  BY DEF Repairs, SameCounts
<1>4. Start' \in Nat /\ n <= Start'
  <2>1. n \in Gates'
    BY <1>2 DEF Gates, Places
  <2>2. PICK m : m = n
    OBVIOUS
  <2>3. m \in Nat /\ Gates' \in SUBSET (0..m)
    BY <1>2, <2>2 DEF Gates, Places
  <2>4. PICK G : G = Gates'
    OBVIOUS
  <2>5. LastIn(G) \in 0..m /\ \A g \in G : g <= LastIn(G)
    BY <2>3, <2>4, LastPlace
  <2>6. QED
    BY <1>2, <2>1, <2>4, <2>5 DEF Start
<1>5. \A i \in 1..Len(log') : i <= Start' /\ ~(i > Start')
  BY <1>2, <1>4
<1>6. Said' = {}
  BY <1>2, <1>5 DEF Said, Places
<1>7. /\ Places(log', "verdict") = Places(log, "verdict")
      /\ Places(log', "check") = Places(log, "check")
      /\ Places(log', "transition") = Places(log, "transition")
      /\ \A i \in Places(log, "verdict") : log'[i] = log[i]
  BY <1>2, PlacesKept
<1>8. SaidInv'
  BY <1>3, <1>6, <1>7 DEF CleanInv, SaidInv
<1>9. RanInv'
  <2>1. \A i \in Places(log', "check") : log'[i].status = "pass" =>
           i > 1 /\ IF log'[i].own = 0 THEN log'[i].tool = i - 1
                    ELSE log'[i - 1].type = "tool" /\ log'[i - 1].mutates
    BY <1>2, <1>7, PassedKept
  <2>2. \A i \in Places(log', "check") : i <= Start'
    BY <1>2, <1>5 DEF Places
  <2>3. QED
    BY <1>3, <2>1, <2>2 DEF RanInv
<1>10. BlockInv'
  <2> SUFFICES ASSUME Structured(run.contract)', NEW t \in Places(log', "transition")
               PROVE  FALSE
    BY DEF BlockInv
  <2> DEFINE S == Places(log, "transition")
             c == run.contract
  <2>1. Structured(c) /\ t \in S /\ \A i \in S : log[i].state = "blocked"
    BY <1>3, <1>7 DEF CleanInv, BlockInv, Unclean, Structured, Executed
  <2>2. LastIn(S) \in S
    <3>1. S \in SUBSET (0..Len(log)) /\ \A i \in S : i \in 1..Len(log)
      BY <1>2 DEF Places, Grown
    <3>2. LastIn(S) \in S \cup {0} /\ t <= LastIn(S)
      BY <1>2, <2>1, <3>1, LastPlace
    <3>3. LastIn(S) # 0
      BY <2>1, <3>1, <3>2
    <3>4. QED
      BY <3>2, <3>3
  <2>3. LastIn(S) # 0
    BY <1>2, <2>2 DEF Places, Grown
  <2>4. Blocked(c, log)
    BY <2>1, <2>2, <2>3 DEF Blocked
  <2>5. GateComplete(c, log, ws, MinPasses) = "ESCALATE"
    BY <2>1, <2>4 DEF GateComplete, CompleteStructured
  <2>6. QED
    BY <2>5 DEF Repairs
<1>11. QED
  BY <1>8, <1>9, <1>10 DEF CleanInv

LEMMA CleanStep == LoopInv /\ CleanInv /\ [Next]_vars => CleanInv'
<1> SUFFICES ASSUME LoopInv, CleanInv, [Next]_vars
             PROVE  CleanInv'
  OBVIOUS
<1>0. TimeInv /\ Len(log) \in Nat /\ DOMAIN log = 1..Len(log)
  BY DEF LoopInv, TimeInv
<1>1. ASSUME log' = log
      PROVE  Grown /\ ~\E i \in (Len(log) + 1)..Len(log') : TRUE
  BY <1>0, <1>1, SameGrows
<1>2. CASE Quietly
  BY <1>1, <1>2, OthersKeep DEF Quietly, SameCounts, SamePlace
<1>3. CASE Ends \/ Begins
  <2>1. \A i \in DOMAIN log' : log'[i].type = "human"
    <3>1. Len(log) = 0 \/ log' = <<>>
      BY <1>3 DEF Ends, Begins
    <3>2. CASE log' = <<>>
      BY <3>2
    <3>3. CASE Len(log) = 0 /\ \E e : Adds(e) /\ e.type = "human"
      BY <3>3 DEF Adds, Grown
    <3>4. QED
      BY <1>3, <3>1, <3>2, <3>3 DEF Ends, Begins
  <2>2. /\ Places(log', "verdict") = {} /\ Places(log', "check") = {}
        /\ Places(log', "transition") = {} /\ run'.at # "review"
    BY <1>3, <2>1 DEF Places, Ends, Begins
  <2>3. Said' = {}
    BY <2>2 DEF Said
  <2>4. QED
    BY <2>2, <2>3 DEF CleanInv, SaidInv, RanInv, BlockInv
<1>4. CASE Works \/ Meanwhile
  <2>1. PICK e : Adds(e) /\ e.type \in {"tool", "evidence", "human", "manual"}
    BY <1>4 DEF Works, Meanwhile
  <2>2. Grown /\ \A i \in (Len(log) + 1)..Len(log') :
           log'[i].type \notin {"gate", "verdict", "check", "transition"}
    <3>1. \A i \in (Len(log) + 1)..Len(log') : i = Len(log) + 1
      BY <1>0, <2>1 DEF Adds
    <3>2. QED
      BY <2>1, <3>1 DEF Adds
  <2>3. run' = run
    BY <1>4 DEF Works, Meanwhile
  <2>4. QED
    BY <2>2, <2>3, OthersKeep
<1>5. CASE Checks
  BY <1>5, CheckingKeeps
<1>6. CASE Says
  BY <1>6, SayingKeeps
<1>7. CASE Reviews
  <2>1. CASE Changed
    BY <1>7, <2>1, FindingKeeps
  <2>2. CASE ~Changed
    BY <1>1, <1>7, <2>2, OthersKeep DEF Reviews, Counts
  <2>3. QED
    BY <2>1, <2>2
<1>8. CASE Stops
  BY <1>1, <1>8, OthersKeep DEF Stops, Counts
<1>9. CASE Repairs
  BY <1>9, RepairingKeeps
<1>10. QED
  BY <1>2, <1>3, <1>4, <1>5, <1>6, <1>7, <1>8, <1>9, Moves

LEMMA InitCleanInv == Init => CleanInv
  BY NothingYet DEF Init, Places

\* The results of the contract's checks, and an iteration that nothing is
\* wrong with, as CleanIterationPasses describes it.
Results == {LastCheck(log, r) : r \in Executed(run.contract)}

CleanRound ==
    LET c == run.contract
    IN  /\ c.manual = {} /\ c.kinds = {} /\ ~c.high
        /\ Results \subseteq Round
        /\ \A i \in Results : log[i].status = "pass" /\ log[i].ws = ws
        /\ \A i \in Round, j \in Results : Mutates(log[i]) => i < j - 1
        /\ \A v \in Range(Verifier) : \E i \in Round :
             /\ log[i].type = "verdict" /\ log[i].verifier = v /\ log[i].status = "pass"
             /\ IF Results = {} THEN log[i].rationale ELSE log[i].refs = Results
        /\ Cardinality(Range(Verifier)) = Len(Verifier) /\ Len(Verifier) >= Max({2, MinPasses})

\* As many different verifiers as there are have spoken, and each passed.
LEMMA EverybodyPassed ==
    ASSUME LoopInv, CleanInv, CleanRound
    PROVE  /\ Cardinality(Said) \in Nat /\ Cardinality(Said) >= Max({2, MinPasses})
           /\ Said \subseteq 1..Len(log)
           /\ \A i, j \in Said : log[i].verifier = log[j].verifier => i = j
           /\ \A v \in Range(Verifier) : \E i \in Said : log[i].verifier = v
           /\ \A i \in Said :
                 /\ log[i].status = "pass"
                 /\ IF Results = {} THEN log[i].rationale ELSE log[i].refs = Results
<1> DEFINE names == Range(Verifier)
           who == [i \in Said |-> log[i].verifier]
<1>1. /\ Len(log) \in Nat /\ DOMAIN log = 1..Len(log)
      /\ Len(Verifier) \in Nat /\ Verifier \in [1..Len(Verifier) -> names]
  BY LoopAssumption DEF LoopInv, TimeInv
<1>2. IsInjective(Verifier)
  <2>1. Verifier \in Surjection(1..Len(Verifier), names)
    BY <1>1, Fun_RangeProperties
  <2>2. IsFiniteSet(1..Len(Verifier)) /\ Cardinality(1..Len(Verifier)) = Len(Verifier)
    <3>1. PICK n \in Nat : n = Len(Verifier)
      BY <1>1
    <3>2. /\ IsFiniteSet(1..n)
          /\ Cardinality(1..n) = IF 1 > n THEN 0 ELSE n - 1 + 1
      BY FS_Interval
    <3>3. (IF 1 > n THEN 0 ELSE n - 1 + 1) = n
      OBVIOUS
    <3>4. QED
      BY <3>1, <3>2, <3>3
  <2>3. Verifier \in Injection(1..Len(Verifier), names)
    BY <2>1, <2>2, FS_Surjection DEF CleanRound
  <2>4. QED
    BY <2>3 DEF Injection
<1>3. \A i, j \in Said : log[i].verifier = log[j].verifier => i = j
  BY <1>2 DEF CleanInv, SaidInv
<1>4. Said \subseteq 1..Len(log) /\ Said = {i \in Round : log[i].type = "verdict"}
  BY <1>1 DEF Said, Places, Round, Start, Gates
<1>5. \A v \in names : \E i \in Said :
         /\ log[i].verifier = v /\ log[i].status = "pass"
         /\ IF Results = {} THEN log[i].rationale ELSE log[i].refs = Results
  BY <1>4 DEF CleanRound
<1>6. \A i \in Said : log[i].verifier \in names
  BY DEF CleanInv, SaidInv, Said
<1>7. ASSUME NEW i \in Said
      PROVE  /\ log[i].status = "pass"
             /\ IF Results = {} THEN log[i].rationale ELSE log[i].refs = Results
  <2>1. PICK j \in Said :
           /\ log[j].verifier = log[i].verifier /\ log[j].status = "pass"
           /\ IF Results = {} THEN log[j].rationale ELSE log[j].refs = Results
    BY <1>5, <1>6
  <2>2. i = j
    BY <1>3, <2>1
  <2>3. QED
    BY <2>1, <2>2
<1>8. Cardinality(Said) \in Nat /\ Cardinality(Said) >= Max({2, MinPasses})
  <2>1. IsFiniteSet(Said) /\ Cardinality(Said) \in Nat
    <3>1. IsFiniteSet(1..Len(log))
      BY <1>1, FS_Interval
    <3>2. QED
      BY <1>4, <3>1, FS_Subset, FS_CardinalityType
  <2>2. who \in Surjection(Said, names)
    <3>1. who \in [Said -> names]
      BY <1>6
    <3>2. \A v \in names : \E i \in Said : who[i] = v
      BY <1>5
    <3>3. QED
      BY <3>1, <3>2, Fun_IsSurj
  <2>3. Cardinality(names) <= Cardinality(Said)
    BY <2>1, <2>2, FS_Surjection
  <2>4. QED
    BY <1>1, <2>1, <2>3, Quorum DEF CleanRound
<1>9. QED
  BY <1>3, <1>4, <1>5, <1>7, <1>8

\* The last mutation is one.
LEMMA MutationIs ==
    ASSUME TimeInv, LastMutation(log) # 0
    PROVE  LastMutation(log) \in 1..Len(log) /\ Mutates(log[LastMutation(log)])
<1> DEFINE S == {i \in DOMAIN log : Mutates(log[i])}
<1>1. Len(log) \in Nat /\ S \in SUBSET (0..Len(log)) /\ DOMAIN log = 1..Len(log)
  BY DEF TimeInv
<1>2. LastIn(S) \in S \cup {0} /\ LastMutation(log) = LastIn(S)
  BY <1>1, LastPlace DEF LastMutation
<1>3. QED
  BY <1>1, <1>2

\* Nothing blocks the task.
LEMMA NothingBlocks ==
    ASSUME LoopInv, CleanInv, CleanRound, Structured(run.contract)
    PROVE  ~Blocked(run.contract, log)
<1>1. SUFFICES ASSUME Blocked(run.contract, log)
               PROVE  FALSE
  OBVIOUS
<1>2. /\ Len(log) \in Nat /\ DOMAIN log = 1..Len(log) /\ Start \in 0..Len(log)
      /\ \A type : LastIn(Places(log, type)) \in Places(log, type) \cup {0}
      /\ \A r : /\ LastCheck(log, r) # 0 => /\ log[LastCheck(log, r)].type = "check"
                                            /\ log[LastCheck(log, r)].req = r
                /\ LastCheck(log, r) \in 0..Len(log)
                /\ \A i \in 1..Len(log) :
                      log[i].type = "check" /\ log[i].req = r => i <= LastCheck(log, r)
  BY LatestPlaces, Rounds DEF LoopInv
<1>3. PICK t \in Places(log, "transition") : TRUE
  BY <1>1, <1>2 DEF Blocked
<1>4. Unclean(t)
  BY <1>3 DEF CleanInv, BlockInv
<1>5. \A i \in Results : i \in 1..Len(log) /\ i > Start
  BY <1>2 DEF CleanRound, Round, Start, Gates
<1>6. CASE \E i \in Places(log, "check") :
              /\ i > Start /\ log[i].status # "pass"
              /\ \A j \in Places(log, "check") : log[j].req = log[i].req => j <= i
  <2>1. PICK i \in Places(log, "check") :
              /\ i > Start /\ log[i].status # "pass"
              /\ \A j \in Places(log, "check") : log[j].req = log[i].req => j <= i
    BY <1>6
  <2>2. PICK r : r = log[i].req
    OBVIOUS
  <2>3. i \in 1..Len(log) /\ log[i].type = "check" /\ r \in Executed(run.contract)
    BY <1>2, <2>2 DEF Places, LoopInv, RowInv
  <2>4. LastCheck(log, r) \in Results
    BY <2>3 DEF Results
  <2>5. LastCheck(log, r) = i
    <3>1. PICK l : l = LastCheck(log, r)
      OBVIOUS
    <3>2. l \in 1..Len(log) /\ i <= l /\ log[l].type = "check"
      BY <1>2, <1>5, <2>2, <2>3, <2>4, <3>1
    <3>3. l <= i
      <4>1. log[l].req = r
        BY <1>2, <3>1, <3>2
      <4>2. QED
        BY <1>2, <2>1, <2>2, <3>2, <4>1 DEF Places
    <3>4. QED
      BY <1>2, <2>3, <3>1, <3>2, <3>3
  <2>6. QED
    BY <2>1, <2>4, <2>5 DEF CleanRound
<1>7. CASE \E i \in 1..Len(log) : Mutates(log[i]) /\ \A j \in Places(log, "check") : j < i
  <2>1. PICK i \in 1..Len(log) : Mutates(log[i]) /\ \A j \in Places(log, "check") : j < i
    BY <1>7
  <2>2. PICK r \in Executed(run.contract) : TRUE
    BY DEF Structured, CleanRound
  <2>3. PICK j : j = LastCheck(log, r)
    OBVIOUS
  <2>4. j \in Results /\ j \in 1..Len(log) /\ j > Start /\ log[j].type = "check"
    BY <1>2, <1>5, <2>2, <2>3 DEF Results
  <2>5. j < i
    BY <1>2, <2>1, <2>4 DEF Places
  <2>6. i \in Round
    BY <1>2, <2>4, <2>5 DEF Round, Start, Gates
  <2>7. i < j - 1
    BY <2>1, <2>4, <2>6 DEF CleanRound
  <2>8. QED
    BY <1>2, <2>4, <2>5, <2>7
<1>8. QED
  BY <1>4, <1>6, <1>7 DEF Unclean

\* A contract with requirements: its results count, and the verdicts cite them.
LEMMA CleanPassesChecked ==
    ASSUME LoopInv, CleanInv, CleanRound, Structured(run.contract)
    PROVE  GateComplete(run.contract, log, ws, MinPasses) = "PASS"
<1> DEFINE c == run.contract
           last == LastMutation(log)
           after == ReviewAfter(c, log)
           passes == {i \in Verdicts(c, log) : log[i].status = "pass"}
           cited == {i \in passes : log[i].refs # {}
                                    /\ log[i].refs = RequirementHashes(c, log, ws)}
<1>1. /\ Len(log) \in Nat /\ DOMAIN log = 1..Len(log) /\ Start \in 0..Len(log)
      /\ \A r : /\ LastCheck(log, r) # 0 => log[LastCheck(log, r)].type = "check"
                /\ LastCheck(log, r) \in 0..Len(log)
      /\ last \in 0..Len(log) /\ after \in 0..Len(log) /\ last <= after
      /\ \A r \in Executed(c) : LastCheck(log, r) <= after
      /\ Start \in Gates \cup {0}
  BY LatestPlaces, Rounds DEF LoopInv
<1>2. c.manual = {} /\ c.kinds = {} /\ ~c.high /\ Executed(c) # {}
  BY DEF CleanRound, Structured
<1>3. \A j \in Results : j \in 1..Len(log) /\ j > Start /\ log[j].type = "check"
  BY <1>1 DEF CleanRound, Round, Start, Gates, Results
<1>4. ASSUME NEW j \in Results
      PROVE  /\ last < j - 1 \/ last = 0
             /\ j > 1 /\ last < j /\ log[j].tool = j - 1 /\ log[j].own = 0
  <2>1. j \in Places(log, "check") /\ log[j].status = "pass"
    BY <1>1, <1>3 DEF CleanRound, Places
  <2>2. j > 1 /\ IF log[j].own = 0 THEN log[j].tool = j - 1
                 ELSE log[j - 1].type = "tool" /\ log[j - 1].mutates
    BY <2>1 DEF CleanInv, RanInv
  <2>3. last # 0 => last \in 1..Len(log) /\ Mutates(log[last])
    BY <1>1, MutationIs DEF LoopInv
  <2>4. last < j - 1 \/ last = 0
    <3>1. CASE last \in Round
      BY <2>3, <3>1 DEF CleanRound
    <3>2. CASE last \notin Round /\ last # 0
      <4>1. last <= Start
        BY <1>1, <2>3, <3>2 DEF Round, Start, Gates
      <4>2. last # Start
        <5>1. Start # 0 => log[Start].type = "gate"
          BY <1>1 DEF Gates, Places
        <5>2. QED
          BY <2>3, <3>2, <5>1 DEF Mutates
      <4>3. QED
        BY <1>1, <1>3, <4>1, <4>2
    <3>3. QED
      BY <3>1, <3>2
  <2>5. log[j].own = 0
    <3>1. SUFFICES ASSUME log[j].own # 0
                   PROVE  FALSE
      OBVIOUS
    <3>2. j - 1 \in 1..Len(log) /\ Mutates(log[j - 1])
      BY <1>1, <1>3, <2>2, <3>1 DEF Mutates
    <3>3. j - 1 <= last
      BY <3>2, LatestPlaces DEF LoopInv
    <3>4. QED
      BY <1>1, <1>3, <2>2, <2>4, <3>3
  <2>6. last < j
    BY <1>1, <1>3, <2>2, <2>4
  <2>7. QED
    BY <2>2, <2>4, <2>5, <2>6
<1>5. ASSUME NEW r \in Executed(c)
      PROVE  CheckValid(log, ws, r)
  <2>1. PICK j : j = LastCheck(log, r)
    OBVIOUS
  <2>2. j \in Results
    BY <2>1 DEF Results
  <2>3. j \in 1..Len(log) /\ log[j].status = "pass" /\ log[j].ws = ws
    BY <1>3, <2>2 DEF CleanRound
  <2>4. j > last /\ j # 0
    BY <1>1, <1>4, <2>2, <2>3
  <2>5. FreshTool(log, log[j])
    BY <1>1, <1>4, <2>2, <2>3 DEF FreshTool
  <2>6. QED
    BY <2>1, <2>3, <2>4, <2>5 DEF CheckValid
<1>6. RequirementHashes(c, log, ws) = Results
  BY <1>2, <1>5 DEF RequirementHashes, Results
<1>7. ~RequirementIssues(c, log, ws)
  BY <1>2, <1>5 DEF RequirementIssues
<1>8. Results # {}
  BY <1>2 DEF Results
<1>9. after \in Results
  <2> DEFINE S == {LastMutation(log)} \cup Results
  <2>1. after = LastIn(S)
    BY <1>2 DEF ReviewAfter, Results
  <2>2. S \in SUBSET (0..Len(log))
    BY <1>1, <1>3
  <2>3. after \in S \cup {0} /\ \A i \in S : i <= after
    BY <1>1, <2>1, <2>2, LastPlace
  <2>4. PICK j \in Results : TRUE
    BY <1>8
  <2>5. last < after /\ after # 0
    BY <1>1, <1>3, <1>4, <2>3, <2>4
  <2>6. QED
    BY <1>1, <2>3, <2>5
<1>10. Verdicts(c, log) = Said
  <2>1. \A i \in Said : i > after
    <3>1. after \in Places(log, "check")
      BY <1>1, <1>3, <1>9 DEF Places
    <3>2. \A i \in Said : after < i /\ i \in 1..Len(log)
      BY <1>1, <3>1 DEF CleanInv, SaidInv, Said, Places
    <3>3. QED
      BY <1>1, <3>2
  <2>2. \A i \in Places(log, "verdict") : i > after => i > Start
    BY <1>1, <1>3, <1>9 DEF Places
  <2>3. QED
    BY <2>1, <2>2 DEF Verdicts, Said
<1>11. passes = Said /\ cited = Said
  BY <1>6, <1>8, <1>10, EverybodyPassed
<1>12. ~VerifierIssues(c, log, ws, MinPasses)
  <2>1. ~\E i, j \in Verdicts(c, log) : i # j /\ log[i].verifier = log[j].verifier
    BY <1>10, EverybodyPassed
  <2>2. ~\E i \in Verdicts(c, log) : log[i].status = "critical"
    BY <1>10, EverybodyPassed
  <2>3. ~(Cardinality(Said) < Max({2, MinPasses}))
    BY Quorum, EverybodyPassed
  <2> HIDE DEF passes, cited
  <2>4. passes = cited /\ ~(Cardinality(cited) < Max({2, MinPasses}))
    BY <1>11, <2>3
  <2>5. QED
    BY <2>1, <2>2, <2>4 DEF VerifierIssues, passes, cited
<1>13. QED
  BY <1>2, <1>7, <1>12, NothingBlocks DEF GateComplete, CompleteStructured

\* One that asks for nothing but a review.
LEMMA CleanPassesReviewed ==
    ASSUME LoopInv, CleanInv, CleanRound, ~Structured(run.contract)
    PROVE  GateComplete(run.contract, log, ws, MinPasses) = "PASS"
<1> DEFINE c == run.contract
           latest == LatestVerdicts(log)
           passes == {i \in latest : CountsAsPass(log[i], FALSE)}
<1>1. /\ Len(log) \in Nat /\ DOMAIN log = 1..Len(log) /\ Start \in 0..Len(log)
  BY Rounds DEF LoopInv
<1>2. Results = {} /\ c.kinds = {} /\ ~c.high
  BY DEF CleanRound, Structured, Results
<1>3. latest = Said
  <2>1. ASSUME NEW i \in latest
        PROVE  i \in Said
    <3>1. i \in Places(log, "verdict") /\ i \in 1..Len(log)
      BY <1>1 DEF LatestVerdicts, Places
    <3>2. PICK j \in Said : log[j].verifier = log[i].verifier
      BY <3>1, EverybodyPassed DEF CleanInv, SaidInv
    <3>3. j \in Places(log, "verdict") /\ j > Start /\ j \in 1..Len(log)
      BY <1>1 DEF Said, Places
    <3>4. j <= i
      BY <3>2, <3>3 DEF LatestVerdicts
    <3>5. QED
      BY <1>1, <3>1, <3>3, <3>4 DEF Said
  <2>2. ASSUME NEW i \in Said
        PROVE  i \in latest
    <3>1. i \in Places(log, "verdict") /\ i > Start /\ i \in 1..Len(log)
      BY <1>1 DEF Said, Places
    <3>2. ASSUME NEW j \in Places(log, "verdict"), log[j].verifier = log[i].verifier
          PROVE  j <= i
      <4>1. j \in 1..Len(log)
        BY <1>1 DEF Places
      <4>2. CASE j > Start
        BY <1>1, <3>1, <3>2, <4>1, <4>2, EverybodyPassed DEF Said
      <4>3. CASE ~(j > Start)
        BY <1>1, <3>1, <4>1, <4>3
      <4>4. QED
        BY <4>2, <4>3
    <3>3. QED
      BY <3>1, <3>2 DEF LatestVerdicts
  <2>3. QED
    BY <2>1, <2>2
<1>4. passes = Said
  BY <1>2, <1>3, EverybodyPassed DEF CountsAsPass
<1>5. ~\E i \in latest : log[i].status = "critical"
  BY <1>3, EverybodyPassed
<1>6. ~(Cardinality(passes) < Max({2, MinPasses}))
  <2>1. ~(Cardinality(Said) < Max({2, MinPasses}))
    BY Quorum, EverybodyPassed
  <2> HIDE DEF passes
  <2>2. QED
    BY <1>4, <2>1
<1>7. CompleteReviewed(log, MinPasses) = "PASS"
  BY <1>5, <1>6 DEF CompleteReviewed
<1>8. QED
  BY <1>2, <1>7 DEF GateComplete

\* Only the gate takes the run on from there without an error.
LEMMA GateDecides ==
    ASSUME LoopInv, Next, run.at = "complete", run'.at \in {"poll", "ended"},
           run'.result # "raised", GateComplete(run.contract, log, ws, MinPasses) = "PASS"
    PROVE  run'.result = "PASS"
<1>1. ~Raise /\ ~People /\ ~Drift
  <2>1. ~Raise
    BY DEF Raise, Decide
  <2>2. run' # run
    OBVIOUS
  <2>3. QED
    BY <2>1, <2>2 DEF People, DecideStage, RecordEvidence, RecordManual, Drift
<1>2. Complete
  BY <1>1 DEF Next, Step, PlanGate, Poll, PollWith, WorkReturns, BeginReview, EndReview, EndStep,
              Review, Check, Act, WorkRefused, StartLoop, Bind
<1>3. Decide("PASS")
  BY <1>2 DEF Complete
<1>4. QED
  BY <1>3 DEF Decide

\* For any contracts, verifiers and edits: an iteration whose work came first,
\* whose checks passed and whose verifiers cite their results passes, whatever
\* earlier iterations left behind (HITLGate._complete_locked).
THEOREM CleanPasses == Spec => CleanIterationPasses
<1> DEFINE A == LET c == run.contract
                    results == {LastCheck(log, r) : r \in Executed(c)}
                IN  /\ run.at = "complete" /\ run'.at \in {"poll", "ended"}  /\ run'.result # "raised"
                    /\ c.manual = {} /\ c.kinds = {} /\ ~c.high
                    /\ results \subseteq Round
                    /\ \A i \in results : log[i].status = "pass" /\ log[i].ws = ws
                    /\ \A i \in Round, j \in results : Mutates(log[i]) => i < j - 1
                    /\ \A v \in Range(Verifier) : \E i \in Round :
                         /\ log[i].type = "verdict" /\ log[i].verifier = v /\ log[i].status = "pass"
                         /\ IF results = {} THEN log[i].rationale ELSE log[i].refs = results
                    /\ Cardinality(Range(Verifier)) = Len(Verifier) /\ Len(Verifier) >= Max({2, MinPasses})
                    => run'.result = "PASS"
<1>1. LoopInv /\ CleanInv /\ [Next]_vars => [A]_vars
  <2> SUFFICES ASSUME LoopInv, CleanInv, Next, run.at = "complete",
                      run'.at \in {"poll", "ended"}, run'.result # "raised", CleanRound
               PROVE  run'.result = "PASS"
    BY DEF CleanRound, Results
  <2>1. GateComplete(run.contract, log, ws, MinPasses) = "PASS"
    BY CleanPassesChecked, CleanPassesReviewed
  <2>2. QED
    BY <2>1, GateDecides
<1>2. LoopInv /\ CleanInv /\ [Next]_vars => (LoopInv /\ CleanInv)'
  BY NextKeepsLoopInv, CleanStep
<1>3. Init => LoopInv /\ CleanInv
  BY InitLoopInv, InitCleanInv
<1>4. QED
  BY <1>1, <1>2, <1>3, PTL DEF Spec, CleanIterationPasses

=============================================================================
