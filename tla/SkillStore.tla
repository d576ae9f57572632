----------------------------- MODULE SkillStore -----------------------------
(***************************************************************************)
(* causality.skills.SkillStore: the candidates, whose rows are rewritten   *)
(* with every outcome, and the promoted skills, which are only appended.   *)
(* Every operation reads and writes under the locks of its files, so it is *)
(* one step.                                                               *)
(***************************************************************************)
EXTENDS Naturals, Sequences, FiniteSets, SequencesExt

CONSTANTS
    Skill,          \* the ids that skills may have
    Authored,       \* skills whose objective an authored skill has already
    MinSuccesses,   \* promotion needs so many successes ...
    MinAttempts     \* ... of so many attempts

ASSUME PromotionAssumption == {MinSuccesses, MinAttempts} \subseteq Nat

VARIABLES
    candidates,     \* the rows of candidates.jsonl, by skill id
    promoted        \* the rows of promoted.jsonl

skillVars == <<candidates, promoted>>

SkillInit == candidates = [s \in {} |-> 0] /\ promoted = <<>>

Known == DOMAIN candidates

\* distill_once refuses an id whose candidate was made of something else.
DistillRefuses(s, seed) == s \in Known /\ candidates[s].seed # seed

NewCandidate(seed) == [seed |-> seed, outcomes |-> <<>>, attempts |-> 0, successes |-> 0]

DistillOnce(s, seed) ==
    /\ candidates' = IF s \in Known THEN candidates
                     ELSE [x \in Known \cup {s} |->
                             IF x = s THEN NewCandidate(seed) ELSE candidates[x]]
    /\ UNCHANGED promoted

\* Mutant: only a success is an attempt.
CountedWon(s, o) ==
    [candidates EXCEPT ![s].outcomes = Append(@, o),
                       ![s].attempts = IF o.success THEN @ + 1 ELSE @,
                       ![s].successes = IF o.success THEN @ + 1 ELSE @]

Counted(s, o) ==
    [candidates EXCEPT ![s].outcomes = Append(@, o), ![s].attempts = @ + 1,
                       ![s].successes = IF o.success THEN @ + 1 ELSE @]

\* Mutant: a repeated call counts once more.
RecordAgain(s, o) ==
    /\ candidates' = Counted(s, o)
    /\ UNCHANGED promoted

\* An attempt counts once, and not with another result.
RecordOutcome(s, o) ==
    LET prior == {x \in Range(candidates[s].outcomes) : x.attempt = o.attempt}
    IN  /\ prior \subseteq {o}
        /\ candidates' = IF prior = {} THEN Counted(s, o) ELSE candidates
        /\ UNCHANGED promoted

\* The evidence that the successful outcomes cite.
SuccessRefs(s) == UNION {o.refs : o \in {x \in Range(candidates[s].outcomes) : x.success}}

Reproducible(s) ==
    candidates[s].successes >= MinSuccesses /\ candidates[s].attempts >= MinAttempts

Rows(s) == {p \in Range(promoted) : p.skill = s}

\* A promoted skill is promoted again only by the same person for the same
\* evidence, which changes nothing.
MayPromote(s, by, refs) ==
    IF Rows(s) # {} THEN \A p \in Rows(s) : p.by = by /\ p.refs = refs
    ELSE Reproducible(s) /\ s \notin Authored

Promote(s, by, refs) ==
    /\ MayPromote(s, by, refs)
    /\ promoted' = IF Rows(s) # {} THEN promoted
                   ELSE Append(promoted, [skill |-> s, by |-> by, refs |-> refs,
                                          outcomes |-> candidates[s].outcomes])
    /\ UNCHANGED candidates

=============================================================================
