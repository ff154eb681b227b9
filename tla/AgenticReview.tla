--------------------------- MODULE AgenticReview ---------------------------
(***************************************************************************)
(* One run of the agentic impact review                                    *)
(* (src/src/bwli/llm/agentic_orchestrator.py): a planner, the policy gate  *)
(* (agentic_policy.py), the enricher, rounds of a reviewer and a critic    *)
(* and a synthesis (agentic_review.py), and the validator                  *)
(* (agentic_validator.py). Each call of the language model is a step that  *)
(* ends with its answer; the time of the run may be used up at any moment. *)
(*                                                                         *)
(* An answer is "down" (no completion), "invalid" (a completion refused:   *)
(* JSON, schema, citations, safety) or valid, and then only what later     *)
(* steps look at is chosen. Not covered: prompts and their sanitising, the *)
(* texts, the summary for the board, the evidence itself.                  *)
(***************************************************************************)
EXTENDS Integers, Sequences, FiniteSets

CONSTANTS
    Findings,    \* of the impact analysis, numbered in its order
    Rank,        \* [finding -> 0 HIGH .. 3 UNKNOWN]
    Manual,      \* findings marked for manual verification
    Plans,       \* the sequences of evidence requests a planner may ask for
    CardLists,   \* the sequences of cards a synthesis may answer
    Budgets,     \* AgenticReviewBudget
    NoFinding, OtherFinding,  \* source_finding_id: none, or one not in the pack
    NoReview     \* no answer of a reviewer yet

Severities == 0..3
Unknown == 3

\* key: enricher and target; fits: no rule of the gate but repetition and
\* the budget speaks against it
Request == [key : STRING, fits : BOOLEAN]

Card == [finding : BOOLEAN,     \* kind = "deterministic_finding"
         source : Findings \cup {NoFinding, OtherFinding},
         label : Severities]

Budget == [planner : Nat, requests : Nat, rounds : Nat, calls : Nat, cards : Nat,
           time : BOOLEAN]      \* time: max_latency_ms is not 0

Packs == {"built", "enriched"}

\* covers: findings named by a gap or a manual check; by: the call, pack: its evidence
Review == [covers : SUBSET Findings, by : Nat, pack : Packs]

ASSUME ReviewAssumption ==
    /\ Findings \subseteq Nat /\ IsFiniteSet(Findings)
    /\ Rank \in [Findings -> Severities] /\ Manual \subseteq Findings
    /\ Plans \subseteq Seq(Request) /\ CardLists \subseteq Seq(Card)
    /\ Budgets \subseteq Budget
    /\ NoFinding \notin Findings /\ OtherFinding \notin Findings
    /\ NoReview \notin Review

VARIABLES
    pc,          \* the stage that comes next
    budget, enabled,     \* of the request; enabled: there is an LLM runtime
    late,        \* the time of the budget is used up
    pack,        \* current_pack
    plan,        \* evidence_requests of the plan
    next, seen, allowed, \* PolicyGate.evaluate: request looked at, keys, the answer
    usage,       \* AgenticReviewBudgetUsage
    audits,      \* length of audit_trail
    round, local,        \* run_hypothesis_review: its round, its calls and audits
    review,      \* the answer of the reviewer that the run holds
    cards, status,       \* of the run
    sent, completions, lateCalls,   \* history: requests to the model, answers got,
                                    \* requests sent when the time was used up
    approved     \* history: the review in which the critic found nothing

gate == <<next, seen, allowed>>
result == <<cards, status>>
request == <<budget, enabled>>
history == <<sent, completions, lateCalls, approved>>
vars == <<pc, request, late, pack, plan, gate, usage, audits, round, local, review,
          result, history>>

Init ==
    /\ pc = "start" /\ budget \in Budgets /\ enabled \in BOOLEAN
    /\ late = ~budget.time
    /\ pack = "built" /\ plan = <<>>
    /\ next = 1 /\ seen = {} /\ allowed = {}
    /\ usage = [planner |-> 0, requests |-> 0, rounds |-> 0, calls |-> 0]
    /\ audits = 0 /\ round = 0 /\ local = [calls |-> 0, audits |-> 0]
    /\ review = NoReview
    /\ cards = <<>> /\ status = "running"
    /\ sent = 0 /\ completions = 0 /\ lateCalls = 0 /\ approved = NoReview

-----------------------------------------------------------------------------
(* _ordered_findings and deterministic_review_cards.                        *)
Before(f, g) == Rank[f] < Rank[g] \/ (Rank[f] = Rank[g] /\ f < g)

InPlace(i) == CHOOSE f \in Findings : Cardinality({g \in Findings : Before(g, f)}) = i - 1

Smaller(a, b) == IF a < b THEN a ELSE b

DeterministicCards ==
    [i \in 1..Smaller(Cardinality(Findings), budget.cards) |->
        [finding |-> TRUE, source |-> InPlace(i), label |-> Rank[InPlace(i)]]]

(* The run ends; the cards of the model, if any, are replaced.              *)
Deterministic(how) ==
    /\ cards' = DeterministicCards
    /\ status' = how
    /\ pc' = "done"

Fallback == Deterministic("fallback")

Remaining == IF usage.calls < budget.calls THEN budget.calls - usage.calls ELSE 0

Send ==
    /\ sent' = sent + 1
    /\ lateCalls' = IF late THEN lateCalls + 1 ELSE lateCalls

Answered == completions' = completions + 1

NoCall == UNCHANGED history

-----------------------------------------------------------------------------
(* Before the planner.                                                      *)
Disabled ==
    /\ pc = "start" /\ ~enabled
    /\ Deterministic("disabled")
    /\ NoCall
    /\ UNCHANGED <<request, late, pack, plan, gate, usage, audits, round, local, review>>

CannotStart ==
    \/ budget.cards = 0 /\ Findings # {}
    \/ late \/ budget.planner = 0 \/ Remaining = 0

Start ==
    /\ pc = "start" /\ enabled
    /\ IF CannotStart THEN Fallback ELSE pc' = "planner" /\ UNCHANGED result
    /\ NoCall
    /\ UNCHANGED <<request, late, pack, plan, gate, usage, audits, round, local, review>>

(* _call_planner *)
PlannerDown ==
    /\ pc = "planner"
    /\ Send /\ UNCHANGED <<completions, approved>>
    /\ Fallback
    /\ UNCHANGED <<request, late, pack, plan, gate, usage, audits, round, local, review>>

PlannerAnswers ==
    /\ pc = "planner"
    /\ Send /\ Answered /\ UNCHANGED approved
    /\ usage' = [usage EXCEPT !.calls = @ + 1, !.planner = @ + 1]
    /\ audits' = audits + 1
    /\ \/ Fallback /\ UNCHANGED plan
       \/ plan' \in Plans /\ pc' = "policy" /\ UNCHANGED result
    /\ UNCHANGED <<request, late, pack, gate, round, local, review>>

-----------------------------------------------------------------------------
(* PolicyGate.evaluate, one request after the other.                        *)

TooLateForPolicy ==
    /\ pc = "policy" /\ next = 1 /\ late
    /\ Fallback /\ NoCall
    /\ UNCHANGED <<request, late, pack, plan, gate, usage, audits, round, local, review>>

AllowIfNew(r) ==    \* mutant: what was refused is not taken for a repetition
    /\ seen' = IF r.fits THEN seen \cup {r.key} ELSE seen
    /\ allowed' = IF r.fits /\ r.key \notin seen /\ Cardinality(allowed) < budget.requests
                  THEN allowed \cup {next} ELSE allowed

Decide(r) ==
    /\ seen' = seen \cup {r.key}
    /\ allowed' = IF r.fits /\ r.key \notin seen /\ Cardinality(allowed) < budget.requests
                  THEN allowed \cup {next} ELSE allowed

Evaluate ==
    /\ pc = "policy" /\ (next = 1 => ~late) /\ next <= Len(plan)
    /\ Decide(plan[next])
    /\ next' = next + 1
    /\ NoCall
    /\ UNCHANGED <<pc, request, late, pack, plan, usage, audits, round, local, review, result>>

Evaluated ==
    /\ pc = "policy" /\ (next = 1 => ~late) /\ next > Len(plan)
    /\ usage' = [usage EXCEPT !.requests = Cardinality(allowed)]
    /\ IF late THEN Fallback ELSE pc' = "enrich" /\ UNCHANGED result
    /\ NoCall
    /\ UNCHANGED <<request, late, pack, plan, gate, audits, round, local, review>>

(* run_enrichers: new evidence or none, or an error of a source. The impact *)
(* report that recompute_impact_pack puts in is that of the pack            *)
(* (server.py:3109), so the findings stay.                                  *)
Enrich ==
    /\ pc = "enrich"
    /\ pack' \in IF allowed = {} THEN {pack} ELSE Packs
    /\ pc' = "review" /\ NoCall
    /\ UNCHANGED <<request, late, plan, gate, usage, audits, round, local, review, result>>

EnrichFails ==
    /\ pc = "enrich" /\ allowed # {}
    /\ Fallback /\ NoCall
    /\ UNCHANGED <<request, late, pack, plan, gate, usage, audits, round, local, review>>

-----------------------------------------------------------------------------
(* run_hypothesis_review.                                                   *)

StartReview ==
    /\ pc = "review"
    /\ IF late \/ budget.rounds = 0 \/ Remaining = 0
       THEN Fallback /\ UNCHANGED round
       ELSE pc' = "reviewer" /\ round' = 1 /\ UNCHANGED result
    /\ NoCall
    /\ UNCHANGED <<request, late, pack, plan, gate, usage, audits, local, review>>

MayCallOfAll == local.calls < budget.calls    \* mutant: the review gets the whole budget

MayCall == local.calls < Remaining    \* llm_calls < max_llm_calls of its own budget

(* The function returns what it counted to the orchestrator.                *)
MergeLocal(calls, trail, rounds) ==
    /\ usage' = [usage EXCEPT !.calls = @ + calls, !.rounds = rounds]
    /\ audits' = audits + trail
    /\ local' = [calls |-> 0, audits |-> 0]

ReviewFallback(calls, trail, rounds) ==
    /\ MergeLocal(calls, trail, rounds)
    /\ Fallback

Untouched == UNCHANGED <<request, late, pack, plan, gate>>

NoCallLeft ==
    /\ pc \in {"reviewer", "critic"} /\ ~MayCall
    /\ ReviewFallback(local.calls, local.audits, IF pc = "critic" THEN round ELSE round - 1)
    /\ NoCall /\ Untouched /\ UNCHANGED <<round, review>>

ReviewCallDown ==
    /\ pc \in {"reviewer", "critic"} /\ MayCall
    /\ Send /\ UNCHANGED <<completions, approved>>
    /\ ReviewFallback(local.calls, local.audits, IF pc = "critic" THEN round ELSE round - 1)
    /\ Untouched /\ UNCHANGED <<round, review>>

ReviewCallInvalidUncounted ==    \* mutant: a refused completion leaves no trace
    /\ pc \in {"reviewer", "critic"} /\ MayCall
    /\ Send /\ Answered /\ UNCHANGED approved
    /\ ReviewFallback(local.calls, local.audits, round)
    /\ Untouched /\ UNCHANGED <<round, review>>

ReviewCallInvalid ==
    /\ pc \in {"reviewer", "critic"} /\ MayCall
    /\ Send /\ Answered /\ UNCHANGED approved
    /\ ReviewFallback(local.calls + 1, local.audits + 1, round)
    /\ Untouched /\ UNCHANGED <<round, review>>

Count == local' = [calls |-> local.calls + 1, audits |-> local.audits + 1]

Reviewer ==
    /\ pc = "reviewer" /\ MayCall
    /\ Send /\ Answered /\ UNCHANGED approved
    /\ Count
    /\ \E covers \in SUBSET Findings :
         review' = [covers |-> covers, by |-> sent', pack |-> pack]
    /\ pc' = "critic"
    /\ Untouched /\ UNCHANGED <<usage, audits, round, result>>

CriticObjectsInVain ==    \* mutant: after the last round the review counts as done
    /\ pc = "critic" /\ MayCall
    /\ Send /\ Answered /\ UNCHANGED approved
    /\ IF round < budget.rounds
       THEN /\ Count
            /\ round' = round + 1 /\ pc' = "reviewer"
            /\ UNCHANGED <<usage, audits, result>>
       ELSE /\ MergeLocal(local.calls + 1, local.audits + 1, round)
            /\ pc' = "synthesis"
            /\ UNCHANGED <<round, result>>
    /\ Untouched /\ UNCHANGED review

CriticObjects ==
    /\ pc = "critic" /\ MayCall
    /\ Send /\ Answered /\ UNCHANGED approved
    /\ IF round < budget.rounds
       THEN /\ Count
            /\ round' = round + 1 /\ pc' = "reviewer"
            /\ UNCHANGED <<usage, audits, result>>
       ELSE /\ ReviewFallback(local.calls + 1, local.audits + 1, round)
            /\ UNCHANGED round
    /\ Untouched /\ UNCHANGED review

CriticAccepts ==
    /\ pc = "critic" /\ MayCall
    /\ Send /\ Answered
    /\ approved' = review
    /\ MergeLocal(local.calls + 1, local.audits + 1, round)
    /\ pc' = "synthesis"
    /\ Untouched /\ UNCHANGED <<round, review, result>>

-----------------------------------------------------------------------------
(* create_agentic_synthesis.                                                *)

NoSynthesis ==
    /\ pc = "synthesis" /\ (late \/ Remaining = 0)
    /\ Fallback /\ NoCall
    /\ Untouched /\ UNCHANGED <<usage, audits, round, local, review>>

MaySynthesizeLate == pc = "synthesis" /\ Remaining > 0    \* mutant: no look at the clock

MaySynthesize == pc = "synthesis" /\ ~late /\ Remaining > 0

SynthesisDown ==
    /\ MaySynthesize
    /\ Send /\ UNCHANGED <<completions, approved>>
    /\ Fallback
    /\ Untouched /\ UNCHANGED <<usage, audits, round, local, review>>

(* parse_synthesis_content and _validate_deterministic_card_authority       *)
Acceptable(list) ==
    /\ Len(list) <= budget.cards
    /\ \A i \in DOMAIN list :
        /\ list[i].source # OtherFinding
        /\ list[i].finding => /\ list[i].source # NoFinding
                              /\ list[i].label = Rank[list[i].source]

Synthesis ==
    /\ MaySynthesize
    /\ Send /\ Answered /\ UNCHANGED approved
    /\ usage' = [usage EXCEPT !.calls = @ + 1]
    /\ audits' = audits + 1
    /\ \/ Fallback
       \/ \E list \in CardLists :
            IF Acceptable(list)
            THEN cards' = list /\ pc' = "validate" /\ UNCHANGED status
            ELSE Fallback
    /\ Untouched /\ UNCHANGED <<round, local, review>>

-----------------------------------------------------------------------------
(* validate_agentic_run. Cards and citations were checked by the same rules *)
(* before; the texts, now decoded, may still be refused as unsafe.          *)

NeedsCheck == {f \in Findings : f \in Manual \/ Rank[f] = Unknown}

Represented(f) ==
    \/ \E i \in DOMAIN cards : cards[i].source = f
    \/ f \in review.covers

Validate ==
    /\ pc = "validate"
    /\ \/ Fallback
       \/ /\ ~late /\ \A f \in NeedsCheck : Represented(f)
          /\ status' = "completed" /\ pc' = "done" /\ UNCHANGED cards
    /\ NoCall /\ Untouched /\ UNCHANGED <<usage, audits, round, local, review>>

-----------------------------------------------------------------------------
TimeIsUp ==
    /\ ~late /\ pc # "done"
    /\ late' = TRUE
    /\ UNCHANGED <<pc, request, pack, plan, gate, usage, audits, round, local, review,
                   result, history>>

Run ==
    \/ Disabled \/ Start \/ PlannerDown \/ PlannerAnswers
    \/ TooLateForPolicy \/ Evaluate \/ Evaluated \/ Enrich \/ EnrichFails
    \/ StartReview \/ NoCallLeft \/ ReviewCallDown \/ ReviewCallInvalid
    \/ Reviewer \/ CriticObjects \/ CriticAccepts
    \/ NoSynthesis \/ SynthesisDown \/ Synthesis \/ Validate

Next == Run \/ TimeIsUp

Spec == Init /\ [][Next]_vars

-----------------------------------------------------------------------------
Stages == {"start", "planner", "policy", "enrich", "review", "reviewer", "critic",
           "synthesis", "validate", "done"}

TypeOK ==
    /\ pc \in Stages /\ budget \in Budgets /\ enabled \in BOOLEAN /\ late \in BOOLEAN
    /\ pack \in Packs /\ plan \in Seq(Request)
    /\ next \in 1..Len(plan) + 1 /\ seen \subseteq STRING /\ allowed \subseteq 1..next - 1
    /\ usage \in [planner : Nat, requests : Nat, rounds : Nat, calls : Nat]
    /\ audits \in Nat /\ round \in Nat /\ local \in [calls : Nat, audits : Nat]
    /\ review \in Review \cup {NoReview} /\ approved \in Review \cup {NoReview}
    /\ Len(cards) \in Nat /\ status \in {"running", "disabled", "fallback", "completed"}
    /\ sent \in Nat /\ completions \in Nat /\ lateCalls \in Nat

(* No run, however it ends, asks the model more often, reviews more rounds, *)
(* allows more evidence requests or shows more cards than its budget says.  *)
(* The calls of the review are counted apart and added up when it returns,  *)
(* and a call that fails is counted by nobody (agentic_orchestrator.py:235).*)
BudgetsRespected ==
    /\ sent <= budget.calls
    /\ usage.planner <= budget.planner /\ usage.rounds <= budget.rounds
    /\ Cardinality(allowed) <= budget.requests
    /\ Len(cards) <= budget.cards

(* Whatever stage a run fails in, every completion it got is in its audit   *)
(* trail and in its count of calls (the docs: "secret-free ReviewTraceStep  *)
(* + the LlmAuditMetadata" for each call), and at most one call failed.     *)
EveryCompletionAudited ==
    pc = "done" =>
        /\ audits = completions /\ usage.calls = completions
        /\ sent \in {completions, completions + 1}

(* What a completed run reports is the review in which the critic found     *)
(* nothing, of the evidence the run shows, and no finding that is unknown   *)
(* or for manual verification is missing from it.                           *)
OnlyApprovedIsReported ==
    status = "completed" =>
        /\ approved # NoReview /\ review = approved /\ review.pack = pack
        /\ \A f \in NeedsCheck : Represented(f)

(* The gate allows exactly the first requests, as many as the budget has,   *)
(* of those that fit and ask for something no earlier request asked for.    *)
Worthy(i) == plan[i].fits /\ \A j \in 1..i - 1 : plan[j].key # plan[i].key

GateIsExact ==
    allowed = {i \in 1..next - 1 :
                 Worthy(i) /\ Cardinality({j \in 1..i - 1 : Worthy(j)}) < budget.requests}

(* When the time is used up the run goes on to the end of its stage at most,*)
(* which is one call or the rounds of one review ("stopped before the next  *)
(* stage", agentic_orchestrator.py:445).                                    *)
LatenessEndsTheStage ==
    lateCalls <= IF budget.rounds = 0 THEN 1 ELSE 2 * budget.rounds
=============================================================================
