------------------------ MODULE AgenticReviewProofs ------------------------
(***************************************************************************)
(* What holds of the agentic review for every evidence pack, every plan    *)
(* and every budget. The invariant says, stage by stage, what has been     *)
(* counted where, and which review the run holds.                          *)
(***************************************************************************)
EXTENDS AgenticReview, FiniteSetTheorems, TLAPS

InReview == pc \in {"reviewer", "critic"}

(* What is counted: by the run, by the review while it runs, and in truth.  *)
Counting ==
    /\ ~InReview => local.calls = 0 /\ local.audits = 0
    /\ completions = usage.calls + local.calls
    /\ completions = audits + local.audits
    /\ sent <= budget.calls
    /\ pc # "done" => sent = completions
    /\ sent \in {completions, completions + 1}
    /\ pc = "start" => completions = 0 /\ usage.planner = 0
    /\ pc = "planner" => completions = 0 /\ budget.calls > 0
                         /\ usage.planner = 0 /\ budget.planner > 0
    /\ usage.planner <= budget.planner

Rounds ==
    /\ InReview => round >= 1 /\ round <= budget.rounds
    /\ pc \in {"synthesis", "validate"} => round <= budget.rounds
    /\ usage.rounds <= budget.rounds

Cards == Len(cards) <= budget.cards

(* Which review the run holds.                                              *)
Held ==
    /\ review # NoReview => review.pack = pack
    /\ pc \in {"start", "planner", "policy", "enrich"} => review = NoReview
    /\ pc \in {"critic", "synthesis", "validate"} => review # NoReview
    /\ pc \in {"synthesis", "validate"} \/ status = "completed" => approved = review
    /\ status = "completed" => /\ review # NoReview
                               /\ \A f \in NeedsCheck : Represented(f)
    /\ pc # "done" => status = "running"

(* How many late calls each stage can have behind it.                       *)
Late ==
    /\ lateCalls > 0 => late
    /\ pc \in {"start", "planner", "enrich", "review", "validate"} => lateCalls = 0
    /\ pc = "policy" => lateCalls <= 1 /\ (next > 1 => lateCalls = 0)
    /\ pc = "reviewer" => lateCalls <= 2 * (round - 1)
    /\ pc = "critic" => lateCalls <= 2 * round - 1
    /\ pc = "synthesis" => lateCalls <= 2 * round
    /\ LatenessEndsTheStage

(* The worthy requests before request i.                                    *)
WorthyBefore(i) == {j \in 1..i - 1 : Worthy(j)}

Gate ==
    /\ pc \in {"start", "planner"} => plan = <<>>
    /\ pc \in {"start", "planner"} => next = 1
    /\ next = 1 => seen = {} /\ allowed = {}
    /\ seen = {plan[j].key : j \in 1..next - 1}
    /\ GateIsExact
    /\ Cardinality(allowed) = Smaller(Cardinality(WorthyBefore(next)), budget.requests)

IInv == TypeOK /\ Counting /\ Rounds /\ Cards /\ Held /\ Late /\ Gate

-----------------------------------------------------------------------------
(* A deterministic answer never has more cards than its budget.             *)
LEMMA FewCards ==
    ASSUME ReviewAssumption, budget \in Budget
    PROVE  Len(DeterministicCards) \in Nat /\ Len(DeterministicCards) <= budget.cards
<1> DEFINE n == Smaller(Cardinality(Findings), budget.cards)
<1>1. Cardinality(Findings) \in Nat
  BY FS_CardinalityType DEF ReviewAssumption
<1>2. n \in Nat /\ n <= budget.cards
  BY <1>1 DEF Smaller, Budget
<1>3. DeterministicCards \in Seq({DeterministicCards[i] : i \in 1..n})
  BY <1>2 DEF DeterministicCards
<1>4. Len(DeterministicCards) = n
  BY <1>2, <1>3 DEF DeterministicCards
<1>. QED BY <1>2, <1>4

THEOREM Initially == ReviewAssumption /\ Init => IInv
<1> SUFFICES ASSUME ReviewAssumption, Init PROVE IInv
  OBVIOUS
<1>1. budget \in Budget
  BY DEF Init, ReviewAssumption
<1>2. TypeOK
  BY <1>1 DEF Init, TypeOK, Stages, Packs
<1>3. Cardinality({}) = 0
  BY FS_EmptySet
<1>4. Gate
  <2>1. next = 1 /\ seen = {} /\ allowed = {} /\ plan = <<>>
    BY DEF Init
  <2>2. 1..next - 1 = {}
    BY <2>1
  <2>3. Cardinality(allowed) = Smaller(Cardinality(WorthyBefore(next)), budget.requests)
    <3>1. WorthyBefore(next) = {}
      BY <2>2 DEF WorthyBefore
    <3>2. budget.requests \in Nat
      BY <1>1 DEF Budget
    <3>3. Cardinality(WorthyBefore(next)) = 0 /\ Cardinality(allowed) = 0
      BY <1>3, <2>1, <3>1, Zenon
    <3>. QED BY <3>2, <3>3 DEF Smaller
  <2>4. GateIsExact
    BY <2>1, <2>2 DEF GateIsExact
  <2>5. seen = {plan[j].key : j \in 1..next - 1}
    BY <2>1, <2>2
  <2>. QED BY <2>1, <2>3, <2>4, <2>5 DEF Gate
<1>5. Counting /\ Rounds /\ Cards
  BY <1>1 DEF Init, Counting, Rounds, Cards, InReview, Budget
<1>6. Held /\ Late
  BY <1>1 DEF Init, Held, Late, LatenessEndsTheStage, Budget
<1>. QED BY <1>2, <1>4, <1>5, <1>6 DEF IInv

-----------------------------------------------------------------------------
(* What most steps leave alone.                                             *)
LEMMA BudgetType == ReviewAssumption /\ TypeOK => budget \in Budget
BY DEF ReviewAssumption, TypeOK

LEMMA SameGate ==
    ASSUME Gate, UNCHANGED <<plan, budget, gate>>,
           pc' \in {"start", "planner"} => pc \in {"start", "planner"}
    PROVE  Gate'
<1>1. \A i : Worthy(i)' <=> Worthy(i)
  BY DEF Worthy
<1>2. WorthyBefore(next)' = WorthyBefore(next)
  BY <1>1 DEF WorthyBefore, gate
<1>3. GateIsExact'
  BY <1>1 DEF Gate, GateIsExact, gate
<1>4. Cardinality(allowed)' = Smaller(Cardinality(WorthyBefore(next)), budget.requests)'
  BY <1>2 DEF Gate, gate
<1>. QED BY <1>3, <1>4 DEF Gate, gate

LEMMA Ending ==
    ASSUME ReviewAssumption, TypeOK, NEW how, Deterministic(how), UNCHANGED request
    PROVE  pc' = "done" /\ status' = how /\ Len(cards') \in Nat /\ Cards'
<1>1. budget \in Budget
  BY BudgetType
<1>2. Len(DeterministicCards) \in Nat /\ Len(DeterministicCards) <= budget.cards
  BY <1>1, FewCards
<1>. QED BY <1>2 DEF Deterministic, Cards, request

LEMMA Types ==
    ASSUME ReviewAssumption, TypeOK
    PROVE  /\ budget \in Budget
           /\ budget.planner \in Nat /\ budget.requests \in Nat /\ budget.rounds \in Nat
           /\ budget.calls \in Nat /\ budget.cards \in Nat
           /\ usage.planner \in Nat /\ usage.requests \in Nat /\ usage.rounds \in Nat
           /\ usage.calls \in Nat /\ local.calls \in Nat /\ local.audits \in Nat
           /\ audits \in Nat /\ round \in Nat
           /\ sent \in Nat /\ completions \in Nat /\ lateCalls \in Nat
<1>1. budget \in Budget
  BY BudgetType
<1>2. usage \in [planner : Nat, requests : Nat, rounds : Nat, calls : Nat]
  BY DEF TypeOK
<1>3. local \in [calls : Nat, audits : Nat]
  BY DEF TypeOK
<1>4. /\ budget.planner \in Nat /\ budget.requests \in Nat /\ budget.rounds \in Nat
      /\ budget.calls \in Nat /\ budget.cards \in Nat
  BY <1>1 DEF Budget
<1>5. /\ usage.planner \in Nat /\ usage.requests \in Nat /\ usage.rounds \in Nat
      /\ usage.calls \in Nat /\ local.calls \in Nat /\ local.audits \in Nat
  BY <1>2, <1>3
<1>. QED BY <1>1, <1>4, <1>5 DEF TypeOK

(* Most late calls a run may make.                                          *)
Bound == IF budget.rounds = 0 THEN 1 ELSE 2 * budget.rounds

(* What a step that ends the run with the deterministic answer has to see   *)
(* to: the counts.                                                          *)
LEMMA Ended ==
    ASSUME ReviewAssumption, IInv, NEW how \in {"disabled", "fallback"}, Deterministic(how),
           UNCHANGED <<request, late, pack, plan, gate, review>>,
           usage' \in [planner : Nat, requests : Nat, rounds : Nat, calls : Nat],
           round' \in Nat, local' = [calls |-> 0, audits |-> 0],
           approved' \in Review \cup {NoReview},
           sent' \in Nat, completions' \in Nat, lateCalls' \in Nat,
           completions' = usage'.calls, audits' = completions',
           sent' <= budget.calls, sent' \in {completions', completions' + 1},
           usage'.planner <= budget.planner, usage'.rounds <= budget.rounds,
           lateCalls' > 0 => late, lateCalls' <= Bound
    PROVE  IInv'
<1>1. pc' = "done" /\ status' = how /\ Len(cards') \in Nat /\ Cards'
  BY Ending DEF IInv
<1>2. TypeOK'
  <2>1. local' \in [calls : Nat, audits : Nat]
    OBVIOUS
  <2>2. next' = next /\ seen' = seen /\ allowed' = allowed /\ budget' = budget /\ enabled' = enabled
    BY DEF gate, request
  <2>. QED BY <1>1, <2>1, <2>2 DEF IInv, TypeOK, Stages
<1>3. Counting'
  <2>1. local'.calls = 0 /\ local'.audits = 0 /\ usage'.calls + local'.calls = usage'.calls
        /\ audits' + local'.audits = audits'
    OBVIOUS
  <2>. QED BY <1>1, <2>1 DEF Counting, InReview, request
<1>4. Rounds'
  BY <1>1 DEF Rounds, InReview, request
<1>5. Held'
  BY <1>1 DEF IInv, Held
<1>6. Late'
  BY <1>1 DEF Late, LatenessEndsTheStage, Bound, request
<1>7. Gate'
  BY <1>1, SameGate DEF IInv, request
<1>. QED BY <1>1, <1>2, <1>3, <1>4, <1>5, <1>6, <1>7 DEF IInv

(* ... when it asks nothing of the model.                                   *)
LEMMA EndedQuietly ==
    ASSUME ReviewAssumption, IInv, NEW how \in {"disabled", "fallback"}, Deterministic(how),
           ~InReview, pc # "done",
           UNCHANGED <<request, late, pack, plan, gate, audits, round, local, review, history>>,
           usage' \in [planner : Nat, requests : Nat, rounds : Nat, calls : Nat],
           usage'.calls = usage.calls, usage'.planner = usage.planner,
           usage'.rounds = usage.rounds
    PROVE  IInv'
<1>1. TypeOK /\ Counting /\ Rounds /\ Late
  BY DEF IInv
<1>2. sent' = sent /\ completions' = completions /\ lateCalls' = lateCalls /\ approved' = approved
  BY DEF history
<1>3. local' = [calls |-> 0, audits |-> 0]
  BY <1>1 DEF Counting, TypeOK
<1>4. local.calls = 0 /\ local.audits = 0
  BY <1>1 DEF Counting
<1>5. completions' = usage'.calls /\ audits' = completions'
  BY <1>1, <1>2, <1>4, Types DEF Counting
<1>6. sent' <= budget.calls /\ sent' \in {completions', completions' + 1}
  BY <1>1, <1>2 DEF Counting
<1>7. usage'.planner <= budget.planner /\ usage'.rounds <= budget.rounds
  BY <1>1 DEF Counting, Rounds
<1>8. (lateCalls' > 0 => late) /\ lateCalls' <= Bound
  BY <1>1, <1>2 DEF Late, LatenessEndsTheStage, Bound
<1>9. round' \in Nat /\ approved' \in Review \cup {NoReview}
      /\ sent' \in Nat /\ completions' \in Nat /\ lateCalls' \in Nat
  BY <1>1, <1>2 DEF TypeOK
<1>10. UNCHANGED <<request, late, pack, plan, gate, review>>
  OBVIOUS
<1>. QED BY ONLY ReviewAssumption, IInv, how \in {"disabled", "fallback"}, Deterministic(how),
         usage' \in [planner : Nat, requests : Nat, rounds : Nat, calls : Nat],
         <1>3, <1>5, <1>6, <1>7, <1>8, <1>9, <1>10, Ended

(* ... when a call of the model outside of the review failed, or its        *)
(* completion was counted and refused.                                      *)
LEMMA EndedByCall ==
    ASSUME ReviewAssumption, IInv, Fallback, Send, Remaining > 0,
           ~InReview, pc # "done", lateCalls = 0,
           UNCHANGED <<request, late, pack, plan, gate, round, local, review, approved>>,
           usage' \in [planner : Nat, requests : Nat, rounds : Nat, calls : Nat],
           completions' = completions \/ completions' = completions + 1,
           usage'.calls - usage.calls = completions' - completions,
           audits' - audits = completions' - completions, audits' \in Nat,
           usage'.planner <= budget.planner, usage'.rounds = usage.rounds
    PROVE  IInv'
<1>1. TypeOK /\ Counting /\ Rounds /\ Late
  BY DEF IInv
<1>2. local' = [calls |-> 0, audits |-> 0]
  BY <1>1 DEF Counting, TypeOK
<1>3. /\ usage.calls \in Nat /\ audits \in Nat /\ sent \in Nat /\ completions \in Nat
      /\ lateCalls \in Nat /\ budget.rounds \in Nat /\ budget.calls \in Nat /\ round \in Nat
  BY <1>1, Types
<1>14. local.calls = 0 /\ local.audits = 0 /\ sent = completions
       /\ completions = usage.calls /\ completions = audits
  BY ONLY <1>1, <1>3, ~InReview, pc # "done" DEF Counting
<1>4. sent' = sent + 1 /\ lateCalls' \in {0, 1} /\ (lateCalls' > 0 => late)
  BY DEF Send
<1>5. usage'.calls \in Nat
  OBVIOUS
<1>6. completions' = usage'.calls /\ audits' = completions'
  BY <1>3, <1>5, <1>14
<1>7. sent' <= budget.calls
  BY <1>3, <1>4, <1>14 DEF Remaining
<1>8. sent' \in {completions', completions' + 1}
  BY <1>3, <1>4, <1>14
<1>9. usage'.rounds <= budget.rounds
  BY <1>1 DEF Rounds
<1>10. lateCalls' <= Bound
  BY ONLY <1>3, <1>4 DEF Bound
<1>11. /\ round' \in Nat /\ approved' \in Review \cup {NoReview}
       /\ sent' \in Nat /\ completions' \in Nat /\ lateCalls' \in Nat
  <2>1. round' \in Nat /\ approved' \in Review \cup {NoReview}
    BY <1>1 DEF TypeOK
  <2>2. completions' \in Nat
    BY <1>3
  <2>. QED BY <1>3, <1>4, <2>1, <2>2
<1>12. UNCHANGED <<request, late, pack, plan, gate, review>>
  OBVIOUS
<1>13. Deterministic("fallback")
  BY DEF Fallback
<1>. QED BY ONLY ReviewAssumption, IInv,
         usage' \in [planner : Nat, requests : Nat, rounds : Nat, calls : Nat],
         usage'.planner <= budget.planner,
         <1>2, <1>4, <1>6, <1>7, <1>8, <1>9, <1>10, <1>11, <1>12, <1>13, Ended

-----------------------------------------------------------------------------
(* The steps, stage by stage.                                               *)
LEMMA DisabledKeeps == ASSUME ReviewAssumption, IInv, Disabled PROVE IInv'
<1>1. Deterministic("disabled") /\ pc = "start"
  BY DEF Disabled
<1>2. UNCHANGED <<request, late, pack, plan, gate, usage, audits, round, local, review, history>>
  BY DEF Disabled, NoCall
<1>. QED BY <1>1, <1>2, EndedQuietly DEF IInv, TypeOK, InReview

LEMMA StartKeeps == ASSUME ReviewAssumption, IInv, Start PROVE IInv'
<1>1. /\ pc = "start"
      /\ UNCHANGED <<request, late, pack, plan, gate, usage, audits, round, local, review, history>>
  BY DEF Start, NoCall
<1>2. CASE CannotStart
  <2>1. Deterministic("fallback")
    BY <1>2 DEF Start, Fallback
  <2>. QED BY <1>1, <2>1, EndedQuietly DEF IInv, TypeOK, InReview
<1>3. CASE ~CannotStart
  <2>1. pc' = "planner" /\ UNCHANGED result
    BY <1>3 DEF Start
  <2>2. ~late /\ budget.planner > 0 /\ Remaining > 0
    <3>1. budget.planner \in Nat /\ budget.calls \in Nat /\ usage.calls \in Nat
      BY Types DEF IInv
    <3>. QED BY ONLY <1>3, <3>1 DEF CannotStart, Remaining
  <2>3. TypeOK'
    BY <1>1, <2>1 DEF IInv, TypeOK, Stages, request, gate, history, result
  <2>4. Counting'
    <3>1. UNCHANGED <<budget, usage, local, audits, sent, completions>>
      BY <1>1 DEF request, history
    <3>2. budget.calls > 0
      <4>1. budget.calls \in Nat /\ usage.calls \in Nat
        BY Types DEF IInv
      <4>. QED BY ONLY <2>2, <4>1 DEF Remaining
    <3>. QED BY <1>1, <2>1, <2>2, <3>1, <3>2 DEF IInv, Counting, InReview
  <2>5. Rounds' /\ Cards'
    BY <1>1, <2>1 DEF IInv, Rounds, Cards, InReview, request, result
  <2>6. Held'
    BY <1>1, <2>1 DEF IInv, Held, history, result
  <2>7. Late'
    BY <1>1, <2>1 DEF IInv, Late, LatenessEndsTheStage, request, gate, history
  <2>8. Gate'
    BY <1>1, SameGate DEF IInv, request
  <2>. QED BY <2>3, <2>4, <2>5, <2>6, <2>7, <2>8 DEF IInv
<1>. QED BY <1>2, <1>3

LEMMA PlannerDownKeeps == ASSUME ReviewAssumption, IInv, PlannerDown PROVE IInv'
<1>1. pc = "planner" /\ Send /\ Fallback
  BY DEF PlannerDown
<1>2. UNCHANGED <<request, late, pack, plan, gate, usage, audits, round, local, review,
                  completions, approved>>
  BY DEF PlannerDown
<1>3. Remaining > 0 /\ usage.planner <= budget.planner /\ lateCalls = 0 /\ ~InReview /\ pc # "done"
  BY <1>1, Types DEF IInv, Counting, Late, Remaining, InReview
<1>4. /\ usage' \in [planner : Nat, requests : Nat, rounds : Nat, calls : Nat]
      /\ usage'.calls - usage.calls = completions' - completions
      /\ audits' - audits = completions' - completions /\ audits' \in Nat
  BY <1>2, Types DEF IInv, TypeOK
<1>. QED BY <1>1, <1>2, <1>3, <1>4, EndedByCall

LEMMA PlannerAnswersKeeps == ASSUME ReviewAssumption, IInv, PlannerAnswers PROVE IInv'
<1>1. /\ pc = "planner" /\ Send /\ completions' = completions + 1
      /\ UNCHANGED <<request, late, pack, gate, round, local, review, approved>>
      /\ usage' = [usage EXCEPT !.calls = @ + 1, !.planner = @ + 1]
      /\ audits' = audits + 1
  BY DEF PlannerAnswers, Answered
<1>2. /\ usage.planner \in Nat /\ usage.calls \in Nat /\ audits \in Nat
      /\ completions \in Nat /\ lateCalls \in Nat /\ sent \in Nat
      /\ budget.planner \in Nat /\ budget.calls \in Nat /\ budget.rounds \in Nat
  BY Types DEF IInv
<1>3. /\ usage' \in [planner : Nat, requests : Nat, rounds : Nat, calls : Nat]
      /\ usage'.calls = usage.calls + 1 /\ usage'.planner = usage.planner + 1
      /\ usage'.rounds = usage.rounds
  <2> DEFINE counted == [usage EXCEPT !.calls = @ + 1]
  <2>1. /\ counted \in [planner : Nat, requests : Nat, rounds : Nat, calls : Nat]
        /\ counted.calls = usage.calls + 1 /\ counted.planner = usage.planner
        /\ counted.rounds = usage.rounds
    <3>1. usage \in [planner : Nat, requests : Nat, rounds : Nat, calls : Nat]
      BY DEF IInv, TypeOK
    <3>. QED BY ONLY <1>2, <3>1
  <2>2. usage' = [counted EXCEPT !.planner = @ + 1]
    BY <1>1, Zenon
  <2> HIDE DEF counted
  <2>. QED BY <1>2, <2>1, <2>2
<1>4. /\ completions = 0 /\ budget.calls > 0 /\ usage.planner = 0 /\ budget.planner > 0
      /\ local.calls = 0 /\ local.audits = 0
      /\ sent = completions /\ completions = usage.calls /\ completions = audits
  BY <1>1, Types DEF IInv, Counting, InReview
<1>5. lateCalls = 0
  BY <1>1 DEF IInv, Late
<1>6. CASE Fallback /\ UNCHANGED plan
  <2>1. Remaining > 0
    BY <1>2, <1>4 DEF Remaining
  <2>2. /\ usage'.planner <= budget.planner
        /\ usage'.calls - usage.calls = completions' - completions
        /\ audits' - audits = completions' - completions /\ audits' \in Nat
    BY <1>1, <1>2, <1>3, <1>4
  <2>3. ~InReview /\ pc # "done"
    BY <1>1 DEF InReview
  <2>4. UNCHANGED <<request, late, pack, plan, gate, round, local, review, approved>>
    BY <1>1, <1>6
  <2>5. completions' = completions + 1 /\ Send /\ Fallback
    BY <1>1, <1>6
  <2>. QED BY ONLY ReviewAssumption, IInv, <1>3, <1>5, <2>1, <2>2, <2>3, <2>4, <2>5, EndedByCall
<1>7. CASE plan' \in Plans /\ pc' = "policy" /\ UNCHANGED result
  <2>1. sent' = sent + 1 /\ lateCalls' \in {0, 1} /\ (lateCalls' > 0 => late)
    BY <1>1, <1>5 DEF Send
  <2>2. plan' \in Seq(Request)
    BY <1>7 DEF ReviewAssumption
  <2>3. next = 1 /\ seen = {} /\ allowed = {} /\ next' = 1 /\ seen' = {} /\ allowed' = {}
    BY <1>1 DEF IInv, Gate, gate
  <2>4. 1..next - 1 = {} /\ (1..next - 1)' = {}
    BY <2>3
  <2>5. TypeOK'
    <3>1. next' \in 1..Len(plan') + 1 /\ allowed' \subseteq 1..next' - 1 /\ seen' \subseteq STRING
      BY <2>2, <2>3
    <3>2. audits' \in Nat /\ sent' \in Nat /\ completions' \in Nat /\ lateCalls' \in Nat
      BY <1>1, <1>2, <2>1
    <3>3. UNCHANGED <<budget, enabled, cards, status>>
      BY <1>1, <1>7 DEF request, result
    <3>. QED BY <1>1, <1>3, <1>7, <2>2, <3>1, <3>2, <3>3 DEF IInv, TypeOK, Stages
  <2>6. Counting'
    <3>1. local' = local /\ budget' = budget
      BY <1>1 DEF request
    <3>. QED BY <1>1, <1>2, <1>3, <1>4, <1>7, <2>1, <3>1 DEF Counting, InReview
  <2>7. Rounds' /\ Cards'
    BY <1>1, <1>3, <1>7 DEF IInv, Rounds, Cards, InReview, request, result
  <2>8. Held'
    BY <1>1, <1>7 DEF IInv, Held, result
  <2>9. Late'
    <3>1. late' = late /\ next' = 1 /\ budget' = budget
      BY <1>1, <2>3 DEF request
    <3>. QED BY <1>2, <1>7, <2>1, <3>1 DEF Late, LatenessEndsTheStage
  <2>10. Gate'
    <3>1. GateIsExact'
      BY <2>3, <2>4 DEF GateIsExact
    <3>2. WorthyBefore(next) = {} /\ WorthyBefore(next)' = {}
      BY <2>4 DEF WorthyBefore
    <3>3. Cardinality(WorthyBefore(next)') = Cardinality(WorthyBefore(next))
      BY <3>2, Zenon
    <3>4. allowed' = allowed /\ budget' = budget
      BY <1>1 DEF gate, request
    <3>5. Cardinality(allowed)' = Smaller(Cardinality(WorthyBefore(next)), budget.requests)'
      BY <3>3, <3>4 DEF IInv, Gate
    <3>6. seen' = {plan[j].key : j \in 1..next - 1}'
      BY <2>3, <2>4
    <3>. QED BY <1>7, <2>3, <3>1, <3>5, <3>6 DEF Gate
  <2>. QED BY <2>5, <2>6, <2>7, <2>8, <2>9, <2>10 DEF IInv
<1>. QED BY <1>6, <1>7 DEF PlannerAnswers

LEMMA TooLateKeeps == ASSUME ReviewAssumption, IInv, TooLateForPolicy PROVE IInv'
<1>1. Deterministic("fallback") /\ pc = "policy"
  BY DEF TooLateForPolicy, Fallback
<1>2. UNCHANGED <<request, late, pack, plan, gate, usage, audits, round, local, review, history>>
  BY DEF TooLateForPolicy, NoCall
<1>. QED BY <1>1, <1>2, EndedQuietly DEF IInv, TypeOK, InReview

(* One request more at the gate.                                            *)
LEMMA GateStep ==
    ASSUME ReviewAssumption, TypeOK, Gate, next <= Len(plan), Decide(plan[next]),
           next' = next + 1, UNCHANGED <<plan, budget, pc>>, pc = "policy"
    PROVE  Gate'
<1>1. next \in Nat /\ next >= 1 /\ budget.requests \in Nat
  BY Types DEF TypeOK
<1>2. 1..next' - 1 = (1..next - 1) \cup {next} /\ next \notin 1..next - 1
  BY <1>1
<1>3. \A i : Worthy(i)' <=> Worthy(i)
  BY DEF Worthy
<1>4. Worthy(next) <=> plan[next].fits /\ plan[next].key \notin seen
  <2>1. seen = {plan[j].key : j \in 1..next - 1}
    BY DEF Gate
  <2>. QED BY <2>1 DEF Worthy
<1>5. IsFiniteSet(WorthyBefore(next)) /\ Cardinality(WorthyBefore(next)) \in Nat
  <2>1. WorthyBefore(next) \subseteq 1..next - 1
    BY DEF WorthyBefore
  <2>2. IsFiniteSet(1..next - 1)
    BY <1>1, FS_Interval
  <2>. QED BY <2>1, <2>2, FS_Subset, FS_CardinalityType
<1>6. IsFiniteSet(allowed) /\ Cardinality(allowed) \in Nat /\ next \notin allowed
  <2>1. allowed \subseteq 1..next - 1
    BY DEF TypeOK
  <2>2. IsFiniteSet(1..next - 1)
    BY <1>1, FS_Interval
  <2>. QED BY <1>2, <2>1, <2>2, FS_Subset, FS_CardinalityType
<1>7. Cardinality(WorthyBefore(next)') =
        IF Worthy(next) THEN Cardinality(WorthyBefore(next)) + 1
                        ELSE Cardinality(WorthyBefore(next))
  <2>1. CASE Worthy(next)
    <3>1. WorthyBefore(next)' = WorthyBefore(next) \cup {next}
      BY <1>2, <1>3, <2>1 DEF WorthyBefore
    <3>2. next \notin WorthyBefore(next)
      BY <1>2 DEF WorthyBefore
    <3>3. Cardinality(WorthyBefore(next) \cup {next}) = Cardinality(WorthyBefore(next)) + 1
      BY <1>5, <3>2, FS_AddElement
    <3>4. Cardinality(WorthyBefore(next)') = Cardinality(WorthyBefore(next) \cup {next})
      BY <3>1, Zenon
    <3>. QED BY <2>1, <3>3, <3>4
  <2>2. CASE ~Worthy(next)
    <3>1. WorthyBefore(next)' = WorthyBefore(next)
      BY <1>2, <1>3, <2>2 DEF WorthyBefore
    <3>2. Cardinality(WorthyBefore(next)') = Cardinality(WorthyBefore(next))
      BY <3>1, Zenon
    <3>. QED BY <2>2, <3>2
  <2>. QED BY <2>1, <2>2
<1>8. Cardinality(allowed) < budget.requests <=> Cardinality(WorthyBefore(next)) < budget.requests
  <2>1. Cardinality(allowed) = Smaller(Cardinality(WorthyBefore(next)), budget.requests)
    BY DEF Gate
  <2>. QED BY <1>1, <1>5, <1>6, <2>1 DEF Smaller
<1> DEFINE taken == Worthy(next) /\ Cardinality(WorthyBefore(next)) < budget.requests
<1>9. allowed' = IF taken THEN allowed \cup {next} ELSE allowed
  BY <1>4, <1>8 DEF Decide
<1>10. Cardinality(allowed)' = Smaller(Cardinality(WorthyBefore(next)), budget.requests)'
  <2>1. Cardinality(allowed) = Smaller(Cardinality(WorthyBefore(next)), budget.requests)
    BY DEF Gate
  <2>2. Cardinality(allowed') = IF taken THEN Cardinality(allowed) + 1 ELSE Cardinality(allowed)
    <3>1. Cardinality(allowed \cup {next}) = Cardinality(allowed) + 1
      BY <1>6, FS_AddElement
    <3>2. CASE taken
      <4>1. Cardinality(allowed') = Cardinality(allowed \cup {next})
        BY <1>9, <3>2, Zenon
      <4>. QED BY <3>1, <3>2, <4>1
    <3>3. CASE ~taken
      <4>1. Cardinality(allowed') = Cardinality(allowed)
        BY <1>9, <3>3, Zenon
      <4>. QED BY <3>3, <4>1
    <3>. QED BY <3>2, <3>3
  <2>3. budget'.requests = budget.requests
    OBVIOUS
  <2>. QED BY <1>1, <1>5, <1>6, <1>7, <2>1, <2>2, <2>3 DEF Smaller
<1>11. \A i : Cardinality({j \in 1..i - 1 : Worthy(j)}') = Cardinality(WorthyBefore(i))
  <2> TAKE i
  <2>1. {j \in 1..i - 1 : Worthy(j)}' = WorthyBefore(i)
    BY <1>3 DEF WorthyBefore
  <2>. QED BY <2>1, Zenon
<1>12. GateIsExact'
  <2>1. allowed = {i \in 1..next - 1 : Worthy(i) /\ Cardinality(WorthyBefore(i)) < budget.requests}
    BY DEF Gate, GateIsExact, WorthyBefore
  <2>2. allowed' = {i \in 1..next' - 1 :
                      Worthy(i) /\ Cardinality(WorthyBefore(i)) < budget.requests}
    <3>1. CASE taken
      BY <1>2, <1>9, <2>1, <3>1, Zenon
    <3>2. CASE ~taken
      BY <1>2, <1>9, <2>1, <3>2, Zenon
    <3>. QED BY <3>1, <3>2
  <2>3. \A i : (Worthy(i) /\ Cardinality({j \in 1..i - 1 : Worthy(j)}) < budget.requests)'
               <=> Worthy(i) /\ Cardinality(WorthyBefore(i)) < budget.requests
    BY <1>3, <1>11
  <2>. QED BY <2>2, <2>3 DEF GateIsExact
<1>13. seen' = {plan[j].key : j \in 1..next - 1}'
  <2>1. seen = {plan[j].key : j \in 1..next - 1}
    BY DEF Gate
  <2>2. seen' = seen \cup {plan[next].key}
    BY DEF Decide
  <2>. QED BY <1>2, <2>1, <2>2
<1>14. next' # 1
  BY <1>1
<1>. QED BY <1>10, <1>12, <1>13, <1>14 DEF Gate

LEMMA EvaluateKeeps == ASSUME ReviewAssumption, IInv, Evaluate PROVE IInv'
<1>1. /\ pc = "policy" /\ (next = 1 => ~late) /\ next <= Len(plan)
      /\ Decide(plan[next]) /\ next' = next + 1
      /\ UNCHANGED <<pc, request, late, pack, plan, usage, audits, round, local, review, result,
                     history>>
  BY DEF Evaluate, NoCall
<1>2. TypeOK'
  <2>1. plan \in Seq(Request) /\ next \in 1..Len(plan) + 1 /\ allowed \subseteq 1..next - 1
    BY DEF IInv, TypeOK
  <2>2. next \in 1..Len(plan) /\ plan[next] \in Request
    BY <1>1, <2>1
  <2>3. next' \in 1..Len(plan') + 1 /\ allowed' \subseteq 1..next' - 1
    BY <1>1, <2>1, <2>2 DEF Decide
  <2>4. seen' \subseteq STRING
    BY <1>1, <2>2 DEF Decide, Request, IInv, TypeOK
  <2>. QED BY <1>1, <2>3, <2>4 DEF IInv, TypeOK, request, result, history
<1>3. Counting'
  BY <1>1 DEF IInv, Counting, InReview, request, history
<1>4. Rounds' /\ Cards'
  BY <1>1 DEF IInv, Rounds, Cards, InReview, request, result
<1>5. Held'
  BY <1>1 DEF IInv, Held, NeedsCheck, Represented, result, history
<1>6. Late'
  <2>1. lateCalls \in Nat /\ next \in Nat /\ next >= 1
    BY Types DEF IInv, TypeOK
  <2>2. lateCalls = 0
    BY <1>1, <2>1 DEF IInv, Late
  <2>3. lateCalls' = 0 /\ budget' = budget /\ budget.rounds \in Nat
    BY <1>1, <2>2, Types DEF IInv, history, request
  <2>. QED BY <1>1, <2>3 DEF Late, LatenessEndsTheStage
<1>7. Gate'
  BY <1>1, GateStep DEF IInv, request
<1>. QED BY <1>2, <1>3, <1>4, <1>5, <1>6, <1>7 DEF IInv

LEMMA EvaluatedKeeps == ASSUME ReviewAssumption, IInv, Evaluated PROVE IInv'
<1>1. /\ pc = "policy" /\ (next = 1 => ~late) /\ next > Len(plan)
      /\ usage' = [usage EXCEPT !.requests = Cardinality(allowed)]
      /\ UNCHANGED <<request, late, pack, plan, gate, audits, round, local, review, history>>
  BY DEF Evaluated, NoCall
<1>2. /\ usage' \in [planner : Nat, requests : Nat, rounds : Nat, calls : Nat]
      /\ usage'.calls = usage.calls /\ usage'.planner = usage.planner
      /\ usage'.rounds = usage.rounds
  <2>1. usage \in [planner : Nat, requests : Nat, rounds : Nat, calls : Nat]
    BY DEF IInv, TypeOK
  <2>2. Cardinality(allowed) \in Nat
    <3>1. allowed \subseteq 1..next - 1 /\ next \in 1..Len(plan) + 1 /\ Len(plan) \in Nat
      BY DEF IInv, TypeOK
    <3>2. IsFiniteSet(1..next - 1)
      BY <3>1, FS_Interval
    <3>. QED BY <3>1, <3>2, FS_Subset, FS_CardinalityType
  <2>. QED BY ONLY <1>1, <2>1, <2>2
<1>3. CASE late
  <2>1. Deterministic("fallback") /\ ~InReview /\ pc # "done"
    BY <1>1, <1>3 DEF Evaluated, Fallback, InReview
  <2>. QED BY <1>1, <1>2, <2>1, EndedQuietly
<1>4. CASE ~late
  <2>1. pc' = "enrich" /\ UNCHANGED result
    BY <1>4 DEF Evaluated
  <2>2. TypeOK'
    BY <1>1, <1>2, <2>1 DEF IInv, TypeOK, Stages, request, gate, history, result
  <2>3. Counting'
    BY <1>1, <1>2, <2>1 DEF IInv, Counting, InReview, request, history
  <2>4. Rounds' /\ Cards'
    BY <1>1, <1>2, <2>1 DEF IInv, Rounds, Cards, InReview, request, result
  <2>5. Held'
    BY <1>1, <2>1 DEF IInv, Held, history, result
  <2>6. Late'
    <3>1. lateCalls = 0
      BY <1>4, Types DEF IInv, Late
    <3>2. lateCalls' = 0 /\ budget' = budget /\ budget.rounds \in Nat
      BY <1>1, <3>1, Types DEF IInv, history, request
    <3>. QED BY <2>1, <3>2 DEF Late, LatenessEndsTheStage
  <2>7. Gate'
    BY <1>1, <2>1, SameGate DEF IInv, request
  <2>. QED BY <2>2, <2>3, <2>4, <2>5, <2>6, <2>7 DEF IInv
<1>. QED BY <1>3, <1>4

LEMMA EnrichKeeps == ASSUME ReviewAssumption, IInv, Enrich PROVE IInv'
<1>1. /\ pc = "enrich" /\ pc' = "review"
      /\ UNCHANGED <<request, late, plan, gate, usage, audits, round, local, review, result, history>>
  BY DEF Enrich, NoCall
<1>2. TypeOK'
  <2>1. pack' \in Packs
    BY DEF Enrich, IInv, TypeOK
  <2>. QED BY <1>1, <2>1 DEF IInv, TypeOK, Stages, request, gate, history, result
<1>3. Counting'
  BY <1>1 DEF IInv, Counting, InReview, request, history
<1>4. Rounds' /\ Cards'
  BY <1>1 DEF IInv, Rounds, Cards, InReview, request, result
<1>5. Held'
  BY <1>1 DEF IInv, Held, history, result
<1>6. Late'
  BY <1>1 DEF IInv, Late, LatenessEndsTheStage, request, gate, history
<1>7. Gate'
  BY <1>1, SameGate DEF IInv, request
<1>. QED BY <1>2, <1>3, <1>4, <1>5, <1>6, <1>7 DEF IInv

LEMMA EnrichFailsKeeps == ASSUME ReviewAssumption, IInv, EnrichFails PROVE IInv'
<1>1. Deterministic("fallback") /\ pc = "enrich"
  BY DEF EnrichFails, Fallback
<1>2. UNCHANGED <<request, late, pack, plan, gate, usage, audits, round, local, review, history>>
  BY DEF EnrichFails, NoCall
<1>. QED BY <1>1, <1>2, EndedQuietly DEF IInv, TypeOK, InReview

LEMMA StartReviewKeeps == ASSUME ReviewAssumption, IInv, StartReview PROVE IInv'
<1>1. /\ pc = "review"
      /\ UNCHANGED <<request, late, pack, plan, gate, usage, audits, local, review, history>>
  BY DEF StartReview, NoCall
<1>2. CASE late \/ budget.rounds = 0 \/ Remaining = 0
  <2>1. Deterministic("fallback") /\ round' = round
    BY <1>2 DEF StartReview, Fallback
  <2>. QED BY <1>1, <2>1, EndedQuietly DEF IInv, TypeOK, InReview
<1>3. CASE ~(late \/ budget.rounds = 0 \/ Remaining = 0)
  <2>1. pc' = "reviewer" /\ round' = 1 /\ UNCHANGED result
    BY <1>3 DEF StartReview
  <2>2. TypeOK'
    BY <1>1, <2>1 DEF IInv, TypeOK, Stages, request, gate, history, result
  <2>3. Counting'
    BY <1>1, <2>1 DEF IInv, Counting, InReview, request, history
  <2>4. Rounds' /\ Cards'
    <3>1. budget.rounds \in Nat /\ budget.rounds # 0
      BY <1>3, Types DEF IInv
    <3>. QED BY <1>1, <2>1, <3>1 DEF IInv, Rounds, Cards, InReview, request, result
  <2>5. Held'
    BY <1>1, <2>1 DEF IInv, Held, history, result
  <2>6. Late'
    BY <1>1, <2>1 DEF IInv, Late, LatenessEndsTheStage, request, gate, history
  <2>7. Gate'
    BY <1>1, <2>1, SameGate DEF IInv, request
  <2>. QED BY <2>2, <2>3, <2>4, <2>5, <2>6, <2>7 DEF IInv
<1>. QED BY <1>2, <1>3

-----------------------------------------------------------------------------
(* The steps of the review.                                                 *)
LEMMA Merged ==
    ASSUME TypeOK, NEW calls \in Nat, NEW trail \in Nat, NEW rounds \in Nat,
           MergeLocal(calls, trail, rounds)
    PROVE  /\ usage' \in [planner : Nat, requests : Nat, rounds : Nat, calls : Nat]
           /\ usage'.calls = usage.calls + calls /\ usage'.planner = usage.planner
           /\ usage'.rounds = rounds
           /\ audits' = audits + trail /\ local' = [calls |-> 0, audits |-> 0]
<1> DEFINE counted == [usage EXCEPT !.calls = @ + calls]
<1>1. usage \in [planner : Nat, requests : Nat, rounds : Nat, calls : Nat]
  BY DEF TypeOK
<1>2. /\ counted \in [planner : Nat, requests : Nat, rounds : Nat, calls : Nat]
      /\ counted.calls = usage.calls + calls /\ counted.planner = usage.planner
  BY ONLY <1>1, calls \in Nat
<1>3. usage' = [counted EXCEPT !.rounds = rounds]
  BY Zenon DEF MergeLocal
<1>4. audits' = audits + trail /\ local' = [calls |-> 0, audits |-> 0]
  BY DEF MergeLocal
<1> HIDE DEF counted
<1>. QED BY ONLY <1>2, <1>3, <1>4, rounds \in Nat

(* A review that falls back hands over what it counted.                     *)
LEMMA EndedInReview ==
    ASSUME ReviewAssumption, IInv, InReview,
           NEW calls \in Nat, NEW trail \in Nat, NEW rounds \in Nat,
           ReviewFallback(calls, trail, rounds), rounds <= budget.rounds,
           UNCHANGED <<request, late, pack, plan, gate, round, review, approved>>,
           completions' \in Nat, sent' \in Nat, lateCalls' \in Nat,
           calls - local.calls = completions' - completions,
           trail - local.audits = completions' - completions,
           sent' <= budget.calls, sent' \in {completions', completions' + 1},
           lateCalls' > 0 => late, lateCalls' <= Bound
    PROVE  IInv'
<1>1. TypeOK /\ Counting
  BY DEF IInv
<1>2. MergeLocal(calls, trail, rounds) /\ Deterministic("fallback")
  BY DEF ReviewFallback, Fallback
<1>3. /\ usage' \in [planner : Nat, requests : Nat, rounds : Nat, calls : Nat]
      /\ usage'.calls = usage.calls + calls /\ usage'.planner = usage.planner
      /\ usage'.rounds = rounds
      /\ audits' = audits + trail /\ local' = [calls |-> 0, audits |-> 0]
  BY <1>1, <1>2, Merged
<1>4. /\ usage.calls \in Nat /\ audits \in Nat /\ local.calls \in Nat /\ local.audits \in Nat
      /\ completions \in Nat
  BY <1>1, Types
<1>5. /\ completions = usage.calls + local.calls /\ completions = audits + local.audits
      /\ usage.planner <= budget.planner
  BY <1>1 DEF Counting
<1>6. completions' = usage'.calls /\ audits' = completions'
  BY ONLY <1>3, <1>4, <1>5, completions' \in Nat, calls \in Nat, trail \in Nat,
     calls - local.calls = completions' - completions,
     trail - local.audits = completions' - completions
<1>7. usage'.planner <= budget.planner /\ usage'.rounds <= budget.rounds
  BY <1>3, <1>5
<1>8. round' \in Nat /\ approved' \in Review \cup {NoReview}
  BY <1>1 DEF TypeOK
<1>9. UNCHANGED <<request, late, pack, plan, gate, review>>
  OBVIOUS
<1>. QED BY ONLY ReviewAssumption, IInv, <1>2, <1>3, <1>6, <1>7, <1>8, <1>9, Ended,
         completions' \in Nat, sent' \in Nat, lateCalls' \in Nat,
         sent' <= budget.calls, sent' \in {completions', completions' + 1},
         lateCalls' > 0 => late, lateCalls' <= Bound

LEMMA ReviewCall ==
    ASSUME ReviewAssumption, IInv, InReview, MayCall, Send
    PROVE  /\ round \in Nat /\ round >= 1 /\ round <= budget.rounds
           /\ sent = completions /\ sent' = sent + 1 /\ sent' \in Nat /\ sent' <= budget.calls
           /\ completions \in Nat /\ local.calls \in Nat /\ local.audits \in Nat
           /\ lateCalls' \in Nat /\ (lateCalls' > 0 => late) /\ lateCalls' <= Bound
           /\ pc = "reviewer" => lateCalls' <= 2 * round - 1
           /\ pc = "critic" => lateCalls' <= 2 * round
<1>1. TypeOK /\ Counting /\ Rounds /\ Late
  BY DEF IInv
<1>2. /\ usage.calls \in Nat /\ local.calls \in Nat /\ local.audits \in Nat /\ round \in Nat
      /\ sent \in Nat /\ completions \in Nat /\ lateCalls \in Nat
      /\ budget.calls \in Nat /\ budget.rounds \in Nat
  BY <1>1, Types
<1>3. round >= 1 /\ round <= budget.rounds
  BY <1>1 DEF Rounds
<1>4. sent = completions /\ completions = usage.calls + local.calls
  BY <1>1 DEF Counting, InReview
<1>5. sent' = sent + 1 /\ lateCalls' = IF late THEN lateCalls + 1 ELSE lateCalls
  BY DEF Send
<1>6. sent' <= budget.calls
  BY <1>2, <1>4, <1>5 DEF MayCall, Remaining
<1>7. /\ pc = "reviewer" => lateCalls <= 2 * (round - 1)
      /\ pc = "critic" => lateCalls <= 2 * round - 1
      /\ lateCalls > 0 => late
  BY <1>1 DEF Late
<1>8. /\ pc = "reviewer" => lateCalls' <= 2 * round - 1
      /\ pc = "critic" => lateCalls' <= 2 * round
  BY <1>2, <1>5, <1>7
<1>9. lateCalls' <= Bound
  BY ONLY <1>2, <1>3, <1>5, <1>7, <1>8, InReview DEF Bound, InReview
<1>. QED BY <1>2, <1>3, <1>4, <1>5, <1>6, <1>7, <1>8, <1>9

LEMMA NoCallLeftKeeps == ASSUME ReviewAssumption, IInv, NoCallLeft PROVE IInv'
<1> DEFINE rounds == IF pc = "critic" THEN round ELSE round - 1
<1>1. /\ InReview /\ ReviewFallback(local.calls, local.audits, rounds)
      /\ UNCHANGED <<request, late, pack, plan, gate, round, review, history>>
  BY DEF NoCallLeft, NoCall, Untouched, InReview
<1>2. TypeOK /\ Counting /\ Rounds /\ Late
  BY DEF IInv
<1>3. /\ local.calls \in Nat /\ local.audits \in Nat /\ round \in Nat /\ budget.rounds \in Nat
      /\ completions \in Nat /\ sent \in Nat /\ lateCalls \in Nat
  BY <1>2, Types
<1>4. rounds \in Nat /\ rounds <= budget.rounds
  BY <1>1, <1>2, <1>3 DEF Rounds
<1>5. sent' = sent /\ completions' = completions /\ lateCalls' = lateCalls /\ approved' = approved
  BY <1>1 DEF history
<1>6. sent' <= budget.calls /\ sent' \in {completions', completions' + 1}
  BY <1>2, <1>5 DEF Counting
<1>7. (lateCalls' > 0 => late) /\ lateCalls' <= Bound
  BY <1>2, <1>5 DEF Late, LatenessEndsTheStage, Bound
<1>8. /\ local.calls - local.calls = completions' - completions
      /\ local.audits - local.audits = completions' - completions
      /\ completions' \in Nat /\ sent' \in Nat /\ lateCalls' \in Nat
  BY <1>3, <1>5
<1>9. UNCHANGED <<request, late, pack, plan, gate, round, review, approved>>
  BY <1>1, <1>5
<1> HIDE DEF rounds
<1>. QED BY ONLY ReviewAssumption, IInv, <1>1, <1>3, <1>4, <1>6, <1>7, <1>8, <1>9, EndedInReview

LEMMA ReviewCallDownKeeps == ASSUME ReviewAssumption, IInv, ReviewCallDown PROVE IInv'
<1> DEFINE rounds == IF pc = "critic" THEN round ELSE round - 1
<1>1. /\ InReview /\ MayCall /\ Send /\ completions' = completions
      /\ ReviewFallback(local.calls, local.audits, rounds)
  BY DEF ReviewCallDown, InReview
<1>2. UNCHANGED <<request, late, pack, plan, gate, round, review, approved>>
  BY DEF ReviewCallDown, Untouched
<1>3. /\ round \in Nat /\ round >= 1 /\ round <= budget.rounds
      /\ sent = completions /\ sent' = sent + 1 /\ sent' \in Nat /\ sent' <= budget.calls
      /\ completions \in Nat /\ local.calls \in Nat /\ local.audits \in Nat
      /\ lateCalls' \in Nat /\ (lateCalls' > 0 => late) /\ lateCalls' <= Bound
  BY <1>1, ReviewCall
<1>4. budget.rounds \in Nat
  BY Types DEF IInv
<1>5. rounds \in Nat /\ rounds <= budget.rounds
  BY ONLY <1>3, <1>4
<1>6. /\ completions' \in Nat /\ sent' \in {completions', completions' + 1}
      /\ local.calls - local.calls = completions' - completions
      /\ local.audits - local.audits = completions' - completions
  BY <1>1, <1>3
<1> HIDE DEF rounds
<1>. QED BY ONLY ReviewAssumption, IInv, <1>1, <1>2, <1>3, <1>5, <1>6, EndedInReview

(* A completion that ends the review, because it was refused or because it  *)
(* objects in the last round.                                               *)
LEMMA LastCallKeeps ==
    ASSUME ReviewAssumption, IInv, InReview, MayCall, Send, Answered, UNCHANGED approved,
           ReviewFallback(local.calls + 1, local.audits + 1, round),
           Untouched, UNCHANGED <<round, review>>
    PROVE  IInv'
<1>1. UNCHANGED <<request, late, pack, plan, gate, round, review, approved>>
  BY DEF Untouched
<1>2. /\ round \in Nat /\ round >= 1 /\ round <= budget.rounds
      /\ sent = completions /\ sent' = sent + 1 /\ sent' \in Nat /\ sent' <= budget.calls
      /\ completions \in Nat /\ local.calls \in Nat /\ local.audits \in Nat
      /\ lateCalls' \in Nat /\ (lateCalls' > 0 => late) /\ lateCalls' <= Bound
  BY ReviewCall
<1>3. completions' = completions + 1
  BY DEF Answered
<1>4. /\ completions' \in Nat /\ sent' \in {completions', completions' + 1}
      /\ local.calls + 1 \in Nat /\ local.audits + 1 \in Nat
      /\ (local.calls + 1) - local.calls = completions' - completions
      /\ (local.audits + 1) - local.audits = completions' - completions
  BY <1>2, <1>3
<1>. QED BY ONLY ReviewAssumption, IInv, InReview, <1>1, <1>2, <1>4, EndedInReview,
         ReviewFallback(local.calls + 1, local.audits + 1, round)

LEMMA ReviewCallInvalidKeeps == ASSUME ReviewAssumption, IInv, ReviewCallInvalid PROVE IInv'
BY LastCallKeeps DEF ReviewCallInvalid, InReview

(* A completion that keeps the review going.                                *)
LEMMA CountedKeeps ==
    ASSUME ReviewAssumption, IInv, InReview, MayCall, Send, Answered, Count,
           Untouched, UNCHANGED <<usage, audits, result, approved>>,
           pc' \in {"reviewer", "critic"}
    PROVE  /\ Counting' /\ Cards' /\ Gate'
           /\ local' \in [calls : Nat, audits : Nat]
           /\ sent' \in Nat /\ completions' \in Nat /\ lateCalls' \in Nat
<1>1. TypeOK /\ Counting
  BY DEF IInv
<1>2. /\ round \in Nat /\ round >= 1 /\ round <= budget.rounds
      /\ sent = completions /\ sent' = sent + 1 /\ sent' \in Nat /\ sent' <= budget.calls
      /\ completions \in Nat /\ local.calls \in Nat /\ local.audits \in Nat
      /\ lateCalls' \in Nat
  BY ReviewCall
<1>3. completions' = completions + 1
  BY DEF Answered
<1>4. /\ local' \in [calls : Nat, audits : Nat]
      /\ local'.calls = local.calls + 1 /\ local'.audits = local.audits + 1
  BY <1>2 DEF Count
<1>5. usage.calls \in Nat /\ audits \in Nat
  BY <1>1, Types
<1>6. /\ completions = usage.calls + local.calls /\ completions = audits + local.audits
      /\ usage.planner <= budget.planner
  BY <1>1 DEF Counting
<1>7. /\ completions' = usage'.calls + local'.calls
      /\ completions' = audits' + local'.audits
      /\ sent' = completions'
  <2>1. usage' = usage /\ audits' = audits
    OBVIOUS
  <2>. QED BY ONLY <1>2, <1>3, <1>4, <1>5, <1>6, <2>1
<1>8. budget' = budget
  BY DEF Untouched, request
<1>9. Counting'
  BY <1>2, <1>6, <1>7, <1>8 DEF Counting, InReview
<1>10. Cards'
  BY <1>8 DEF IInv, Cards, result
<1>11. Gate'
  <2>1. UNCHANGED <<plan, budget, gate>>
    BY DEF Untouched, request
  <2>2. Gate /\ pc' \notin {"start", "planner"}
    BY DEF IInv
  <2>. QED BY ONLY <2>1, <2>2, SameGate
<1>. QED BY <1>2, <1>3, <1>4, <1>9, <1>10, <1>11

LEMMA ReviewerKeeps == ASSUME ReviewAssumption, IInv, Reviewer PROVE IInv'
<1>1. /\ pc = "reviewer" /\ pc' = "critic" /\ InReview
      /\ MayCall /\ Send /\ Answered /\ Count /\ Untouched
      /\ UNCHANGED <<usage, audits, round, result, approved>>
  BY DEF Reviewer, InReview
<1>2. PICK covers \in SUBSET Findings : review' = [covers |-> covers, by |-> sent', pack |-> pack]
  BY DEF Reviewer
<1>3. /\ Counting' /\ Cards' /\ Gate'
      /\ local' \in [calls : Nat, audits : Nat]
      /\ sent' \in Nat /\ completions' \in Nat /\ lateCalls' \in Nat
  BY <1>1, CountedKeeps
<1>4. /\ round \in Nat /\ round >= 1 /\ round <= budget.rounds
      /\ lateCalls' <= 2 * round - 1 /\ (lateCalls' > 0 => late) /\ lateCalls' <= Bound
  BY <1>1, ReviewCall
<1>5. review' \in Review /\ review'.pack = pack
  BY <1>2, <1>3 DEF Review, IInv, TypeOK
<1>6. TypeOK'
  BY <1>1, <1>3, <1>5 DEF IInv, TypeOK, Stages, Untouched, request, gate, result
<1>7. Rounds'
  BY <1>1, <1>4 DEF IInv, Rounds, InReview, Untouched, request
<1>8. Held'
  <2>1. review' # NoReview
    BY <1>5 DEF ReviewAssumption
  <2>2. pack' = pack /\ status' = "running"
    BY <1>1 DEF IInv, Held, Untouched, result
  <2>. QED BY <1>1, <1>5, <2>1, <2>2 DEF Held
<1>9. Late'
  BY <1>1, <1>4 DEF Late, LatenessEndsTheStage, Bound, Untouched, request
<1>. QED BY <1>3, <1>6, <1>7, <1>8, <1>9 DEF IInv

LEMMA CriticObjectsKeeps == ASSUME ReviewAssumption, IInv, CriticObjects PROVE IInv'
<1>1. /\ pc = "critic" /\ InReview
      /\ MayCall /\ Send /\ Answered /\ Untouched
      /\ UNCHANGED <<review, approved>>
  BY DEF CriticObjects, InReview
<1>2. CASE round < budget.rounds
  <2>1. /\ Count /\ round' = round + 1 /\ pc' = "reviewer"
        /\ UNCHANGED <<usage, audits, result>>
    BY <1>2 DEF CriticObjects
  <2>2. /\ Counting' /\ Cards' /\ Gate'
        /\ local' \in [calls : Nat, audits : Nat]
        /\ sent' \in Nat /\ completions' \in Nat /\ lateCalls' \in Nat
    BY <1>1, <2>1, CountedKeeps
  <2>3. /\ round \in Nat /\ round >= 1 /\ round <= budget.rounds
        /\ lateCalls' <= 2 * round /\ (lateCalls' > 0 => late) /\ lateCalls' <= Bound
    BY <1>1, ReviewCall
  <2>4. TypeOK'
    BY <1>1, <2>1, <2>2, <2>3 DEF IInv, TypeOK, Stages, Untouched, request, gate, result
  <2>5. Rounds'
    <3>1. budget' = budget /\ budget.rounds \in Nat
      BY <1>1, Types DEF IInv, Untouched, request
    <3>. QED BY <1>2, <2>1, <2>3, <3>1 DEF IInv, Rounds, InReview
  <2>6. Held'
    BY <1>1, <2>1 DEF IInv, Held, Untouched, result
  <2>7. Late'
    BY <1>1, <2>1, <2>3 DEF Late, LatenessEndsTheStage, Bound, Untouched, request
  <2>. QED BY <2>2, <2>4, <2>5, <2>6, <2>7 DEF IInv
<1>3. CASE ~(round < budget.rounds)
  BY <1>1, <1>3, LastCallKeeps DEF CriticObjects
<1>. QED BY <1>2, <1>3

LEMMA CriticAcceptsKeeps == ASSUME ReviewAssumption, IInv, CriticAccepts PROVE IInv'
<1>1. /\ pc = "critic" /\ pc' = "synthesis" /\ InReview
      /\ MayCall /\ Send /\ completions' = completions + 1 /\ Untouched
      /\ approved' = review /\ UNCHANGED <<round, review, result>>
      /\ MergeLocal(local.calls + 1, local.audits + 1, round)
  BY DEF CriticAccepts, InReview, Answered
<1>2. /\ round \in Nat /\ round >= 1 /\ round <= budget.rounds
      /\ sent = completions /\ sent' = sent + 1 /\ sent' \in Nat /\ sent' <= budget.calls
      /\ completions \in Nat /\ local.calls \in Nat /\ local.audits \in Nat
      /\ lateCalls' \in Nat /\ (lateCalls' > 0 => late) /\ lateCalls' <= Bound
      /\ lateCalls' <= 2 * round
  BY <1>1, ReviewCall
<1>3. /\ usage' \in [planner : Nat, requests : Nat, rounds : Nat, calls : Nat]
      /\ usage'.calls = usage.calls + (local.calls + 1) /\ usage'.planner = usage.planner
      /\ usage'.rounds = round
      /\ audits' = audits + (local.audits + 1) /\ local' = [calls |-> 0, audits |-> 0]
  <2>1. local.calls + 1 \in Nat /\ local.audits + 1 \in Nat /\ TypeOK
    BY <1>2 DEF IInv
  <2>. QED BY ONLY <1>1, <1>2, <2>1, Merged
<1>4. /\ completions = usage.calls + local.calls /\ completions = audits + local.audits
      /\ usage.planner <= budget.planner /\ usage.calls \in Nat /\ audits \in Nat
  BY Types DEF IInv, Counting
<1>5. UNCHANGED <<budget, enabled, late, pack, plan, next, seen, allowed, cards, status>>
  BY <1>1 DEF Untouched, request, gate, result
<1>6. completions' \in Nat /\ audits' \in Nat /\ local' \in [calls : Nat, audits : Nat]
      /\ local'.calls = 0 /\ local'.audits = 0
  BY <1>1, <1>2, <1>3, <1>4
<1>7. TypeOK'
  BY <1>1, <1>2, <1>3, <1>5, <1>6 DEF IInv, TypeOK, Stages
<1>8. Counting'
  <2>1. completions' = usage'.calls + local'.calls /\ completions' = audits' + local'.audits
    BY ONLY <1>1, <1>2, <1>3, <1>4, <1>6
  <2>. QED BY <1>1, <1>2, <1>3, <1>4, <1>5, <1>6, <2>1 DEF Counting, InReview
<1>9. Rounds' /\ Cards'
  BY <1>1, <1>2, <1>3, <1>5 DEF IInv, Rounds, Cards, InReview
<1>10. Held'
  BY <1>1, <1>5 DEF IInv, Held
<1>11. Late'
  BY <1>1, <1>2, <1>5 DEF Late, LatenessEndsTheStage, Bound
<1>12. Gate'
  BY <1>1, <1>5, SameGate DEF IInv, gate
<1>. QED BY <1>7, <1>8, <1>9, <1>10, <1>11, <1>12 DEF IInv

-----------------------------------------------------------------------------
(* Synthesis and validation.                                                *)
LEMMA NoSynthesisKeeps == ASSUME ReviewAssumption, IInv, NoSynthesis PROVE IInv'
<1>1. Deterministic("fallback") /\ pc = "synthesis"
  BY DEF NoSynthesis, Fallback
<1>2. UNCHANGED <<request, late, pack, plan, gate, usage, audits, round, local, review, history>>
  BY DEF NoSynthesis, NoCall, Untouched
<1>. QED BY <1>1, <1>2, EndedQuietly DEF IInv, TypeOK, InReview

LEMMA SynthesisDownKeeps == ASSUME ReviewAssumption, IInv, SynthesisDown PROVE IInv'
<1>1. /\ pc = "synthesis" /\ ~late /\ Remaining > 0 /\ Send /\ Fallback
      /\ UNCHANGED <<request, late, pack, plan, gate, usage, audits, round, local, review,
                     completions, approved>>
  BY DEF SynthesisDown, MaySynthesize, Untouched
<1>2. lateCalls = 0 /\ ~InReview /\ pc # "done" /\ usage.planner <= budget.planner
  BY <1>1, Types DEF IInv, Late, Counting, InReview
<1>3. /\ usage' \in [planner : Nat, requests : Nat, rounds : Nat, calls : Nat]
      /\ usage'.calls - usage.calls = completions' - completions
      /\ audits' - audits = completions' - completions /\ audits' \in Nat
  BY <1>1, Types DEF IInv, TypeOK
<1>. QED BY <1>1, <1>2, <1>3, EndedByCall

LEMMA SynthesisKeeps == ASSUME ReviewAssumption, IInv, Synthesis PROVE IInv'
<1>1. /\ pc = "synthesis" /\ ~late /\ Remaining > 0 /\ Send /\ completions' = completions + 1
      /\ usage' = [usage EXCEPT !.calls = @ + 1] /\ audits' = audits + 1
      /\ UNCHANGED <<request, late, pack, plan, gate, round, local, review, approved>>
  BY DEF Synthesis, MaySynthesize, Untouched, Answered
<1>2. /\ usage.calls \in Nat /\ audits \in Nat /\ completions \in Nat /\ lateCalls \in Nat
      /\ sent \in Nat /\ budget.calls \in Nat /\ budget.rounds \in Nat /\ round \in Nat
  BY Types DEF IInv
<1>3. /\ usage' \in [planner : Nat, requests : Nat, rounds : Nat, calls : Nat]
      /\ usage'.calls = usage.calls + 1 /\ usage'.planner = usage.planner
      /\ usage'.rounds = usage.rounds
  <2>1. usage \in [planner : Nat, requests : Nat, rounds : Nat, calls : Nat]
    BY DEF IInv, TypeOK
  <2>. QED BY ONLY <1>1, <1>2, <2>1
<1>4. lateCalls = 0 /\ ~InReview /\ pc # "done" /\ usage.planner <= budget.planner
  BY <1>1, <1>2 DEF IInv, Late, Counting, InReview
<1>5. CASE Fallback
  <2>1. /\ usage'.planner <= budget.planner
        /\ usage'.calls - usage.calls = completions' - completions
        /\ audits' - audits = completions' - completions /\ audits' \in Nat
    <3>1. /\ usage'.planner = usage.planner /\ usage'.calls = usage.calls + 1
          /\ completions' = completions + 1 /\ audits' = audits + 1
      BY <1>1, <1>3
    <3>. QED BY ONLY <1>2, <1>4, <3>1
  <2>. QED BY ONLY ReviewAssumption, IInv, <1>1, <1>3, <1>4, <1>5, <2>1, EndedByCall
<1>6. CASE \E list \in CardLists : Acceptable(list) /\ cards' = list /\ pc' = "validate"
                                   /\ UNCHANGED status
  <2>1. PICK list \in CardLists : Acceptable(list) /\ cards' = list
    BY <1>6
  <2>2. Len(cards') \in Nat /\ Len(cards') <= budget.cards
    BY <2>1 DEF Acceptable, ReviewAssumption
  <2>3. pc' = "validate" /\ status' = status
    BY <1>6
  <2>4. sent' = sent + 1 /\ lateCalls' = 0
    BY <1>1, <1>4 DEF Send
  <2>5. UNCHANGED <<budget, enabled, late, pack, plan, next, seen, allowed, local, review, approved>>
    BY <1>1 DEF request, gate
  <2>6. TypeOK'
    <3>1. completions' \in Nat /\ audits' \in Nat /\ sent' \in Nat /\ lateCalls' \in Nat
      BY <1>1, <1>2, <2>4
    <3>. QED BY <1>1, <1>3, <2>2, <2>3, <2>5, <3>1 DEF IInv, TypeOK, Stages
  <2>7. Counting'
    <3>1. /\ local.calls = 0 /\ local.audits = 0 /\ sent = completions
          /\ completions = usage.calls + local.calls /\ completions = audits + local.audits
      BY <1>1, <1>4 DEF IInv, Counting
    <3>2. /\ completions' = usage'.calls + local'.calls
          /\ completions' = audits' + local'.audits /\ sent' = completions'
      BY <1>1, <1>2, <1>3, <2>4, <2>5, <3>1
    <3>3. sent' <= budget.calls
      BY ONLY <1>1, <1>2, <2>4, <3>1 DEF Remaining
    <3>. QED BY <1>3, <1>4, <2>3, <2>5, <3>1, <3>2, <3>3 DEF Counting, InReview
  <2>8. Rounds' /\ Cards'
    BY <1>1, <1>3, <2>2, <2>3, <2>5 DEF IInv, Rounds, Cards, InReview
  <2>9. Held'
    BY <1>1, <2>3, <2>5 DEF IInv, Held
  <2>10. Late'
    BY <1>2, <2>3, <2>4, <2>5 DEF Late, LatenessEndsTheStage
  <2>11. Gate'
    BY <1>1, <2>3, <2>5, SameGate DEF IInv
  <2>. QED BY <2>6, <2>7, <2>8, <2>9, <2>10, <2>11 DEF IInv
<1>. QED BY <1>5, <1>6 DEF Synthesis

LEMMA ValidateKeeps == ASSUME ReviewAssumption, IInv, Validate PROVE IInv'
<1>1. /\ pc = "validate"
      /\ UNCHANGED <<request, late, pack, plan, gate, usage, audits, round, local, review, history>>
  BY DEF Validate, NoCall, Untouched
<1>2. CASE Fallback
  BY <1>1, <1>2, EndedQuietly DEF IInv, TypeOK, InReview, Fallback
<1>3. CASE /\ ~late /\ \A f \in NeedsCheck : Represented(f)
           /\ status' = "completed" /\ pc' = "done" /\ UNCHANGED cards
  <2>1. UNCHANGED <<budget, enabled, late, pack, plan, next, seen, allowed, usage, audits, round,
                    local, review, sent, completions, lateCalls, approved, cards>>
    BY <1>1, <1>3 DEF request, gate, history
  <2>2. TypeOK'
    BY <1>3, <2>1 DEF IInv, TypeOK, Stages
  <2>3. Counting'
    BY <1>1, <1>3, <2>1 DEF IInv, Counting, InReview
  <2>4. Rounds' /\ Cards'
    BY <1>1, <1>3, <2>1 DEF IInv, Rounds, Cards, InReview
  <2>5. Held'
    <3>1. \A f \in NeedsCheck : Represented(f)'
      BY <1>3, <2>1 DEF Represented
    <3>. QED BY <1>1, <1>3, <2>1, <3>1 DEF IInv, Held, NeedsCheck
  <2>6. Late'
    BY <1>1, <1>3, <2>1 DEF IInv, Late, LatenessEndsTheStage
  <2>7. Gate'
    BY <1>1, <1>3, <2>1, SameGate DEF IInv
  <2>. QED BY <2>2, <2>3, <2>4, <2>5, <2>6, <2>7 DEF IInv
<1>. QED BY <1>2, <1>3 DEF Validate

LEMMA TimeIsUpKeeps == ASSUME ReviewAssumption, IInv, TimeIsUp PROVE IInv'
<1>1. /\ ~late /\ late' = TRUE
      /\ UNCHANGED <<pc, request, pack, plan, gate, usage, audits, round, local, review, result,
                     history>>
  BY DEF TimeIsUp
<1>2. UNCHANGED <<pc, budget, enabled, pack, plan, next, seen, allowed, usage, audits, round,
                  local, review, sent, completions, lateCalls, approved, cards, status>>
  BY <1>1 DEF request, gate, result, history
<1>3. TypeOK'
  BY <1>1, <1>2 DEF IInv, TypeOK
<1>4. Counting' /\ Rounds' /\ Cards'
  BY <1>2 DEF IInv, Counting, Rounds, Cards, InReview
<1>5. Held'
  BY <1>2 DEF IInv, Held, NeedsCheck, Represented
<1>6. Late'
  BY <1>1, <1>2 DEF IInv, Late, LatenessEndsTheStage
<1>7. Gate'
  <2>1. Gate /\ pc' = pc /\ UNCHANGED <<plan, budget, gate>>
    BY <1>2 DEF IInv, gate
  <2>. QED BY ONLY <2>1, SameGate
<1>. QED BY <1>3, <1>4, <1>5, <1>6, <1>7 DEF IInv

LEMMA StutterKeeps == ASSUME IInv, UNCHANGED vars PROVE IInv'
<1>1. UNCHANGED <<pc, budget, enabled, late, pack, plan, next, seen, allowed, usage, audits, round,
                  local, review, sent, completions, lateCalls, approved, cards, status>>
  BY DEF vars, request, gate, result, history
<1>2. TypeOK' /\ Counting' /\ Rounds' /\ Cards' /\ Late'
  <2>1. TypeOK'
    BY <1>1, SMTT(30) DEF IInv, TypeOK
  <2>2. Counting' /\ Rounds' /\ Cards'
    BY <1>1 DEF IInv, Counting, Rounds, Cards, InReview
  <2>3. Late'
    BY <1>1 DEF IInv, Late, LatenessEndsTheStage
  <2>. QED BY <2>1, <2>2, <2>3
<1>3. Held'
  BY <1>1 DEF IInv, Held, NeedsCheck, Represented
<1>4. Gate'
  <2>1. Gate /\ pc' = pc /\ UNCHANGED <<plan, budget, gate>>
    BY <1>1 DEF IInv, gate
  <2>. QED BY ONLY <2>1, SameGate
<1>. QED BY <1>2, <1>3, <1>4 DEF IInv

LEMMA Inductive == ASSUME ReviewAssumption, IInv, [Next]_vars PROVE IInv'
<1>1. CASE Disabled \/ Start \/ PlannerDown \/ PlannerAnswers
  BY <1>1, DisabledKeeps, StartKeeps, PlannerDownKeeps, PlannerAnswersKeeps
<1>2. CASE TooLateForPolicy \/ Evaluate \/ Evaluated \/ Enrich \/ EnrichFails
  BY <1>2, TooLateKeeps, EvaluateKeeps, EvaluatedKeeps, EnrichKeeps, EnrichFailsKeeps
<1>3. CASE StartReview \/ NoCallLeft \/ ReviewCallDown \/ ReviewCallInvalid
  BY <1>3, StartReviewKeeps, NoCallLeftKeeps, ReviewCallDownKeeps, ReviewCallInvalidKeeps
<1>4. CASE Reviewer \/ CriticObjects \/ CriticAccepts
  BY <1>4, ReviewerKeeps, CriticObjectsKeeps, CriticAcceptsKeeps
<1>5. CASE NoSynthesis \/ SynthesisDown \/ Synthesis \/ Validate
  BY <1>5, NoSynthesisKeeps, SynthesisDownKeeps, SynthesisKeeps, ValidateKeeps
<1>6. CASE TimeIsUp
  BY <1>6, TimeIsUpKeeps
<1>7. CASE UNCHANGED vars
  BY <1>7, StutterKeeps
<1>. QED BY <1>1, <1>2, <1>3, <1>4, <1>5, <1>6, <1>7 DEF Next, Run

LEMMA Always == Spec => []IInv
BY ReviewAssumption, Initially, Inductive, PTL DEF Spec

-----------------------------------------------------------------------------
(* Every variable of a review run keeps its type, whatever the model        *)
(* answers.                                                                 *)
THEOREM TypeCorrect == Spec => []TypeOK
<1>1. IInv => TypeOK
  BY DEF IInv
<1>. QED BY <1>1, Always, PTL

(* For every plan and every budget, no run asks the model more often, plans *)
(* or reviews more rounds, allows more requests or shows more cards than    *)
(* its budget says.                                                         *)
THEOREM Budgeted == Spec => []BudgetsRespected
<1>1. IInv => BudgetsRespected
  <2> SUFFICES ASSUME IInv PROVE BudgetsRespected
    OBVIOUS
  <2>1. Cardinality(allowed) <= budget.requests
    <3>1. Cardinality(allowed) = Smaller(Cardinality(WorthyBefore(next)), budget.requests)
      BY DEF IInv, Gate
    <3>2. next \in Nat /\ budget.requests \in Nat
      BY ReviewAssumption, Types DEF IInv, TypeOK
    <3>3. IsFiniteSet(1..next - 1) /\ WorthyBefore(next) \subseteq 1..next - 1
      BY <3>2, FS_Interval DEF WorthyBefore
    <3>4. Cardinality(WorthyBefore(next)) \in Nat
      BY <3>3, FS_Subset, FS_CardinalityType
    <3>. QED BY <3>1, <3>2, <3>4 DEF Smaller
  <2>. QED BY <2>1 DEF IInv, Counting, Rounds, Cards, BudgetsRespected
<1>. QED BY <1>1, Always, PTL

(* However a run ends, every completion it received is in its audit trail   *)
(* and in its count of calls, and at most one request got no completion.    *)
THEOREM Audited == Spec => []EveryCompletionAudited
<1>1. IInv => EveryCompletionAudited
  <2> SUFFICES ASSUME IInv, pc = "done" PROVE EveryCompletionAudited
    BY DEF EveryCompletionAudited
  <2>1. local.calls = 0 /\ local.audits = 0 /\ usage.calls \in Nat /\ audits \in Nat
    BY ReviewAssumption, Types DEF IInv, Counting, InReview
  <2>. QED BY <2>1 DEF IInv, Counting, EveryCompletionAudited
<1>. QED BY <1>1, Always, PTL

(* A completed run reports the review the critic accepted, of the evidence  *)
(* it shows, and represents every unknown or manual finding.                *)
THEOREM Approved == Spec => []OnlyApprovedIsReported
<1>1. IInv => OnlyApprovedIsReported
  BY DEF IInv, Held, OnlyApprovedIsReported
<1>. QED BY <1>1, Always, PTL

(* For every plan, the gate allows exactly the first fitting, unrepeated    *)
(* requests the budget has room for.                                        *)
THEOREM ExactGate == Spec => []GateIsExact
<1>1. IInv => GateIsExact
  BY DEF IInv, Gate
<1>. QED BY <1>1, Always, PTL

(* Calls made when the time is used up are those of one stage.              *)
THEOREM Lateness == Spec => []LatenessEndsTheStage
<1>1. IInv => LatenessEndsTheStage
  BY DEF IInv, Late
<1>. QED BY <1>1, Always, PTL
=============================================================================
