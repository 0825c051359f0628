----------------------------- MODULE ValueLearning -----------------------------
(***************************************************************************)
(* The weights of the personality's values: the table values_system, the   *)
(* copy of it that ValueSystem caches for the prompts, and everything that *)
(* writes them.  ValueSystem.add and adjust_weight write one row and then  *)
(* clear the cache.  The gradient of a consolidation, the restore of a     *)
(* clone, the setup and the sampling write the rows themselves, one after  *)
(* the other, and know nothing of the cache.                               *)
(*                                                                         *)
(* A weight is a level; one level is what an adjustment moves it by.       *)
(***************************************************************************)
EXTENDS Integers, FiniteSets, Functions

CONSTANTS
    Values,
    MaxWeight,      \* the level of weight 1.0
    Callers,        \* coroutines: requests, and the scheduler of consolidations
    Calls,          \* what each of them may call
    Ideals,         \* the ideal vectors one may import
    DefaultIdeal,   \* DEFAULT_IDEAL_VALUES
    Backup,         \* the weights a restore, a setup or a sampling writes
    Seed,           \* the weights init.sql inserts
    Shared,         \* names the cache among those who hold a copy of the weights
    None,           \* no copy
    Faults          \* what may go wrong: "raise", "crash"

Kinds == {"read", "add", "consolidate", "restore", "sample"}

Weights == [Values -> 0..MaxWeight]

ASSUME LearningAssumption ==
    /\ MaxWeight \in Nat \ {0}
    /\ Calls \in [Callers -> SUBSET Kinds]
    /\ DefaultIdeal \in Ideals /\ Ideals \subseteq Weights
    /\ Backup \in Weights /\ Seed \in Weights
    /\ Shared \notin Callers /\ None \notin Weights
    /\ Faults \subseteq {"raise", "crash"}

VARIABLES
    weight,     \* values_system
    ideal,      \* identity.ideal_profile, as _get_ideal_values reads it
    cache,      \* ValueSystem._cache
    call,       \* what each coroutine is doing: its place, its copies, its rows to write
    behind,     \* history: the copies that a write has left behind for good
    touched     \* history: the rows others wrote since a gradient read them

vars == <<weight, ideal, cache, call, behind, touched>>

Idle == [at |-> "idle", kind |-> "read", copy |-> None, aim |-> None, todo |-> {}]

Places == {"idle", "gather", "fetch", "keep", "ask", "learn", "write", "clear",
           "weigh", "rate", "aim", "rows", "step", "profile", "overwrite"}

TypeOK ==
    /\ weight \in Weights
    /\ ideal \in Ideals
    /\ cache \in Weights \cup {None}
    /\ call \in [Callers -> [at : Places, kind : Kinds, copy : Weights \cup {None},
                             aim : Ideals \cup {None}, todo : SUBSET Values]]
    /\ behind \subseteq Callers \cup {Shared}
    /\ touched \in [Callers -> SUBSET Values]

Init ==
    /\ weight = Seed
    /\ ideal = DefaultIdeal
    /\ cache = None
    /\ call = [c \in Callers |-> Idle]
    /\ behind = {}
    /\ touched = [c \in Callers |-> {}]

-----------------------------------------------------------------------------
\* LEAST(1.0, GREATEST(0.0, weight + delta))
Adjusted(w, d) == IF w + d \in 0..MaxWeight THEN w + d ELSE w

\* _gradient_step: a fraction of the gap, which may stay within the level.
Toward(w, i) == IF w < i THEN w + 1 ELSE IF w > i THEN w - 1 ELSE w

Dot(u, w) == FoldFunctionOnSet(+, 0, [v \in Values |-> u[v] * w[v]], Values)

\* The cosine of the weights and the ideal is at least DIVERGENCE_CEILING, 92%.
AtCeiling(w, i) ==
    /\ Dot(w, w) * Dot(i, i) > 0
    /\ 10000 * Dot(w, i) * Dot(w, i) >= 8464 * Dot(w, w) * Dot(i, i)

Becomes(c, p, copy, aim, todo) ==
    call' = [call EXCEPT ![c] = [at |-> p, kind |-> call[c].kind, copy |-> copy,
                                 aim |-> aim, todo |-> todo]]

Goto(c, p) == call' = [call EXCEPT ![c].at = p]

Return(c) == call' = [call EXCEPT ![c] = Idle]

\* c writes row v: news to the others who are in the middle of a gradient over it.
Touch(c, v) ==
    touched' = [d \in Callers |->
        IF d = c THEN touched[c] \ {v}
        ELSE IF v \in call[d].todo /\ call[d].at = "step" THEN touched[d] \cup {v}
        ELSE touched[d]]

Holders == {c \in Callers : call[c].at = "keep"} \cup (IF cache = None THEN {} ELSE {Shared})

\* A write of one row that does not clear the cache afterwards.
WriteBehind(c, v, w) ==
    /\ weight' = [weight EXCEPT ![v] = w]
    /\ behind' = IF w = weight[v] THEN behind ELSE behind \cup Holders
    /\ Touch(c, v)
    /\ UNCHANGED cache

-----------------------------------------------------------------------------
(* ValueSystem *)

FirstPlace == [k \in Kinds |->
    CASE k = "read" -> "fetch" [] k = "add" -> "write" [] k = "consolidate" -> "gather"
      [] k = "sample" -> "profile" [] k = "restore" -> "overwrite"]

\* get_all reads the table when there is no cache; with one it changes nothing.
Begin(c, k) ==
    /\ call[c].at = "idle" /\ k \in Calls[c]
    /\ k = "read" => cache = None
    /\ call' = [call EXCEPT ![c] =
          [at |-> FirstPlace[k], kind |-> k, copy |-> None, aim |-> None,
           todo |-> IF k \in {"sample", "restore"} THEN Values ELSE {}]]
    /\ UNCHANGED <<weight, ideal, cache, behind, touched>>

\* The SELECT of load.
Fetch(c) ==
    /\ call[c].at = "fetch"
    /\ Becomes(c, "keep", weight, call[c].aim, call[c].todo)
    /\ behind' = behind \ {c}
    /\ UNCHANGED <<weight, ideal, cache, touched>>

\* load assigns what it read, whatever has been written or cleared since.
Keep(c) ==
    /\ call[c].at = "keep"
    /\ cache' = call[c].copy
    /\ behind' = (IF c \in behind THEN behind \cup {Shared} ELSE behind \ {Shared}) \ {c}
    /\ IF call[c].kind = "read" THEN Return(c)
       ELSE Becomes(c, "ask", None, call[c].aim, call[c].todo)
    /\ UNCHANGED <<weight, ideal, touched>>

\* The UPDATE of adjust_weight, which is relative, or of add, which is not.
Write(c) ==
    /\ call[c].at = "write"
    /\ \E v \in Values :
        /\ \E w \in IF call[c].kind = "add" THEN 0..MaxWeight
                    ELSE {Adjusted(weight[v], 1), Adjusted(weight[v], -1)} :
              weight' = [weight EXCEPT ![v] = w]
        /\ Touch(c, v)
    /\ Goto(c, "clear")
    /\ UNCHANGED <<ideal, cache, behind>>

\* add returns; a consolidation goes on with the next adjustment or with the gradient.
Cleared(c) ==
    IF call[c].kind = "add" THEN Return(c) ELSE Goto(c, "write") \/ Goto(c, "weigh")

ClearNothing(c) ==                \* mutant: the cache stays
    /\ call[c].at = "clear"
    /\ behind' = behind \cup {d \in Callers : call[d].at = "keep"}
    /\ Cleared(c)
    /\ UNCHANGED <<weight, ideal, cache, touched>>

\* Back from its UPDATE, ValueSystem clears the cache; a load under way will fill
\* it with what it read before.
Clear(c) ==
    /\ call[c].at = "clear"
    /\ cache' = None
    /\ behind' = (behind \cup {d \in Callers : call[d].at = "keep"}) \ {Shared}
    /\ Cleared(c)
    /\ UNCHANGED <<weight, ideal, touched>>

-----------------------------------------------------------------------------
(* consolidate *)

\* Decisions and learnings are the events; the system prompt asks for the values.
Gather(c) ==
    /\ call[c].at = "gather"
    /\ Goto(c, IF cache = None THEN "fetch" ELSE "ask")
    /\ UNCHANGED <<weight, ideal, cache, behind, touched>>

NoEvents(c) ==
    /\ call[c].at = "gather"
    /\ Return(c)
    /\ UNCHANGED <<weight, ideal, cache, behind, touched>>

\* What the model makes of the events: nothing, an adjustment, or a learning.
AskNothing(c) ==
    /\ call[c].at = "ask"
    /\ Goto(c, "weigh")
    /\ UNCHANGED <<weight, ideal, cache, behind, touched>>

AskChange(c) ==
    /\ call[c].at = "ask"
    /\ Goto(c, "write") \/ Goto(c, "learn")
    /\ UNCHANGED <<weight, ideal, cache, behind, touched>>

\* learning_log refuses the source "consolidation": the INSERT raises.
Learn(c) ==
    /\ call[c].at = "learn"
    /\ Return(c)
    /\ UNCHANGED <<weight, ideal, cache, behind, touched>>

\* calculate_sync_rate reads the weights and then the ideal; at the ceiling the
\* gradient is left out.
Weigh(c) ==
    /\ call[c].at = "weigh"
    /\ Becomes(c, "rate", weight, call[c].aim, call[c].todo)
    /\ UNCHANGED <<weight, ideal, cache, behind, touched>>

Rate(c) ==
    /\ call[c].at = "rate"
    /\ IF AtCeiling(call[c].copy, ideal) THEN Return(c) ELSE Goto(c, "aim")
    /\ UNCHANGED <<weight, ideal, cache, behind, touched>>

\* apply_gradient_toward_ideal reads the ideal and the rows anew.
Aim(c) ==
    /\ call[c].at = "aim"
    /\ Becomes(c, "rows", call[c].copy, ideal, call[c].todo)
    /\ UNCHANGED <<weight, ideal, cache, behind, touched>>

RowsOfRate(c) ==                  \* mutant: the rows the rate was computed from
    /\ call[c].at = "rows"
    /\ LET far == {v \in Values : call[c].copy[v] # call[c].aim[v]}
       IN  IF far = {} THEN Return(c)
           ELSE Becomes(c, "step", call[c].copy, call[c].aim, far)
    /\ UNCHANGED <<weight, ideal, cache, behind, touched>>

Rows(c) ==
    /\ call[c].at = "rows"
    /\ LET far == {v \in Values : weight[v] # call[c].aim[v]}
       IN  IF far = {} THEN Return(c)
           ELSE Becomes(c, "step", weight, call[c].aim, far)
    /\ UNCHANGED <<weight, ideal, cache, behind, touched>>

\* The coroutine goes on with the next row, or is done.
NextRow(c, v) ==
    IF call[c].todo = {v} THEN Return(c) ELSE call' = [call EXCEPT ![c].todo = @ \ {v}]

StepTo(c, v, w) ==
    /\ call[c].at = "step" /\ v \in call[c].todo
    /\ WriteBehind(c, v, w)
    /\ NextRow(c, v)
    /\ UNCHANGED ideal

\* The UPDATE of one row writes a weight computed from what was read.
StepStays(c) == \E v \in call[c].todo : StepTo(c, v, call[c].copy[v])

StepMovesAway(c) ==               \* mutant: the gap's sign is turned
    \E v \in call[c].todo : StepTo(c, v, Toward(call[c].copy[v], MaxWeight - call[c].aim[v]))

StepMoves(c) ==
    \E v \in call[c].todo : StepTo(c, v, Toward(call[c].copy[v], call[c].aim[v]))

-----------------------------------------------------------------------------
(* Writers of their own *)

\* get_result of the sampling stores its vector as ideal_profile, without the key
\* under which _get_ideal_values looks: the default applies again.
Profile(c) ==
    /\ call[c].at = "profile"
    /\ ideal' = DefaultIdeal
    /\ Goto(c, "overwrite")
    /\ UNCHANGED <<weight, cache, behind, touched>>

Overwrite(c) ==
    /\ call[c].at = "overwrite"
    /\ \E v \in call[c].todo :
        /\ WriteBehind(c, v, Backup[v])
        /\ NextRow(c, v)
    /\ UNCHANGED ideal

\* POST /identity/import
Import ==
    /\ \E i \in Ideals : ideal' = i
    /\ UNCHANGED <<weight, cache, call, behind, touched>>

\* An awaited call raises, or its answer gets lost: after its UPDATE ValueSystem
\* then does not come to clear the cache.
Raises(c) ==
    /\ "raise" \in Faults /\ call[c].at # "idle"
    /\ behind' = IF call[c].at = "clear" THEN behind \cup Holders ELSE behind \ {c}
    /\ Return(c)
    /\ touched' = [touched EXCEPT ![c] = {}]
    /\ UNCHANGED <<weight, ideal, cache>>

\* The process ends: what it held is gone, the rows written stay written.
Crash ==
    /\ "crash" \in Faults
    /\ cache' = None
    /\ call' = [c \in Callers |-> Idle]
    /\ behind' = {}
    /\ touched' = [c \in Callers |-> {}]
    /\ UNCHANGED <<weight, ideal>>

-----------------------------------------------------------------------------
\* A consolidation that changes no weight but by its gradient.
Evolve(c) ==
    \/ Begin(c, "consolidate")
    \/ call[c].kind = "consolidate" /\ (Fetch(c) \/ Keep(c))
    \/ Gather(c) \/ AskNothing(c) \/ Weigh(c) \/ Rate(c) \/ Aim(c) \/ Rows(c)
    \/ StepStays(c) \/ StepMoves(c)

Continue(c) ==
    \/ Fetch(c) \/ Keep(c) \/ Write(c) \/ Clear(c)
    \/ Gather(c) \/ NoEvents(c) \/ AskNothing(c) \/ AskChange(c) \/ Learn(c)
    \/ Weigh(c) \/ Rate(c) \/ Aim(c) \/ Rows(c) \/ StepStays(c) \/ StepMoves(c)
    \/ Profile(c) \/ Overwrite(c)

Next ==
    \/ \E c \in Callers :
        \/ \E k \in Kinds : Begin(c, k)
        \/ Continue(c) \/ Raises(c)
    \/ Import \/ Crash

Spec == Init /\ [][Next]_vars

\* The scheduler consolidates again and again; a call goes on; and steps that are a
\* fraction of the gap reach the next level in the end.
Fairness ==
    \A c \in Callers :
        /\ WF_vars(Begin(c, "consolidate")) /\ WF_vars(Continue(c))
        /\ SF_vars(StepMoves(c))

FairSpec == Spec /\ Fairness

-----------------------------------------------------------------------------
(* Properties *)

\* A copy of the weights, the cache's or a load's, is the table's but for the time
\* between a write and its clearing, or when a write left it behind: one that knows
\* nothing of the cache, one that ended during the load, or one whose answer got
\* lost.  Nothing else in ValueSystem makes the prompts show old values.
CopyAgrees ==
    \/ \E c \in Callers : call[c].at = "clear"
    \/ /\ cache = None \/ cache = weight \/ Shared \in behind
       /\ \A c \in Callers : call[c].at = "keep" => call[c].copy = weight \/ c \in behind

\* A gradient moves a row toward the ideal it read, by a level at most, unless
\* someone else wrote the row after the gradient had read it.
GradientApproaches ==
    [][\A c \in Callers : call[c].at = "step" /\ Continue(c) =>
        \A v \in call[c].todo : weight'[v] # weight[v] =>
            weight'[v] = Toward(weight[v], call[c].aim[v]) \/ v \in touched[c]]_vars

\* When from some time on only consolidations run, and the model finds nothing to
\* adjust, the weights come to the ceiling of the sync rate and stay there.
Converged == <<weight, ideal>> \in {p \in Weights \X Ideals : AtCeiling(p[1], p[2])}

WeightsConverge == <>[][\E c \in Callers : Evolve(c)]_vars => <>[]Converged

-----------------------------------------------------------------------------
(* What the code's own documentation says, and the code does not do *)

\* consolidate "reflects experience in the personality": a consolidation that
\* learned something goes on to the values.
LearnedIsApplied ==
    [][\A c \in Callers : call[c].at = "learn" => call'[c].at # "idle"]_vars
=============================================================================
