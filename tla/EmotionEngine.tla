----------------------------- MODULE EmotionEngine -----------------------------
(***************************************************************************)
(* The emotional state: a row of the table emotion_state and the object    *)
(* that EmotionEngine caches of it.                                        *)
(*                                                                         *)
(* Requests call the engine side by side.  A call takes the cached object, *)
(* or reads the row and caches a new one, changes the object at once and   *)
(* then awaits the UPDATE of the row; calls that overlap share the object  *)
(* and may commit in either order.  A chat clears the cache after its      *)
(* adjustment and reads the row again.                                     *)
(*                                                                         *)
(* One level stands for the six numbers between 0.0 and 1.0, Neutral for   *)
(* their neutral values.                                                   *)
(***************************************************************************)
EXTENDS Integers

CONSTANTS
    Callers,    \* coroutines that call the engine
    Objects,    \* EmotionState objects
    MaxLevel, Neutral,
    Strengths,  \* by how much an emotion label moves the level
    Faults,     \* what may go wrong: "error", "crash", "reset"
    None

ASSUME EngineAssumption ==
    /\ MaxLevel \in Nat /\ Neutral \in 0..MaxLevel
    /\ Strengths \subseteq Int /\ 0 \notin Strengths
    /\ Faults \subseteq {"error", "crash", "reset"}
    /\ None \notin Objects

VARIABLES
    row,        \* the level in the table emotion_state
    heap,       \* the level of each object
    cache,      \* the object EmotionEngine._cache refers to, or None
    call,       \* the call each caller is in
    scheduler,  \* _emotion_decay_scheduler
    accord      \* history: "agree" while cache and row have been kept in step,
                \* "lost" after calls that overlapped, an UPDATE that raised or a
                \* reset behind the cache, "mending" in a call that saves alone then

vars == <<row, heap, cache, call, scheduler, accord>>

Levels == 0..MaxLevel

Kinds == {"adjust", "chat", "trust", "decay", "look"}

\* at: "fetching" until the SELECT is answered, "read" until the coroutine goes on,
\* "saving" until the UPDATE commits, "saved" until the coroutine goes on,
\* "recording" until the history row is inserted.
Call == [at : {"idle", "fetching", "read", "saving", "saved", "recording"},
         kind : Kinds, by : Strengths \cup {0},
         obj : Objects \cup {None}, val : Levels]

NoCall == [at |-> "idle", kind |-> "look", by |-> 0, obj |-> None, val |-> Neutral]

TypeOK ==
    /\ row \in Levels
    /\ heap \in [Objects -> Levels]
    /\ cache \in Objects \cup {None}
    /\ call \in [Callers -> Call]
    /\ scheduler \in {"asleep", "awake"}
    /\ accord \in {"agree", "lost", "mending"}

Init ==
    /\ row = Neutral
    /\ heap = [o \in Objects |-> Neutral]
    /\ cache = None
    /\ call = [c \in Callers |-> NoCall]
    /\ scheduler = "asleep"
    /\ accord = "agree"

Within(x) == IF x < 0 THEN 0 ELSE IF x > MaxLevel THEN MaxLevel ELSE x

Alone(c) == \A d \in Callers \ {c} : call[d].at = "idle"

-----------------------------------------------------------------------------
(* What a call does with the object it got, up to its next await *)

\* The level a call of kind k leaves behind, given the level v it found.
After(k, by, v) ==
    CASE k \in {"adjust", "chat"} -> Within(v + by)
      [] k = "trust" -> Within(v + 1)
      [] k = "decay" -> IF v < Neutral THEN v + 1 ELSE IF v > Neutral THEN v - 1 ELSE v
      [] k = "look"  -> v

\* adjust saves when its label moves anything, even against a bound; the trust
\* keyword and decay save what they changed.
Saves(k, by, v) ==
    \/ k \in {"adjust", "chat"} /\ by # 0
    \/ k \in {"trust", "decay"} /\ After(k, by, v) # v

\* A chat clears the cache as soon as its adjustment returns, and asks for the
\* state anew.
Reread == [NoCall EXCEPT !.at = "fetching"]

UseBefore(c, k, by, o, h) ==      \* mutant: the old level is saved
    IF Saves(k, by, h[o])
    THEN /\ heap' = [h EXCEPT ![o] = After(k, by, h[o])]
         /\ cache' = o
         /\ call' = [call EXCEPT ![c] =
                [at |-> "saving", kind |-> k, by |-> by, obj |-> o, val |-> h[o]]]
    ELSE /\ heap' = h
         /\ cache' = IF k = "chat" THEN None ELSE o
         /\ call' = [call EXCEPT ![c] = IF k = "chat" THEN Reread ELSE NoCall]

UseCopy(c, k, by, o, h) ==        \* mutant: the new level is saved, and not cached
    IF Saves(k, by, h[o])
    THEN /\ heap' = h
         /\ cache' = o
         /\ call' = [call EXCEPT ![c] =
                [at |-> "saving", kind |-> k, by |-> by, obj |-> o, val |-> After(k, by, h[o])]]
    ELSE /\ heap' = h
         /\ cache' = IF k = "chat" THEN None ELSE o
         /\ call' = [call EXCEPT ![c] = IF k = "chat" THEN Reread ELSE NoCall]

\* The caller has the cached object o, in the heap h.
Use(c, k, by, o, h) ==
    IF Saves(k, by, h[o])
    THEN LET v == After(k, by, h[o])
         IN  /\ heap' = [h EXCEPT ![o] = v]
             /\ cache' = o
             /\ call' = [call EXCEPT ![c] =
                    [at |-> "saving", kind |-> k, by |-> by, obj |-> o, val |-> v]]
    ELSE /\ heap' = h
         /\ cache' = IF k = "chat" THEN None ELSE o
         /\ call' = [call EXCEPT ![c] = IF k = "chat" THEN Reread ELSE NoCall]

-----------------------------------------------------------------------------
(* The steps of a call *)

\* get_state without a cached object sends the SELECT; with one it goes on.
Begin(c, k, by) ==
    /\ call[c].at = "idle"
    /\ k \notin {"adjust", "chat"} => by = 0
    /\ IF cache = None
       THEN /\ call' = [call EXCEPT ![c] = [NoCall EXCEPT !.at = "fetching",
                                                          !.kind = k, !.by = by]]
            /\ UNCHANGED <<heap, cache>>
       ELSE Use(c, k, by, cache, heap)
    /\ accord' = CASE ~Alone(c) -> "lost"
                   [] Alone(c) /\ cache = None -> "agree"
                   [] Alone(c) /\ cache # None ->
                        IF accord = "lost" /\ Saves(k, by, heap[cache])
                        THEN "mending" ELSE accord
    /\ UNCHANGED <<row, scheduler>>

Fetch(c) ==
    /\ call[c].at = "fetching"
    /\ call' = [call EXCEPT ![c].at = "read", ![c].val = row]
    /\ UNCHANGED <<row, heap, cache, scheduler, accord>>

\* An object that nobody refers to.
Fresh(o) == o # cache /\ \A d \in Callers : call[d].obj # o

Load(c, o) ==
    /\ call[c].at = "read" /\ Fresh(o)
    /\ Use(c, call[c].kind, call[c].by, o, [heap EXCEPT ![o] = call[c].val])
    /\ UNCHANGED <<row, scheduler, accord>>

Commit(c) ==
    /\ call[c].at = "saving"
    /\ row' = call[c].val
    /\ call' = [call EXCEPT ![c].at = "saved"]
    /\ UNCHANGED <<heap, cache, scheduler, accord>>

\* _save_state caches the object it saved; a decay ends there, the others insert
\* their history.
Resume(c) ==
    /\ call[c].at = "saved"
    /\ cache' = call[c].obj
    /\ call' = [call EXCEPT ![c] = IF @.kind = "decay" THEN NoCall
                                   ELSE [@ EXCEPT !.at = "recording", !.obj = None]]
    /\ accord' = IF accord = "mending" THEN "agree" ELSE accord
    /\ UNCHANGED <<row, heap, scheduler>>

Recorded(c) ==
    /\ call[c].at = "recording"
    /\ IF call[c].kind = "chat"
       THEN /\ cache' = None
            /\ call' = [call EXCEPT ![c] = Reread]
       ELSE /\ call' = [call EXCEPT ![c] = NoCall]
            /\ UNCHANGED cache
    /\ UNCHANGED <<row, heap, scheduler, accord>>

-----------------------------------------------------------------------------
(* Failures, the reset and the scheduler *)

\* The SELECT or the history's INSERT raises: the call ends.
Raises(c) ==
    /\ "error" \in Faults /\ call[c].at \in {"fetching", "recording"}
    /\ call' = [call EXCEPT ![c] = NoCall]
    /\ UNCHANGED <<row, heap, cache, scheduler, accord>>

\* The UPDATE raises, having reached the row or not; the object keeps the change.
SaveRaises(c) ==
    /\ "error" \in Faults /\ call[c].at = "saving"
    /\ row' \in {row, call[c].val}
    /\ call' = [call EXCEPT ![c] = NoCall]
    /\ accord' = "lost"
    /\ UNCHANGED <<heap, cache, scheduler>>

\* reset-memory updates the row.
ResetMemory ==
    /\ "reset" \in Faults
    /\ row' = Neutral
    /\ accord' = IF cache = None /\ \A c \in Callers : call[c].at = "idle"
                 THEN accord ELSE "lost"
    /\ UNCHANGED <<heap, cache, call, scheduler>>

\* The process stops and starts again; an UPDATE under way may still commit.
Crash ==
    /\ "crash" \in Faults
    /\ row' \in {row} \cup {call[c].val : c \in {d \in Callers : call[d].at = "saving"}}
    /\ cache' = None
    /\ call' = [c \in Callers |-> NoCall]
    /\ scheduler' = "asleep"
    /\ accord' = "agree"
    /\ UNCHANGED heap

Wake ==
    /\ scheduler = "asleep" /\ scheduler' = "awake"
    /\ UNCHANGED <<row, heap, cache, call, accord>>

\* A round of the scheduler calls get_state without await: the coroutine has no
\* intensity, the AttributeError is logged, and the scheduler sleeps again.
Round ==
    /\ scheduler = "awake" /\ scheduler' = "asleep"
    /\ UNCHANGED <<row, heap, cache, call, accord>>

-----------------------------------------------------------------------------
CallStep(c) ==
    \/ Fetch(c) \/ (\E o \in Objects : Load(c, o))
    \/ Commit(c) \/ Resume(c) \/ Recorded(c)

Next ==
    \/ \E c \in Callers :
          \/ \E k \in Kinds, by \in Strengths \cup {0} : Begin(c, k, by)
          \/ CallStep(c)
          \/ Raises(c) \/ SaveRaises(c)
    \/ ResetMemory \/ Crash
    \/ Wake \/ Round

Spec == Init /\ [][Next]_vars

\* The event loop goes on with every call, and asyncio.sleep ends.
Fairness ==
    /\ \A c \in Callers : WF_vars(CallStep(c))
    /\ WF_vars(Wake) /\ WF_vars(Round)

FairSpec == Spec /\ Fairness

-----------------------------------------------------------------------------
(* Properties *)

\* Between the calls the cached object says what the row says, as long as calls do
\* not overlap, UPDATEs do not raise and nothing resets the row behind the cache;
\* and the next call that saves, alone and without an error, mends what those broke.
CacheAgreesWithRow ==
    accord = "agree" /\ cache # None /\ (\A c \in Callers : call[c].at # "saving")
        => heap[cache] = row

\* While cache and row are in step, every UPDATE moves the row from the level it
\* has by what its call asked for: nothing is lost, and nothing applied twice.
SavesApplyOnce ==
    [][\A c \in Callers : accord = "agree" /\ Commit(c)
         => row' = After(call[c].kind, call[c].by, row)]_vars

-----------------------------------------------------------------------------
(* What the code's own documentation says, and the code does not do *)

\* _emotion_decay_scheduler "decays the emotions at regular intervals": when nobody
\* calls the engine any more, the emotions come to rest at neutral.
DecaysAtRest == <>[](\A c \in Callers : call[c].at = "idle") => []<>(row = Neutral)
=============================================================================
