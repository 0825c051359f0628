-------------------------- MODULE EmotionEngineProofs --------------------------
(***************************************************************************)
(* Proofs about EmotionEngine, for any callers, objects, bounds and        *)
(* strengths, and every combination of faults: its types, that the cache   *)
(* agrees with the row, and that every UPDATE applies one change once.     *)
(***************************************************************************)
EXTENDS EmotionEngine, TLAPS

USE EngineAssumption

-----------------------------------------------------------------------------
(* Types *)

\* A change stays within the levels.
LEMMA AfterLevel ==
    ASSUME NEW k \in Kinds, NEW by \in Strengths \cup {0}, NEW v \in Levels
    PROVE  After(k, by, v) \in Levels
  <1>1. by \in Int OBVIOUS
  <1> QED BY <1>1 DEF After, Within, Levels, Kinds

\* A coroutine in no call, and one that asks for the state again.
LEMMA NoCallTypes == NoCall \in Call /\ Reread \in Call
  BY DEF NoCall, Reread, Call, Kinds, Levels

\* What a call under way is made of.
LEMMA CallTypes ==
    ASSUME TypeOK, NEW c \in Callers
    PROVE  /\ call[c] \in Call
           /\ call[c].kind \in Kinds /\ call[c].by \in Strengths \cup {0}
           /\ call[c].obj \in Objects \cup {None} /\ call[c].val \in Levels
  BY DEF TypeOK, Call

\* What a caller does with its object keeps the types.
LEMMA UseTypes ==
    ASSUME TypeOK, NEW c \in Callers, NEW k \in Kinds, NEW by \in Strengths \cup {0},
           NEW o \in Objects, NEW h \in [Objects -> Levels], Use(c, k, by, o, h)
    PROVE  /\ heap' \in [Objects -> Levels]
           /\ cache' \in Objects \cup {None}
           /\ call' \in [Callers -> Call]
  <1>1. h[o] \in Levels /\ After(k, by, h[o]) \in Levels BY AfterLevel
  <1>2. [at |-> "saving", kind |-> k, by |-> by, obj |-> o, val |-> After(k, by, h[o])]
           \in Call
    BY <1>1 DEF Call
  <1>3. CASE Saves(k, by, h[o]) BY <1>1, <1>2, <1>3 DEF Use, TypeOK
  <1>4. CASE ~Saves(k, by, h[o]) BY <1>4, NoCallTypes DEF Use, TypeOK
  <1> QED BY <1>3, <1>4

\* Every step keeps the types.
LEMMA TypeStep == TypeOK /\ [Next]_vars => TypeOK'
  <1> SUFFICES ASSUME TypeOK, [Next]_vars PROVE TypeOK' OBVIOUS
  <1>1. ASSUME NEW c \in Callers, NEW k \in Kinds, NEW by \in Strengths \cup {0},
               Begin(c, k, by)
        PROVE  TypeOK'
    <2>1. accord' \in {"agree", "lost", "mending"}
      BY <1>1 DEF Begin, TypeOK
    <2>2. CASE cache = None
      <3>1. [NoCall EXCEPT !.at = "fetching", !.kind = k, !.by = by] \in Call
        BY DEF NoCall, Call, Levels
      <3> QED BY <1>1, <2>1, <2>2, <3>1 DEF Begin, TypeOK
    <2>3. CASE cache # None
      <3>1. Use(c, k, by, cache, heap) /\ cache \in Objects
        BY <1>1, <2>3 DEF Begin, TypeOK
      <3>2. heap \in [Objects -> Levels] BY DEF TypeOK
      <3> QED BY <1>1, <2>1, <3>1, <3>2, UseTypes DEF Begin, TypeOK
    <2> QED BY <2>2, <2>3
  <1>2. ASSUME NEW c \in Callers, Fetch(c) PROVE TypeOK'
    <2>1. [call[c] EXCEPT !.at = "read", !.val = row] \in Call
      BY CallTypes DEF Call, TypeOK
    <2> QED BY <1>2, <2>1 DEF Fetch, TypeOK
  <1>3. ASSUME NEW c \in Callers, NEW o \in Objects, Load(c, o) PROVE TypeOK'
    <2>1. [heap EXCEPT ![o] = call[c].val] \in [Objects -> Levels]
      BY CallTypes DEF TypeOK
    <2>2. Use(c, call[c].kind, call[c].by, o, [heap EXCEPT ![o] = call[c].val])
      BY <1>3 DEF Load
    <2> QED BY <1>3, <2>1, <2>2, CallTypes, UseTypes DEF Load, TypeOK
  <1>4. ASSUME NEW c \in Callers, Commit(c) PROVE TypeOK'
    <2>1. [call[c] EXCEPT !.at = "saved"] \in Call BY CallTypes DEF Call
    <2> QED BY <1>4, <2>1, CallTypes DEF Commit, TypeOK
  <1>5. ASSUME NEW c \in Callers, Resume(c) PROVE TypeOK'
    <2>1. [call[c] EXCEPT !.at = "recording", !.obj = None] \in Call
      BY CallTypes DEF Call
    <2> QED BY <1>5, <2>1, CallTypes, NoCallTypes DEF Resume, TypeOK
  <1>6. ASSUME NEW c \in Callers, Recorded(c) PROVE TypeOK'
    BY <1>6, NoCallTypes DEF Recorded, TypeOK
  <1>7. ASSUME NEW c \in Callers, Raises(c) PROVE TypeOK'
    BY <1>7, NoCallTypes DEF Raises, TypeOK
  <1>8. ASSUME NEW c \in Callers, SaveRaises(c) PROVE TypeOK'
    BY <1>8, NoCallTypes, CallTypes DEF SaveRaises, TypeOK
  <1>9. CASE ResetMemory BY <1>9 DEF ResetMemory, TypeOK, Levels
  <1>10. CASE Crash
    <2>1. \A c \in Callers : call[c].val \in Levels BY CallTypes
    <2> QED BY <1>10, <2>1, NoCallTypes DEF Crash, TypeOK
  <1>11. CASE Wake BY <1>11 DEF Wake, TypeOK
  <1>12. CASE Round BY <1>12 DEF Round, TypeOK
  <1>13. CASE UNCHANGED vars BY <1>13 DEF vars, TypeOK
  <1> QED
    BY <1>1, <1>2, <1>3, <1>4, <1>5, <1>6, <1>7, <1>8, <1>9, <1>10, <1>11, <1>12, <1>13
    DEF Next, CallStep

\* The level never leaves its bounds, in the row, the cache or a call under way,
\* whatever calls overlap and fail.
THEOREM EngineTypes == Spec => []TypeOK
  <1>1. Init => TypeOK BY NoCallTypes DEF Init, TypeOK, Levels
  <1> QED BY <1>1, TypeStep, PTL DEF Spec

-----------------------------------------------------------------------------
(* Cache and row *)

\* Unless accord is lost, at most one call is under way.
OneCall ==
    \A c, d \in Callers : c # d => call[c].at = "idle" \/ call[d].at = "idle"

\* That call either has no cached object to work on, or works on the cached one,
\* and what it read or saved is what the row has.
InStep(c) ==
    /\ call[c].at \in {"fetching", "read"} => cache = None
    /\ call[c].at = "read" => call[c].val = row
    /\ call[c].at \in {"saving", "saved"} =>
         /\ cache = call[c].obj /\ cache # None /\ heap[cache] = call[c].val
    /\ call[c].at = "saved" => call[c].val = row
    /\ call[c].at = "saving" /\ accord = "agree" =>
         call[c].val = After(call[c].kind, call[c].by, row)

AccordInv ==
    /\ accord # "lost" => OneCall /\ \A c \in Callers : InStep(c)
    /\ CacheAgreesWithRow

\* A caller that is alone with an object in step with the row keeps them in step.
LEMMA UseInStep ==
    ASSUME TypeOK, NEW c \in Callers, NEW k \in Kinds, NEW by \in Strengths \cup {0},
           NEW o \in Objects, NEW h \in [Objects -> Levels], Use(c, k, by, o, h),
           Alone(c), row' = row, accord' = "agree" => h[o] = row
    PROVE  OneCall' /\ (\A d \in Callers : InStep(d)') /\ CacheAgreesWithRow'
  <1>1. /\ call' \in [Callers -> Call] /\ heap' \in [Objects -> Levels]
        /\ o # None
        /\ \A d \in Callers \ {c} : call'[d] = call[d] /\ call[d].at = "idle"
    BY UseTypes DEF Use, Alone, TypeOK
  <1>2. OneCall' BY <1>1 DEF OneCall
  <1>3. CASE Saves(k, by, h[o])
    <2>1. /\ call'[c] = [at |-> "saving", kind |-> k, by |-> by, obj |-> o,
                        val |-> After(k, by, h[o])]
          /\ cache' = o /\ heap'[o] = After(k, by, h[o])
      BY <1>3 DEF Use, TypeOK
    <2>2. InStep(c)' BY <1>1, <2>1 DEF InStep
    <2>3. CacheAgreesWithRow' BY <2>1 DEF CacheAgreesWithRow
    <2> QED BY <1>1, <1>2, <2>2, <2>3 DEF InStep
  <1>4. CASE ~Saves(k, by, h[o])
    <2>1. /\ heap' = h
          /\ \/ k = "chat" /\ cache' = None /\ call'[c].at = "fetching"
             \/ cache' = o /\ call'[c].at = "idle"
      BY <1>4 DEF Use, TypeOK, NoCall, Reread
    <2>2. InStep(c)' BY <2>1 DEF InStep
    <2>3. CacheAgreesWithRow' BY <2>1 DEF CacheAgreesWithRow
    <2> QED BY <1>1, <1>2, <2>2, <2>3 DEF InStep
  <1> QED BY <1>3, <1>4

\* A step of one call that begins nothing leaves at most one call.
LEMMA StillOneCall ==
    ASSUME TypeOK, OneCall, NEW c \in Callers, call[c].at # "idle",
           \A d \in Callers \ {c} : call'[d] = call[d]
    PROVE  /\ OneCall'
           /\ \A d \in Callers \ {c} : call'[d].at = "idle" /\ call[d].at = "idle"
  BY DEF OneCall

\* Every step keeps cache and row in step, or gives the accord up.
LEMMA AccordStep == TypeOK /\ AccordInv /\ [Next]_vars => AccordInv'
  <1> SUFFICES ASSUME TypeOK, AccordInv, [Next]_vars PROVE AccordInv' OBVIOUS
  <1>1. ASSUME NEW c \in Callers, NEW k \in Kinds, NEW by \in Strengths \cup {0},
               Begin(c, k, by)
        PROVE  AccordInv'
    <2>1. CASE ~Alone(c)
      <3>1. accord' = "lost" BY <1>1, <2>1 DEF Begin
      <3> QED BY <3>1 DEF AccordInv, CacheAgreesWithRow
    <2>2. CASE Alone(c) /\ cache = None
      <3>a. /\ call' = [call EXCEPT ![c] = [NoCall EXCEPT !.at = "fetching", !.kind = k, !.by = by]]
            /\ cache' = None /\ DOMAIN call = Callers
        BY <1>1, <2>2 DEF Begin, TypeOK
      <3>b. call'[c].at = "fetching" BY <3>a DEF NoCall
      <3>1. /\ call'[c].at = "fetching" /\ cache' = None
            /\ \A d \in Callers \ {c} : call'[d] = call[d] /\ call[d].at = "idle"
        BY <2>2, <3>a, <3>b DEF Alone
      <3>2. OneCall' /\ CacheAgreesWithRow' BY <3>1 DEF OneCall, CacheAgreesWithRow
      <3>3. \A d \in Callers : InStep(d)' BY <3>1 DEF InStep
      <3> QED BY <3>2, <3>3 DEF AccordInv
    <2>3. CASE Alone(c) /\ cache # None
      <3>1. /\ Use(c, k, by, cache, heap) /\ cache \in Objects /\ row' = row
            /\ heap \in [Objects -> Levels]
        BY <1>1, <2>3 DEF Begin, TypeOK
      <3>2. accord' = "agree" => accord = "agree" BY <1>1, <2>3 DEF Begin
      <3>3. \A d \in Callers : call[d].at # "saving" BY <1>1, <2>3 DEF Begin, Alone
      <3>4. accord' = "agree" => heap[cache] = row
        BY <2>3, <3>2, <3>3 DEF AccordInv, CacheAgreesWithRow
      <3> QED BY <2>3, <3>1, <3>4, UseInStep DEF AccordInv
    <2> QED BY <2>1, <2>2, <2>3
  <1>2. ASSUME NEW c \in Callers, Fetch(c) PROVE AccordInv'
    <2>1. /\ call'[c] = [call[c] EXCEPT !.at = "read", !.val = row]
          /\ call'[c].at = "read" /\ call'[c].val = row
          /\ \A d \in Callers \ {c} : call'[d] = call[d]
          /\ UNCHANGED <<row, heap, cache, accord>> /\ call[c].at = "fetching"
      BY <1>2, CallTypes DEF Fetch, TypeOK, Call
    <2>2. CacheAgreesWithRow' BY <2>1 DEF AccordInv, CacheAgreesWithRow
    <2>3. ASSUME accord # "lost" PROVE OneCall' /\ \A d \in Callers : InStep(d)'
      BY <2>1, <2>3, StillOneCall DEF AccordInv, InStep
    <2> QED BY <2>1, <2>2, <2>3 DEF AccordInv
  <1>3. ASSUME NEW c \in Callers, NEW o \in Objects, Load(c, o) PROVE AccordInv'
    <2>1. CASE accord = "lost"
      BY <1>3, <2>1 DEF Load, AccordInv, CacheAgreesWithRow
    <2>2. CASE accord # "lost"
      <3> DEFINE h == [heap EXCEPT ![o] = call[c].val]
      <3>1. Use(c, call[c].kind, call[c].by, o, h) /\ row' = row /\ call[c].at = "read"
        BY <1>3 DEF Load
      <3>2. h \in [Objects -> Levels] /\ h[o] = call[c].val BY CallTypes DEF TypeOK
      <3>3. h[o] = row BY <2>2, <3>1, <3>2 DEF AccordInv, InStep
      <3>4. Alone(c) BY <2>2, <3>1 DEF AccordInv, OneCall, Alone
      <3> HIDE DEF h
      <3> QED BY <3>1, <3>2, <3>3, <3>4, CallTypes, UseInStep DEF AccordInv
    <2> QED BY <2>1, <2>2
  <1>4. ASSUME NEW c \in Callers, Commit(c) PROVE AccordInv'
    <2>1. /\ call'[c] = [call[c] EXCEPT !.at = "saved"]
          /\ call'[c].at = "saved" /\ call'[c].val = call[c].val
          /\ call'[c].obj = call[c].obj
          /\ \A d \in Callers \ {c} : call'[d] = call[d]
          /\ UNCHANGED <<heap, cache, accord>> /\ call[c].at = "saving"
          /\ row' = call[c].val
      BY <1>4, CallTypes DEF Commit, TypeOK, Call
    <2>2. ASSUME accord # "lost"
          PROVE  OneCall' /\ (\A d \in Callers : InStep(d)') /\ CacheAgreesWithRow'
      <3>1. OneCall' /\ \A d \in Callers \ {c} : call'[d].at = "idle"
        BY <2>1, <2>2, StillOneCall DEF AccordInv
      <3>2. InStep(c) BY <2>2 DEF AccordInv
      <3>3. InStep(c)' BY <2>1, <3>2 DEF InStep
      <3>4. CacheAgreesWithRow' BY <2>1, <3>2 DEF InStep, CacheAgreesWithRow
      <3> QED BY <3>1, <3>3, <3>4 DEF InStep
    <2>3. CASE accord = "lost" BY <2>1, <2>3 DEF AccordInv, CacheAgreesWithRow
    <2> QED BY <2>1, <2>2, <2>3 DEF AccordInv
  <1>5. ASSUME NEW c \in Callers, Resume(c) PROVE AccordInv'
    <2>1. /\ call'[c].at \in {"idle", "recording"}
          /\ \A d \in Callers \ {c} : call'[d] = call[d]
          /\ UNCHANGED <<row, heap>> /\ call[c].at = "saved"
          /\ cache' = call[c].obj
          /\ accord = "lost" <=> accord' = "lost"
      BY <1>5, CallTypes DEF Resume, TypeOK, Call, NoCall
    <2>2. ASSUME accord # "lost"
          PROVE  OneCall' /\ (\A d \in Callers : InStep(d)') /\ CacheAgreesWithRow'
      <3>1. OneCall' /\ \A d \in Callers \ {c} : call'[d].at = "idle"
        BY <2>1, <2>2, StillOneCall DEF AccordInv
      <3>2. InStep(c) BY <2>2 DEF AccordInv
      <3>3. InStep(c)' BY <2>1 DEF InStep
      <3>4. CacheAgreesWithRow' BY <2>1, <3>2 DEF InStep, CacheAgreesWithRow
      <3> QED BY <3>1, <3>3, <3>4 DEF InStep
    <2>3. CASE accord = "lost" BY <2>1, <2>3 DEF AccordInv, CacheAgreesWithRow
    <2> QED BY <2>1, <2>2, <2>3 DEF AccordInv
  <1>6. ASSUME NEW c \in Callers, call[c].at \in {"fetching", "recording"},
               \A d \in Callers \ {c} : call'[d] = call[d],
               UNCHANGED <<row, heap, accord>>,
               \/ call'[c].at = "idle" /\ cache' = cache
               \/ call'[c].at = "fetching" /\ cache' = None
        PROVE  AccordInv'
    <2>1. CacheAgreesWithRow' BY <1>6 DEF AccordInv, CacheAgreesWithRow
    <2>2. ASSUME accord # "lost" PROVE OneCall' /\ \A d \in Callers : InStep(d)'
      <3>1. OneCall' /\ \A d \in Callers \ {c} : call'[d].at = "idle"
        BY <1>6, <2>2, StillOneCall DEF AccordInv
      <3>2. InStep(c)' BY <1>6 DEF InStep
      <3> QED BY <3>1, <3>2 DEF InStep
    <2> QED BY <1>6, <2>1, <2>2 DEF AccordInv
  <1>7. ASSUME NEW c \in Callers, Recorded(c) PROVE AccordInv'
    <2>1. /\ call[c].at = "recording" /\ \A d \in Callers \ {c} : call'[d] = call[d]
          /\ UNCHANGED <<row, heap, accord>>
          /\ \/ call'[c].at = "idle" /\ cache' = cache
             \/ call'[c].at = "fetching" /\ cache' = None
      BY <1>7 DEF Recorded, TypeOK, NoCall, Reread
    <2> QED BY <1>6, <2>1
  <1>8. ASSUME NEW c \in Callers, Raises(c) PROVE AccordInv'
    <2>1. /\ call'[c].at = "idle" /\ \A d \in Callers \ {c} : call'[d] = call[d]
          /\ UNCHANGED <<row, heap, cache, accord>>
          /\ call[c].at \in {"fetching", "recording"}
      BY <1>8 DEF Raises, TypeOK, NoCall
    <2> QED BY <1>6, <2>1
  <1>9. ASSUME accord' = "lost" PROVE AccordInv'
    BY <1>9 DEF AccordInv, CacheAgreesWithRow
  <1>10. CASE ResetMemory
    <2>1. CASE cache = None /\ \A c \in Callers : call[c].at = "idle"
      BY <1>10, <2>1
      DEF ResetMemory, AccordInv, OneCall, InStep, CacheAgreesWithRow
    <2> QED BY <1>9, <1>10, <2>1 DEF ResetMemory
  <1>11. CASE Crash
    BY <1>11 DEF Crash, NoCall, AccordInv, OneCall, InStep, CacheAgreesWithRow
  <1>12. CASE UNCHANGED <<row, heap, cache, call, accord>>
    BY <1>12 DEF AccordInv, OneCall, InStep, CacheAgreesWithRow
  <1> QED
    BY <1>1, <1>2, <1>3, <1>4, <1>5, <1>7, <1>8, <1>9, <1>10, <1>11, <1>12
    DEF Next, CallStep, SaveRaises, Wake, Round, vars

\* Cache and row are in step in every behaviour, unless the accord is lost.
LEMMA AccordAlways == Spec => []AccordInv
  <1>1. Init => AccordInv
    BY DEF Init, NoCall, AccordInv, OneCall, InStep, CacheAgreesWithRow
  <1> QED BY <1>1, AccordStep, EngineTypes, PTL DEF Spec

\* Between the calls the cached object and the row say the same, for any number of
\* callers, until calls overlap, an UPDATE raises or a reset goes behind the
\* cache, and again after the next call that saves alone.
THEOREM CacheAgrees == Spec => []CacheAgreesWithRow
  <1>1. AccordInv => CacheAgreesWithRow BY DEF AccordInv
  <1> QED BY <1>1, AccordAlways, PTL

\* While cache and row are in step every UPDATE applies its call's change to the
\* row once, for any levels and strengths.
THEOREM AppliesOnce == Spec => SavesApplyOnce
  <1>1. ASSUME AccordInv, NEW c \in Callers, accord = "agree", Commit(c)
        PROVE  row' = After(call[c].kind, call[c].by, row)
    BY <1>1 DEF AccordInv, InStep, Commit
  <1>2. AccordInv /\ [Next]_vars =>
            [\A c \in Callers : accord = "agree" /\ Commit(c)
                => row' = After(call[c].kind, call[c].by, row)]_vars
    BY <1>1
  <1> QED BY <1>2, AccordAlways, PTL DEF Spec, SavesApplyOnce
=============================================================================
