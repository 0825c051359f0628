----------------------------- MODULE UserMemories -----------------------------
(***************************************************************************)
(* What the server remembers of its user: rows of knowledge_base that are   *)
(* added by hand, extracted from the turns of the chat by rules, deleted,    *)
(* truncated, and put into the system prompt when they are sure enough.     *)
(*                                                                          *)
(* A row is told by what it says, its topic and content, and by its         *)
(* confidence, on a scale of integers.                                      *)
(***************************************************************************)
EXTENDS Integers, Sequences, FiniteSets

CONSTANTS
    Tellers,        \* turns of the chat and requests that add
    Texts,          \* what a row may say
    Extracts,       \* the sequences of matches the rules find in a message
    Sure,           \* the confidence from which a row is put into the prompt
    PromptLength,   \* rows the prompt has at most
    MaxMemories, MaxLost, MaxTold, MaxCleared   \* bounds: rows, errors, turns and requests, deletions

Ids == 1..MaxMemories
Confidences == UNION {{e[i].sure : i \in DOMAIN e} : e \in Extracts}

ASSUME MemoriesAssumption ==
    /\ MaxMemories \in Nat /\ MaxLost \in Nat /\ MaxTold \in Nat /\ MaxCleared \in Nat
    /\ Sure \in Nat /\ PromptLength \in Nat
    /\ Extracts \subseteq Seq([text : Texts, sure : Nat])

VARIABLES
    memories,   \* the rows that are there, by id
    nextId,
    tellers,    \* what each turn or request still has to add, and what it found
    promised,   \* history: what the ids that were returned stand for, and the most sure of them
    raced,      \* history: texts that two calls had missed at once
    cleared,    \* history: ids a deletion or a reset took away
    lost, told, clearings

memoryVars == <<memories, nextId, tellers, promised, raced, cleared, lost, told, clearings>>

Silent == [todo |-> <<>>, at |-> "look", found |-> 0]
Facts == [text : Texts, sure : Confidences]

MemoriesTypeOK ==
    /\ nextId \in 1..MaxMemories + 1
    /\ DOMAIN memories \subseteq 1..nextId - 1
    /\ \A i \in DOMAIN memories : memories[i] \in Facts
    /\ \A c \in Tellers :
        /\ \A i \in DOMAIN tellers[c].todo : tellers[c].todo[i] \in Facts
        /\ tellers[c].at \in {"look", "update", "insert"} /\ tellers[c].found \in 0..MaxMemories
    /\ promised \subseteq Ids \X Facts /\ raced \subseteq Texts /\ cleared \subseteq Ids
    /\ lost \in 0..MaxLost /\ told \in 0..MaxTold /\ clearings \in 0..MaxCleared

MemoriesInit ==
    /\ memories = <<>> /\ nextId = 1
    /\ tellers = [c \in Tellers |-> Silent]
    /\ promised = {} /\ raced = {} /\ cleared = {}
    /\ lost = 0 /\ told = 0 /\ clearings = 0

-----------------------------------------------------------------------------
(* Adding *)

\* A request adds one memory; a turn of the chat whatever the rules match, rule after
\* rule and sentence after sentence.  A sentence that several rules of a type match
\* gives the same text several times.
Tell(c, facts) ==
    /\ tellers[c] = Silent /\ told < MaxTold /\ told' = told + 1
    /\ tellers' = [tellers EXCEPT ![c].todo = facts]
    /\ UNCHANGED <<memories, nextId, promised, raced, cleared, lost, clearings>>

Fact(c) == Head(tellers[c].todo)

OfText(x) == {i \in DOMAIN memories : memories[i].text = x}

\* The calls that have looked for this text, missed it, and not yet inserted.
Missing(x) ==
    {c \in Tellers : tellers[c].at = "insert" /\ Fact(c).text = x}

FoundNone(c) == {}                \* mutant: the look is left out

Found(c) == OfText(Fact(c).text)

\* Any row of the text is taken, if there are several.
Look(c) ==
    /\ tellers[c] # Silent /\ tellers[c].at = "look"
    /\ IF Found(c) = {}
       THEN /\ tellers' = [tellers EXCEPT ![c].at = "insert"]
            /\ raced' = IF Missing(Fact(c).text) # {} THEN raced \cup {Fact(c).text} ELSE raced
       ELSE /\ \E i \in Found(c) :
                  tellers' = [tellers EXCEPT ![c] = [todo |-> @.todo, at |-> "update", found |-> i]]
            /\ UNCHANGED raced
    /\ UNCHANGED <<memories, nextId, promised, cleared, lost, told, clearings>>

\* Done with this fact: c goes on to the next or is over.
NextFact(c) ==
    tellers' = [tellers EXCEPT ![c] =
        IF Len(@.todo) > 1 THEN [Silent EXCEPT !.todo = Tail(tellers[c].todo)] ELSE Silent]

GreaterLast(old, new) == new      \* mutant: the last confidence is kept, not the greatest

Greater(old, new) == IF old > new THEN old ELSE new

\* The row may have gone since: the UPDATE finds nothing then, and the id is
\* returned all the same.
Update(c) ==
    /\ tellers[c].at = "update"
    /\ memories' = [i \in DOMAIN memories |->
          IF i = tellers[c].found THEN [memories[i] EXCEPT !.sure = Greater(@, Fact(c).sure)]
                                  ELSE memories[i]]
    /\ promised' = promised \cup {<<tellers[c].found, Fact(c)>>}
    /\ NextFact(c)
    /\ UNCHANGED <<nextId, raced, cleared, lost, told, clearings>>

Insert(c) ==
    /\ tellers[c].at = "insert" /\ nextId <= MaxMemories
    /\ memories' = [i \in DOMAIN memories \cup {nextId} |->
          IF i = nextId THEN Fact(c) ELSE memories[i]]
    /\ nextId' = nextId + 1
    /\ promised' = promised \cup {<<nextId, Fact(c)>>}
    /\ NextFact(c)
    /\ UNCHANGED <<raced, cleared, lost, told, clearings>>

\* A statement raises and is not applied: an extraction logs it and goes on to the
\* next match, a request fails.
TellRaises(c) ==
    /\ tellers[c] # Silent /\ lost < MaxLost /\ lost' = lost + 1
    /\ NextFact(c)
    /\ UNCHANGED <<memories, nextId, promised, raced, cleared, told, clearings>>

-----------------------------------------------------------------------------
(* Taking away and using *)

Without(ids) == [i \in DOMAIN memories \ ids |-> memories[i]]

Clear(ids) ==
    /\ clearings < MaxCleared /\ clearings' = clearings + 1
    /\ memories' = Without(ids) /\ cleared' = cleared \cup ids
    /\ UNCHANGED <<nextId, tellers, promised, raced, lost, told>>

\* DELETE /memory/{id}; an id that is not there is answered with 404.
Delete(i) == i \in DOMAIN memories /\ Clear({i})

\* reset-memory truncates knowledge_base.
Forget == DOMAIN memories # {} /\ Clear(DOMAIN memories)

\* The rows the prompt may have: the surest, the latest first among equals.
Prompted ==
    LET Before(i, j) == \/ memories[i].sure > memories[j].sure
                        \/ memories[i].sure = memories[j].sure /\ i > j
        Enough == {i \in DOMAIN memories : memories[i].sure >= Sure}
    IN  {j \in Enough : Cardinality({i \in Enough : Before(i, j)}) < PromptLength}

-----------------------------------------------------------------------------
MemoriesNext ==
    \/ \E c \in Tellers :
        \/ \E facts \in Extracts : Tell(c, facts)
        \/ Look(c) \/ Update(c) \/ Insert(c) \/ TellRaises(c)
    \/ \E i \in DOMAIN memories : Delete(i)
    \/ Forget

MemoriesSpec == MemoriesInit /\ [][MemoriesNext]_memoryVars

-----------------------------------------------------------------------------
(* Properties *)

\* The prompt says nothing twice, unless two calls had looked for the same text and
\* missed it before either inserted it: knowledge_base has no key that forbids that.
PromptSaysOnce ==
    \A i, j \in Prompted : i # j /\ memories[i].text = memories[j].text => memories[i].text \in raced

\* Whoever was given an id by add finds the text there, at least as sure as he said
\* it, until the row is deleted or reset: no later and less certain rule lowers it.
ReturnedIsKept ==
    \A p \in promised :
        IF p[1] \in DOMAIN memories
        THEN memories[p[1]].text = p[2].text /\ memories[p[1]].sure >= p[2].sure
        ELSE p[1] \in cleared

=============================================================================
