------------------------------ MODULE MCServices ------------------------------
(***************************************************************************)
(* The services around the task pipeline that share no state with each      *)
(* other, one of them at work in each behaviour.                            *)
(***************************************************************************)
EXTENDS RequestFront, MemoryArchive, UserMemories, Migrations, DailyRounds, ModelCalls,
        Companions, OrgChart, Profiles, TLC

CONSTANTS client, proxy, banned     \* addresses

VARIABLE subject                    \* the service at work

MCAddresses == {client, proxy, banned}
MCFull == ("auth" :> 3) @@ ("api" :> 2)
MCRate == ("auth" :> 2) @@ ("api" :> 2)

MCTables == <<"emotion_history", "observations">>
MCPerTable == ("emotion_history" :> 2) @@ ("observations" :> 1)

Found1(text, sure) == [text |-> text, sure |-> sure]
MCExtracts == { <<Found1("likes", 6), Found1("likes", 8)>>,
                <<Found1("likes", 8)>>,
                <<Found1("lives", 7)>> }

Birth(month, day, animal, blood) == [day |-> <<month, day>>, animal |-> animal, blood |-> blood]
MCBirths == { Birth(1, 19, "elephant", "B"), Birth(7, 23, "lion", "O") }
MCAnswers == { (1 :> 0) @@ (2 :> -1) @@ (5 :> 2) @@ (8 :> 3) }
MCLessons == { [type |-> "positive", traits |-> ("leadership" :> 10) @@ ("charm" :> 5)],
               [type |-> "negative", traits |-> "discipline" :> 3] }
\* The two vectors with the best score there is.
Missed(high, low) ==
    ("speed" :> 3000 - low) @@ ("patience" :> low) @@ ("risk_tolerance" :> low)
    @@ [t \in {pair[1] : pair \in ComplementaryPairs} \cup {"caution"} |-> high]
    @@ [t \in {pair[2] : pair \in ComplementaryPairs} |-> IF high = 0 THEN 3333 ELSE 0]
MCGiven == { Missed(0, 3000), Missed(10000, 0) }

-----------------------------------------------------------------------------
(* What the tables of the profiles must satisfy, whatever the state. *)

ASSUME EveryDayHasItsSign == SignPerDay
ASSUME SeedsAreSums == SeedIsSum

-----------------------------------------------------------------------------
parts == <<vars, archiveVars, memoryVars, migrationVars, roundsVars, callVars,
           companionVars, orgVars, profileVars>>

Subjects == <<"front", "archive", "memories", "migrations", "rounds", "calls",
              "companions", "chart", "profiles">>

serviceVars == <<parts, subject>>

\* The others stay as they are.
At(name) ==
    /\ subject = name /\ UNCHANGED subject
    /\ name = "front" \/ UNCHANGED vars
    /\ name = "archive" \/ UNCHANGED archiveVars
    /\ name = "memories" \/ UNCHANGED memoryVars
    /\ name = "migrations" \/ UNCHANGED migrationVars
    /\ name = "rounds" \/ UNCHANGED roundsVars
    /\ name = "calls" \/ UNCHANGED callVars
    /\ name = "companions" \/ UNCHANGED companionVars
    /\ name = "chart" \/ UNCHANGED orgVars
    /\ name = "profiles" \/ UNCHANGED profileVars

ServicesInit ==
    /\ subject \in {Subjects[i] : i \in DOMAIN Subjects}
    /\ Init /\ ArchiveInit /\ MemoriesInit /\ MigrationInit
    /\ RoundsInit /\ (subject = "rounds" \/ (now = 0 /\ briefs = {}))
    /\ CallsInit /\ CompanionsInit /\ ChartInit /\ ProfilesInit

ServicesNext ==
    \/ At("front") /\ Next
    \/ At("archive") /\ ArchiveNext
    \/ At("memories") /\ MemoriesNext
    \/ At("migrations") /\ MigrationNext
    \/ At("rounds") /\ RoundsNext
    \/ At("calls") /\ CallsNext
    \/ At("companions") /\ CompanionsNext
    \/ At("chart") /\ ChartNext
    \/ At("profiles") /\ ProfilesNext

-----------------------------------------------------------------------------
(* The fairness of each service, where it is at work. *)

ServicesFairness ==
    /\ WF_archiveVars(subject = "archive" /\ Returns)
    /\ WF_archiveVars(subject = "archive" /\ RunStep(Scheduler))
    /\ WF_roundsVars(subject = "rounds" /\ RoundsTick)
    /\ WF_roundsVars(subject = "rounds" /\ LoopStep)
    /\ WF_roundsVars(subject = "rounds" /\ MailDailyBrief)
    /\ \A c \in Askers : WF_roundsVars(subject = "rounds" /\ AskerStep(c))
    /\ WF_callVars(subject = "calls" /\ CallsTick)
    /\ \A u \in Users : WF_callVars(subject = "calls" /\ UserStep(u))
    /\ \A s \in Streams : WF_callVars(subject = "calls" /\ StreamStep(s))

ServicesSpec == ServicesInit /\ [][ServicesNext]_serviceVars /\ ServicesFairness

ServicesTypeOK ==
    /\ TypeOK /\ ArchiveTypeOK /\ MemoriesTypeOK /\ MigrationTypeOK
    /\ RoundsTypeOK /\ CallsTypeOK /\ CompanionsTypeOK /\ ChartTypeOK /\ ProfilesTypeOK

\* Where the loops run they come back again and again, through any error and restart.
LoopsReturn == subject = "rounds" => RoundsReturn
=============================================================================
