----------------------------- MODULE MCPrograms -----------------------------
(***************************************************************************)
(* The test programs, or the speaker and its clients, one at a time.       *)
(***************************************************************************)
EXTENDS Integers, Sequences, FiniteSets

CONSTANTS Pairs, Rounds, Expected, HeapWords, MaxRequest, MaxBlocks, MaxMemory,
          MaxPid, Bytes, MaxProcesses, MaxCommands, Clients, MaxSounds

ASSUME ProgramsAssumption ==
  /\ {Pairs, Rounds, HeapWords, MaxMemory, MaxPid, Bytes, MaxProcesses,
      MaxSounds} \subseteq Nat \ {0}
  /\ Expected \in Int
  /\ Clients \subseteq Nat \ {0} /\ IsFiniteSet(Clients)

VARIABLES program,
          useSem, globalForSemTest, sem, worker, created,
          next, size, allocated, bytesAvailable, max_memory, mm_rqs, total,
          phase, i, data,
          state, priority, nextPid, tester, max_processes, place, rq, alive,
          p_rqs, meddled, commands, toKill, named, told,
          sounds, index, soundsSem, speaker, auxNext, client, sleepers, stopped,
          asked, played, disturbed

semVars == <<useSem, globalForSemTest, sem, worker, created>>
memVars == <<next, size, allocated, bytesAvailable, max_memory, mm_rqs, total,
             phase, i, data>>
processVars == <<state, priority, nextPid, tester, max_processes, place, rq,
                 alive, p_rqs, meddled, commands, toKill, named, told>>
soundVars == <<sounds, index, soundsSem, speaker, auxNext, client, sleepers,
               stopped, asked, played, disturbed>>
vars == <<program, semVars, memVars, processVars, soundVars>>

S == INSTANCE SemTest
M == INSTANCE MemTest
T == INSTANCE Testers
K == INSTANCE Speaker WITH sem <- soundsSem

\* The programs that do not run have one initial state; without the semaphore
\* testSem takes one round.
Init ==
  /\ program \in {"testSem", "testMM", "testers", "speaker"}
  /\ S!Init /\ M!Init /\ T!Init /\ K!Init
  /\ program # "testSem" => useSem /\ worker[1].left = 1
  /\ ~useSem => worker[1].left = 1
  /\ program # "testMM" => max_memory = 1
  /\ program # "testers" => tester = "priority"

Next ==
  /\ UNCHANGED program
  /\ \/ program = "testSem" /\ S!Next /\ UNCHANGED <<memVars, processVars>>
     \/ program = "testMM" /\ M!Next /\ UNCHANGED <<semVars, processVars>>
     \/ program = "testers" /\ T!Next /\ UNCHANGED <<semVars, memVars>>
     \/ program = "speaker" /\ K!Next /\ UNCHANGED <<semVars, memVars, processVars>>
  /\ program # "speaker" => UNCHANGED soundVars

Alone == program = "speaker" /\ UNCHANGED <<program, semVars, memVars, processVars>>

(* A process of the speaker's part that can run does, and sleeps end.       *)
Fairness ==
  /\ WF_vars(Alone /\ K!SpeakerProcess)
  /\ \A c \in Clients : WF_vars(Alone /\ K!StopSpinning(c))
  /\ \A p \in Clients \cup {K!Speaker} : WF_vars(Alone /\ K!Ticks(p))

Spec == Init /\ [][Next]_vars /\ Fairness
-----------------------------------------------------------------------------
SumKept == S!SumKept
BlocksKept == M!BlocksKept
BeliefsHold == T!BeliefsHold
OnlyWindows == K!OnlyWindows
SoundsPlayed == K!SoundsPlayed
=============================================================================
