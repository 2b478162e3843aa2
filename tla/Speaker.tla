------------------------------ MODULE Speaker ------------------------------
(***************************************************************************)
(* The speaker process (pcSpeaker.c) and programs that play sounds and     *)
(* sleep.  A program enters the kernel with interrupts off; the speaker is *)
(* kernel code with interrupts on, so that here a call of a program is a   *)
(* step, but waitSemaphore() and sleep() of the speaker are several, with  *)
(* calls of the programs and ticks in between.                             *)
(*                                                                         *)
(* A process that is not BLOCKED may step at any time.  Sounds and sleeps  *)
(* have any length.  Allocation is taken to be atomic and to succeed, and   *)
(* the array of sounds not to grow past its capacity of 500.                *)
(***************************************************************************)
EXTENDS Integers, Sequences, SequencesExt, FiniteSets, Subsequence

CONSTANTS
  Clients,    \* the programs, positive numbers
  MaxSounds   \* bound on the sounds asked for

Speaker == 0
Nobody == -1

VARIABLES
  sounds, index,  \* the array, and i of speakerProcess()
  sem,            \* its value and its lock; whether the speaker is queued
  speaker,        \* the state of the speaker's PCB, and where it is
  auxNext,        \* aux->next of its sleep record, before that is in the list
  client,         \* where each program is
  sleepers,       \* the sleep list, by process, from `first' on
  stopped,        \* an endless loop, or past a use of freed or no memory
  asked, played,  \* history: how many sounds, and which
  disturbed       \* history: the windows of the speaker that others stepped into

vars == <<sounds, index, sem, speaker, auxNext, client, sleepers, stopped,
          asked, played, disturbed>>

-----------------------------------------------------------------------------
(* The speaker.                                                             *)

At(here) == ~stopped /\ speaker.state = "READY" /\ speaker.at = here
Goto(there) == speaker' = [speaker EXCEPT !.at = there]
BlockAt(there) == speaker' = [state |-> "BLOCKED", at |-> there]

\* waitSemaphore(): _enter_region(), which finds the lock free
EnterRegion ==
  /\ At("wait") /\ Goto("locked")
  /\ sem' = [sem EXCEPT !.locked = TRUE]
  /\ UNCHANGED <<sounds, index, auxNext, sleepers, stopped, played>>

\* There is a token, or there is none.
TestValue ==
  /\ At("locked")
  /\ IF sem.value > 0
     THEN sem' = [sem EXCEPT !.value = @ - 1] /\ Goto("taken")
     ELSE sem' = [sem EXCEPT !.queued = TRUE] /\ Goto("queued")
  /\ UNCHANGED <<sounds, index, auxNext, sleepers, stopped, played>>

\* No _leave_region()
LeaveLocked ==
  /\ \/ At("taken") /\ Goto("get")
     \/ At("queued") /\ Goto("released")
  /\ UNCHANGED <<sem, sounds, index, auxNext, sleepers, stopped, played>>

\* _leave_region()
LeaveRegion ==
  /\ \/ At("taken") /\ Goto("get")
     \/ At("queued") /\ Goto("released")
  /\ sem' = [sem EXCEPT !.locked = FALSE]
  /\ UNCHANGED <<sounds, index, auxNext, sleepers, stopped, played>>

\* blockCurrentProcess(), of waitSemaphore() and of sleep()
BlockSpeaker ==
  /\ \/ At("released") /\ BlockAt("get")
     \/ At("recorded") /\ BlockAt("played")
  /\ UNCHANGED <<sounds, index, sem, auxNext, sleepers, stopped, played>>

\* Array_get(), which returns NULL past the end, setSpeakerFreq(), and
\* sleep() of less than a tick or up to its record
PlaySound ==
  /\ At("get")
  /\ IF index < Len(sounds)
     THEN /\ played' = Append(played, sounds[index + 1])
          /\ Goto("played") \/ Goto("sleep")
          /\ index' = index + 1
          /\ UNCHANGED stopped
     ELSE stopped' = TRUE /\ UNCHANGED <<index, speaker, played>>
  /\ UNCHANGED <<sounds, sem, auxNext, sleepers>>

\* aux->next = first
PrepareRecord ==
  /\ At("sleep") /\ Goto("link")
  /\ auxNext' = IF sleepers = <<>> THEN Nobody ELSE Head(sleepers)
  /\ UNCHANGED <<sounds, index, sem, sleepers, stopped, played>>

\* The list from a record on
From(p) ==
  IF p = Nobody THEN <<>>
  ELSE SubSeq(sleepers, CHOOSE k \in DOMAIN sleepers : sleepers[k] = p, Len(sleepers))

\* first = aux, whose next may have been freed
LinkRecord ==
  /\ At("link")
  /\ IF auxNext \in Range(sleepers) \cup {Nobody}
     THEN /\ sleepers' = <<Speaker>> \o From(auxNext)
          /\ Goto("recorded")
          /\ UNCHANGED stopped
     ELSE stopped' = TRUE /\ UNCHANGED <<speaker, sleepers>>
  /\ auxNext' = Nobody
  /\ UNCHANGED <<sounds, index, sem, played>>

\* speakerOff(); the array is cleared when all has been played.
TestLength ==
  /\ At("played")
  /\ Goto(IF index = Len(sounds) THEN "clear" ELSE "wait")
  /\ UNCHANGED <<sounds, index, sem, auxNext, sleepers, stopped, played>>

ClearSounds ==
  /\ At("clear") /\ Goto("wait")
  /\ sounds' = <<>> /\ index' = 0
  /\ UNCHANGED <<sem, auxNext, sleepers, stopped, played>>

SpeakerProcess ==
  /\ \/ EnterRegion \/ TestValue \/ LeaveRegion \/ BlockSpeaker \/ PlaySound
     \/ PrepareRecord \/ LinkRecord \/ TestLength \/ ClearSounds
  /\ UNCHANGED <<client, asked, disturbed>>

-----------------------------------------------------------------------------
(* The programs and the timer, at any place of the speaker.                 *)

\* A history of them: somebody steps at a place where it matters.
Disturbs(places) ==
  disturbed' = IF speaker.at \in places /\ speaker.state = "READY"
               THEN disturbed \cup {speaker.at} ELSE disturbed

\* No lock
AlwaysFree == TRUE

LockFree == ~sem.locked

\* postSemaphore(), which exits a killed speaker, passes over one that is not
\* BLOCKED yet, and then counts the token; one that has exited has been freed.
Post ==
  /\ stopped' = (sem.queued /\ speaker.state = "EXITED")
  /\ sem' = [sem EXCEPT !.queued = FALSE,
               !.value = IF sem.queued /\ speaker.state = "BLOCKED" THEN @ ELSE @ + 1]
  /\ speaker' = [speaker EXCEPT !.state =
       CASE sem.queued /\ @ = "BLOCKED" -> "READY"
         [] sem.queued /\ @ = "W-EXIT" -> "EXITED"
         [] OTHER -> @]

\* playSoundForCertainMs(), up to a lock that is taken
PlaySoundForCertainMs(c) ==
  /\ ~stopped /\ client[c] = "out" /\ asked < MaxSounds
  /\ asked' = asked + 1
  /\ sounds' = Append(sounds, asked')
  /\ IF LockFree
     THEN Post /\ UNCHANGED client
     ELSE /\ client' = [client EXCEPT ![c] = "spins"]
          /\ UNCHANGED <<sem, speaker, stopped>>
  /\ Disturbs({"clear", "released"})
  /\ UNCHANGED <<index, auxNext, sleepers, played>>

\* The loop of _enter_region(), left, and the rest of postSemaphore()
StopSpinning(c) ==
  /\ ~stopped /\ client[c] = "spins" /\ LockFree
  /\ Post
  /\ client' = [client EXCEPT ![c] = "out"]
  /\ Disturbs({"released"})
  /\ UNCHANGED <<sounds, index, auxNext, sleepers, asked, played>>

\* sleep() of a program
Sleep(c) ==
  /\ ~stopped /\ client[c] = "out"
  /\ sleepers' = <<c>> \o sleepers
  /\ client' = [client EXCEPT ![c] = "sleeps"]
  /\ Disturbs({"link"})
  /\ UNCHANGED <<sounds, index, sem, speaker, auxNext, stopped, asked, played>>

\* kill() of the speaker, and of a program that spins
KillSpeaker ==
  /\ ~stopped /\ speaker.state \in {"READY", "BLOCKED"}
  /\ speaker' = [speaker EXCEPT !.state = IF @ = "BLOCKED" THEN "W-EXIT" ELSE "EXITED"]
  /\ UNCHANGED <<sounds, index, sem, auxNext, client, sleepers, stopped, asked,
                 played, disturbed>>

KillSpinning(c) ==
  /\ ~stopped /\ client[c] = "spins"
  /\ client' = [client EXCEPT ![c] = "killed"]
  /\ UNCHANGED <<sounds, index, sem, speaker, auxNext, sleepers, stopped, asked,
                 played, disturbed>>

\* incTicks(), which ends the sleeps of `ended', a killed speaker's among them.
\* On a sleeper that is in neither state its loop does not advance.
Tick(ended) ==
  /\ ~stopped /\ ended # {} /\ ended \subseteq Range(sleepers)
  /\ Speaker \in Range(sleepers) /\ speaker.state = "W-EXIT" => Speaker \in ended
  /\ IF Speaker \in Range(sleepers) /\ speaker.state \in {"READY", "EXITED"}
     THEN stopped' = TRUE /\ UNCHANGED <<speaker, client, sleepers>>
     ELSE /\ sleepers' = AtPlaces(sleepers,
                                 {k \in DOMAIN sleepers : sleepers[k] \notin ended})
          /\ client' = [c \in Clients |-> IF c \in ended THEN "out" ELSE client[c]]
          /\ speaker' = [speaker EXCEPT !.state =
               IF Speaker \notin ended THEN @
               ELSE IF @ = "BLOCKED" THEN "READY" ELSE "EXITED"]
          /\ UNCHANGED stopped
  /\ Disturbs(IF auxNext \in ended THEN {"link"} ELSE {"recorded"})
  /\ UNCHANGED <<sounds, index, sem, auxNext, asked, played>>

Init ==
  /\ sounds = <<>> /\ index = 0
  /\ sem = [value |-> 0, locked |-> FALSE, queued |-> FALSE]
  /\ speaker = [state |-> "READY", at |-> "wait"]
  /\ auxNext = Nobody
  /\ client = [c \in Clients |-> "out"]
  /\ sleepers = <<>> /\ stopped = FALSE
  /\ asked = 0 /\ played = <<>> /\ disturbed = {}

Ticks(p) == \E ended \in SUBSET (Clients \cup {Speaker}) : p \in ended /\ Tick(ended)

Next ==
  \/ SpeakerProcess \/ KillSpeaker
  \/ \E c \in Clients : \/ PlaySoundForCertainMs(c) \/ StopSpinning(c)
                        \/ Sleep(c) \/ KillSpinning(c)
  \/ \E p \in Clients \cup {Speaker} : Ticks(p)
-----------------------------------------------------------------------------
Killed == speaker.state \in {"W-EXIT", "EXITED"} \/ "killed" \in Range(client)

(* What can go wrong, and the one place of the speaker where somebody has   *)
(* to step in for it: the speaker waits for ever though there is a token    *)
(* (semaphores.c:113), a program sleeps for ever (timer.c:71), a sound is   *)
(* left out (pcSpeaker.c:42), and incTicks() never ends (timer.c:73) or     *)
(* memory is read that is no longer there.                                  *)
OnlyWindows ==
  /\ speaker = [state |-> "BLOCKED", at |-> "get"] /\ ~sem.queued
       => "released" \in disturbed
  /\ \A c \in Clients : client[c] = "sleeps" /\ c \notin Range(sleepers)
       => "link" \in disturbed
  /\ played # [k \in DOMAIN played |-> k] => "clear" \in disturbed
  /\ stopped => Killed \/ disturbed \cap {"clear", "link", "recorded"} # {}

(* Preemption anywhere else, in particular with the lock of the semaphore   *)
(* held, does no harm (pcSpeaker.c:35-46): time and again all sounds asked  *)
(* for have been played, and every program is out of _enter_region() and    *)
(* out of sleep().                                                          *)
Harmed(c) ==
  CASE client[c] = "spins" -> speaker.state = "EXITED"
    [] client[c] = "sleeps" -> "link" \in disturbed
    [] OTHER -> FALSE
SoundsPlayed ==
  /\ []<>(Len(played) = asked \/ Killed \/ disturbed # {})
  /\ \A c \in Clients : []<>(client[c] \in {"out", "killed"} \/ Harmed(c) \/ stopped)
=============================================================================
