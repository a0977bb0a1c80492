---------------------------- MODULE ShellSessions ----------------------------
(***************************************************************************)
(* Persistent shells: Shells.create and close, Shell.run, kill and close   *)
(* (python/yr_sandbox/shell/).                                             *)
(*                                                                         *)
(* A session runs what is submitted in order and keeps the output of each  *)
(* command until a poll takes it; nothing in a poll says which command it  *)
(* asks about.  Calls of invoke run in threads of asyncio.to_thread, so a  *)
(* cancelled run leaves its last call under way; and invoke may have a     *)
(* call executed twice, or take an empty answer for a result of one that   *)
(* was not executed (DirectInvoke).                                        *)
(***************************************************************************)
EXTENDS Naturals, Sequences, SequencesExt

CONSTANTS MaxSessions,  \* bound: sessions created
          Runs          \* calls of Shell.run, each made once

ASSUME ShellAssumption == MaxSessions \in Nat \ {0} /\ "none" \notin Runs

VARIABLES counter,   \* _counter
          creating,  \* sessions whose shell.create has not been answered
          shells,    \* _shells
          closing,   \* 0, or where Shells.close is in its loop
          live,      \* external: sessions of the sandbox
          lock,      \* _lock of each Shell
          on, at,    \* session of each run, and where it is
          got,       \* whose output each run returned
          polls,     \* runs with a shell.poll, or a copy of one, under way
          stray,     \* runs with a copy of their shell.run under way, its call over
          busy,      \* external: commands of each session, the first one running
          output,    \* external: outputs that no poll has taken
          dropped,   \* history: sessions where a command was submitted and not waited for
          excused    \* history: sessions that no close() may reach, by a failure or a race

sessions == <<counter, creating, shells, closing, live, excused>>
running == <<lock, on, at, got, polls, stray, busy, output, dropped>>

Sessions == 1 .. MaxSessions
PastLoop == MaxSessions + 2    \* Shells.close is between its loop and clear()

ShellInit ==
    /\ counter = 0 /\ creating = {} /\ shells = <<>> /\ closing = 0 /\ live = {}
    /\ lock = [s \in Sessions |-> "none"]
    /\ on = [r \in Runs |-> 0] /\ at = [r \in Runs |-> "new"]
    /\ got = [r \in Runs |-> "none"] /\ polls = {} /\ stray = {}
    /\ busy = [s \in Sessions |-> <<>>] /\ output = busy
    /\ dropped = {} /\ excused = {}

-----------------------------------------------------------------------------
(* Shells.create; the command with cd and exports that follows is a run. *)
Create ==
    /\ counter < MaxSessions
    /\ counter' = counter + 1
    /\ creating' = creating \cup {counter'}
    /\ UNCHANGED <<shells, closing, live, excused, running>>

(* external: the session comes into being; after its call is over, by a late
   copy of it. *)
Created(s) ==
    /\ s \in (creating \cup excused) \ live
    /\ live' = live \cup {s}
    /\ UNCHANGED <<counter, creating, shells, closing, excused, running>>

(* It may be an empty answer that invoke took for one, and a copy of the call
   be on its way. *)
CreateReturns(s) ==
    /\ s \in creating
    /\ creating' = creating \ {s}
    /\ shells' = Append(shells, s)
    /\ excused' \in {excused, excused \cup {s}}
    /\ closing = PastLoop => s \in excused'
    /\ UNCHANGED <<counter, closing, live, running>>

CreateRaises(s) ==
    /\ s \in creating
    /\ creating' = creating \ {s}
    /\ excused' = excused \cup {s}
    /\ UNCHANGED <<counter, shells, closing, live, running>>

(* shell.close ends the session with all it runs, or fails, which is logged. *)
ShellClose(s) ==
    \/ /\ live' = live \ {s}
       /\ busy' = [busy EXCEPT ![s] = <<>>] /\ output' = [output EXCEPT ![s] = <<>>]
       /\ UNCHANGED excused
    \/ excused' = excused \cup {s} /\ UNCHANGED <<live, busy, output>>

(* Shell.kill and Shell.close; the Shell stays in _shells. *)
Kill(s) ==
    /\ s \in ToSet(shells) \cap live
    /\ ShellClose(s)
    /\ UNCHANGED <<counter, creating, shells, closing, lock, on, at, got, polls, stray, dropped>>

(* Shells.close: one session after the other, then _shells.clear(). *)
CloseBegin ==
    /\ closing = 0 /\ shells # <<>>
    /\ closing' = 1
    /\ UNCHANGED <<counter, creating, shells, live, excused, running>>

(* Mutant: each session is taken out of the list that is being iterated. *)
CloseNextRemoves ==
    /\ closing \in DOMAIN shells
    /\ ShellClose(shells[closing])
    /\ closing' = closing + 1
    /\ shells' = RemoveAt(shells, closing)
    /\ UNCHANGED <<counter, creating, lock, on, at, got, polls, stray, dropped>>

CloseNext ==
    /\ closing \in DOMAIN shells
    /\ ShellClose(shells[closing])
    /\ closing' = closing + 1
    /\ UNCHANGED <<counter, creating, shells, lock, on, at, got, polls, stray, dropped>>

(* In another thread, a create may return between the loop and this. *)
CloseLoopEnds ==
    /\ closing = Len(shells) + 1
    /\ closing' = PastLoop
    /\ UNCHANGED <<counter, creating, shells, live, excused, running>>

CloseClears ==
    /\ closing = PastLoop
    /\ closing' = 0
    /\ shells' = <<>>
    /\ UNCHANGED <<counter, creating, live, excused, running>>

-----------------------------------------------------------------------------
(* Shell.run waits for the lock of its session. *)
RunCalled(r, s) ==
    /\ at[r] = "new" /\ s \in ToSet(shells)
    /\ at' = [at EXCEPT ![r] = "waiting"]
    /\ on' = [on EXCEPT ![r] = s]
    /\ UNCHANGED <<sessions, lock, got, polls, stray, busy, output, dropped>>

(* Mutant: there is no lock. *)
LockTakenAnyway(r) ==
    /\ at[r] = "waiting"
    /\ lock' = [lock EXCEPT ![on[r]] = r]
    /\ at' = [at EXCEPT ![r] = "submit"]
    /\ UNCHANGED <<sessions, on, got, polls, stray, busy, output, dropped>>

LockTaken(r) ==
    /\ at[r] = "waiting" /\ lock[on[r]] = "none"
    /\ lock' = [lock EXCEPT ![on[r]] = r]
    /\ at' = [at EXCEPT ![r] = "submit"]
    /\ UNCHANGED <<sessions, on, got, polls, stray, busy, output, dropped>>

(* The end of "async with self._lock", by whatever way. *)
Leaves(r, how) ==
    /\ at' = [at EXCEPT ![r] = "ended"]
    /\ got' = [got EXCEPT ![r] = how]
    /\ lock' = [lock EXCEPT ![on[r]] = IF @ = r THEN "none" ELSE @]
    /\ UNCHANGED on

Starts(r) == busy' = [busy EXCEPT ![on[r]] = Append(@, r)]
Drops(r) == dropped' = dropped \cup {on[r]}

(* The call may be over with a copy of it still on its way. *)
LeavesStray(r) == stray' \in {stray, stray \cup {r}}

(* shell.run accepted the command; or invoke made a result of an empty
   answer, and it did not run. *)
Submit(r) ==
    /\ at[r] = "submit"
    /\ (on[r] \in live /\ Starts(r)) \/ UNCHANGED busy
    /\ LeavesStray(r)
    /\ at' = [at EXCEPT ![r] = "loop"]
    /\ UNCHANGED <<sessions, lock, on, got, polls, output, dropped>>

(* It answered an error; or run is over before the answer, the call raising
   or the caller cancelling it, and the command may run. *)
SubmitEnds(r) ==
    /\ at[r] = "submit"
    /\ \/ UNCHANGED <<busy, dropped>>
       \/ on[r] \in live /\ Starts(r) /\ Drops(r)
    /\ LeavesStray(r)
    /\ Leaves(r, "none")
    /\ UNCHANGED <<sessions, polls, output>>

(* external: a copy of shell.run is executed when its call is over. *)
StrayRuns(r) ==
    /\ r \in stray
    /\ stray' = stray \ {r}
    /\ IF on[r] \in live THEN Starts(r) /\ Drops(r) ELSE UNCHANGED <<busy, dropped>>
    /\ UNCHANGED <<sessions, lock, on, at, got, polls, output>>

PollSent(r) ==
    /\ at[r] = "loop"
    /\ at' = [at EXCEPT ![r] = "poll"]
    /\ polls' = polls \cup {r}
    /\ UNCHANGED <<sessions, lock, on, got, stray, busy, output, dropped>>

(* A poll was executed; a copy of it may be on its way. *)
PollServed(r) == r \in polls /\ polls' \in {polls, polls \ {r}}

Takes(s) == output[s] # <<>> /\ output' = [output EXCEPT ![s] = Tail(@)]

(* external: a poll takes the oldest output, if there is one. *)
OutputTaken(r) ==
    /\ at[r] = "poll"
    /\ PollServed(r)
    /\ Takes(on[r])
    /\ Leaves(r, Head(output[on[r]]))
    /\ UNCHANGED <<sessions, stray, busy, dropped>>

(* external: so does one whose answer is lost, or that nobody waits for. *)
OutputLost(r) ==
    /\ PollServed(r)
    /\ at[r] = "poll" => r \in polls'
    /\ Takes(on[r])
    /\ UNCHANGED <<sessions, lock, on, at, got, stray, busy, dropped>>

(* "running", or "error" for a session that is not there. *)
StillRunning(r) ==
    /\ PollServed(r) /\ output[on[r]] = <<>>
    /\ IF at[r] # "poll" THEN UNCHANGED <<lock, on, at, got>>
       ELSE IF on[r] \in live THEN at' = [at EXCEPT ![r] = "loop"] /\ UNCHANGED <<lock, on, got>>
       ELSE Leaves(r, "none")
    /\ UNCHANGED <<sessions, stray, busy, output, dropped>>

(* The deadline passed: nothing stops the command. *)
TimesOut(r) ==
    /\ at[r] = "loop"
    /\ Leaves(r, "none") /\ Drops(r)
    /\ UNCHANGED <<sessions, polls, stray, busy, output>>

(* The poll raises, or the caller cancels the run while the call goes on. *)
Abandoned(r) ==
    /\ at[r] = "poll"
    /\ Leaves(r, "none") /\ Drops(r)
    /\ UNCHANGED <<sessions, polls, stray, busy, output>>

CancelledWaiting(r) ==
    /\ at[r] = "waiting"
    /\ Leaves(r, "none")
    /\ UNCHANGED <<sessions, polls, stray, busy, output, dropped>>

(* external: the running command ends. *)
CommandEnds(s) ==
    /\ busy[s] # <<>>
    /\ output' = [output EXCEPT ![s] = Append(@, Head(busy[s]))]
    /\ busy' = [busy EXCEPT ![s] = Tail(@)]
    /\ UNCHANGED <<sessions, lock, on, at, got, polls, stray, dropped>>

RunStep(r) ==
    \/ LockTaken(r) \/ Submit(r) \/ SubmitEnds(r) \/ StrayRuns(r) \/ PollSent(r)
    \/ OutputTaken(r) \/ OutputLost(r) \/ StillRunning(r)
    \/ TimesOut(r) \/ Abandoned(r) \/ CancelledWaiting(r)

ShellNext ==
    \/ Create \/ CloseBegin \/ CloseNext \/ CloseLoopEnds \/ CloseClears
    \/ \E s \in Sessions : \/ Created(s) \/ CreateReturns(s) \/ CreateRaises(s)
                           \/ Kill(s) \/ CommandEnds(s)
                           \/ \E r \in Runs : RunCalled(r, s)
    \/ \E r \in Runs : RunStep(r)

-----------------------------------------------------------------------------
(***************************************************************************)
(* Of runs of one shell, made by any number of tasks, each returns the     *)
(* output of its own command, although a poll does not name one and may be *)
(* executed twice: until a command is submitted that no run waits for, one *)
(* that timed out, raised or was cancelled, or a second copy of one whose  *)
(* call had returned.                                                      *)
(***************************************************************************)
AnswerIsOwn ==
    \A r \in Runs : got[r] \in Runs \ {r} => on[r] \in dropped

(***************************************************************************)
(* A session of the sandbox is within reach of Shells.close, unless its    *)
(* create or close failed, a copy of its shell.create is executed when the *)
(* call is over, or its create returned after the loop of a close() and    *)
(* before its clear().                                                     *)
(***************************************************************************)
SessionsReachable == live \subseteq ToSet(shells) \cup creating \cup excused
=============================================================================
