---------------------------- MODULE StopReminder ----------------------------
(***************************************************************************)
(* The reminder a Stop hook gives at the end of a turn                     *)
(* (src/src/hook_run/stop_reminder.rs), with the loop guard that shows one *)
(* text once (stop_dedupe.rs), the throttle of the in-progress nudge       *)
(* (task_nudge/stop.rs), the repeat counter (repeat_detect.rs) and the     *)
(* UserPromptSubmit handler that re-arms the guard (hook_run/mod.rs).      *)
(***************************************************************************)
EXTENDS Integers

CONSTANTS Texts,            \* what the task tracker says of the unfinished work
          StopNudgeEvery,   \* task_tracker.stop_nudge_every
          RepeatThreshold,  \* repeat_detect.threshold
          SilenceMultiple   \* SILENCE_AFTER_THRESHOLD_MULTIPLE

ASSUME StopReminderAssumption ==
  StopNudgeEvery \in Nat /\ RepeatThreshold \in Nat /\ SilenceMultiple \in Nat \ {0}

AtLeastOne(n) == IF n = 0 THEN 1 ELSE n
Every == AtLeastOne(StopNudgeEvery)
Threshold == AtLeastOne(RepeatThreshold)
Silence == Threshold * SilenceMultiple

Quiet == [text |-> "", nudge |-> FALSE]
Reminders == [text : Texts, nudge : BOOLEAN]

VARIABLES work,      \* the tracker text, and whether tasks queue behind one in progress
          quietTurns,\* stop_quiet_turns
          lastShown, \* the record of stop_dedupe
          stopSig, stopStreak, \* the repeat counter of stops
          digest,    \* the rules digest is on and no log sink wants the event
          shown,     \* the text this step shows
          before,    \* history: the text that was shown before
          cause,     \* history: a prompt, an empty reminder or a failed save since then
          armed      \* history: the user sent a prompt since the last Stop

stopVars == <<work, quietTurns, lastShown, stopSig, stopStreak, digest, shown, before, cause, armed>>

Works == {[text |-> "", stalled |-> FALSE]} \cup [text : Texts, stalled : BOOLEAN]

StopTypeOK ==
  /\ work \in Works
  /\ quietTurns \in 0 .. Every - 1
  /\ {lastShown, stopSig, shown, before} \subseteq Reminders \cup {Quiet}
  /\ stopStreak \in 0 .. Silence
  /\ digest \in BOOLEAN /\ cause \in BOOLEAN /\ armed \in BOOLEAN

StopInit ==
  /\ work \in Works
  /\ quietTurns = 0
  /\ lastShown = Quiet /\ stopSig = Quiet /\ stopStreak = 0
  /\ digest \in BOOLEAN
  /\ shown = Quiet /\ before = Quiet
  /\ cause = FALSE /\ armed = TRUE

\* stop_wip_reminder is due at the first stalled turn end, then at every Every-th.
NudgeDue == work.stalled /\ quietTurns = 0

Reminder == IF work.text = "" THEN Quiet ELSE [text |-> work.text, nudge |-> NudgeDue]

\* A turn end without stalled work restarts the throttle.
CountTurn == quietTurns' = IF work.stalled THEN (quietTurns + 1) % Every ELSE 0

\* repeat_detect::handle_stop counts the texts that are shown. The counter
\* stays at the silence bound, which it never needs to pass.
CountRepeat(r) ==
  LET streak == IF r = stopSig THEN IF stopStreak < Silence THEN stopStreak + 1 ELSE Silence ELSE 1
  IN /\ stopSig' = r
     /\ stopStreak' = streak

Silenced(streak) == streak >= Silence

\* emit_once: a text that is not the recorded one.
Fresh(r) == r # Quiet /\ r # lastShown

\* A Stop that no Stop hook caused. emit_once drops a text that is the recorded
\* one and records the others, and an empty text clears the record; the save or
\* the removal can fail.
Stop ==
  /\ CountTurn
  /\ LET r == Reminder
         fresh == Fresh(r)
     IN /\ lastShown' \in {r, lastShown}
        /\ IF fresh THEN CountRepeat(r) ELSE UNCHANGED <<stopSig, stopStreak>>
        /\ shown' = IF fresh /\ ~Silenced(stopStreak') THEN r ELSE Quiet
        /\ before' = IF shown' # Quiet THEN r ELSE before
        /\ cause' = (r = Quiet \/ lastShown' # r \/ (cause /\ shown' = Quiet))
  /\ armed' = FALSE
  /\ UNCHANGED <<work, digest>>

\* A Stop that follows a turn a Stop hook caused gets no reminder.
ContinuedStop ==
  /\ shown # Quiet
  /\ shown' = Quiet
  /\ UNCHANGED <<work, quietTurns, lastShown, stopSig, stopStreak, digest, before, cause, armed>>

\* Mutant: a prompt leaves the record as it is.
UserPromptRemembers ==
  /\ armed' = TRUE
  /\ shown' = Quiet
  /\ cause' = TRUE
  /\ UNCHANGED <<work, quietTurns, lastShown, stopSig, stopStreak, digest, before>>

\* UserPromptSubmit: the handler forgets the record, unless the rules digest
\* returned before it or the removal fails.
UserPrompt ==
  /\ \E removed \in BOOLEAN :
       /\ lastShown' = IF ~digest /\ removed THEN Quiet ELSE lastShown
       /\ armed' = (digest \/ removed)
  /\ shown' = Quiet
  /\ cause' = TRUE
  /\ UNCHANGED <<work, quietTurns, stopSig, stopStreak, digest, before>>

\* The agent adds, starts, parks or ends tasks.
ChangeWork ==
  /\ work' \in Works \ {work}
  /\ shown' = Quiet
  /\ UNCHANGED <<quietTurns, lastShown, stopSig, stopStreak, digest, before, cause, armed>>

\* A compaction removes the repeat counter.
ForgetStreak ==
  /\ stopStreak # 0
  /\ stopSig' = Quiet /\ stopStreak' = 0
  /\ shown' = Quiet
  /\ UNCHANGED <<work, quietTurns, lastShown, digest, before, cause, armed>>

StopNext == Stop \/ ContinuedStop \/ UserPrompt \/ ChangeWork \/ ForgetStreak

StopSpec == StopInit /\ [][StopNext]_stopVars

-----------------------------------------------------------------------------
\* "A reminder that equals the last one emitted for the session is not emitted
\* again" (stop_dedupe.rs): the same text is shown twice in a row only after a
\* prompt, an empty reminder or a failed save.
RepeatNeedsCause == shown' # Quiet /\ shown' = before => cause

\* "Any change of the reminder text, an empty reminder, or a new user prompt
\* re-arms it" (stop_dedupe.rs): the first Stop after a prompt shows its text,
\* unless the repeat counter has silenced it or the digest came first.
PromptRearms ==
  Stop /\ armed /\ ~digest /\ work.text # "" /\ ~Silenced(stopStreak') => shown' # Quiet

\* The loop guard is neither too loose nor too tight: no text twice without a cause, and
\* after a prompt the text is shown.
ReminderOncePerCause == [][RepeatNeedsCause /\ PromptRearms]_stopVars
=============================================================================
