-------------------------------- MODULE Piezzo --------------------------------
(***************************************************************************)
(* The sounds of asx/src/piezzo.c, as the controller makes them: a tune,   *)
(* one note per expiry of a timer, and over it a tone, which a call or     *)
(* another timer ends.  Both handlers have the priority 130: on_beep_input *)
(* (180) and on_send_i2c_command (130) may be called before a pending one, *)
(* on_sounder and on_i2c_error (80) not.                                   *)
(*                                                                         *)
(* A timer may expire at any time: durations are not modelled.  A note is  *)
(* what parsing it gives: a pitch, and whether the next note is slurred.   *)
(***************************************************************************)
EXTENDS Integers, QueueOps

CONSTANTS
    Pitches,    \* compare values of the notes
    Tones,      \* compare values of the tones
    Off,        \* a compare value of 0: a rest, nothing to recover, no output
    Tunes,      \* the tunes played
    MaxChains   \* bound: chains of timers and notifications that play notes,
                \* and timers armed to stop a tone

Notes == [pitch : Pitches \cup {Off}, slur : BOOLEAN]

ASSUME PiezzoAssumption ==
    /\ Off \notin Pitches \cup Tones
    /\ Pitches \cap Tones = {}
    /\ Tunes \subseteq Seq(Notes)
    /\ MaxChains \in Nat \ {0}

VARIABLES
    notes,      \* the notes from next_note on
    slurNext,   \* slur_next
    lastTc,     \* last_tc_value
    pwm,        \* CMP0 while the output is enabled, Off when it is not
    playing,    \* playing_tone
    recovery,   \* playing_tone_recovery_value
    noteTimers, \* the timers armed for _play_next_note: the one that
                \* timer_instance names, and how many others
    stops,      \* how many timers are armed for _stop_tone
    sounds,     \* the handlers with a notification, each in a queue of one
    silenced    \* not in the code: piezzo_stop was called in this tune

soundVars == <<notes, slurNext, lastTc, pwm, playing, recovery, noteTimers,
              stops, sounds, silenced>>

SoundInit ==
    /\ notes = <<>>
    /\ slurNext = FALSE
    /\ lastTc = Off
    /\ pwm = Off
    /\ playing = FALSE
    /\ recovery = Off
    /\ noteTimers = [named |-> 0, other |-> 0]
    /\ stops = 0
    /\ sounds = {}
    /\ silenced = FALSE

(* timer_cancel(timer_instance) and timer_instance = timer_arm(...) *)
NoteCancelled(t) == [t EXCEPT !.named = 0]
NoteArmed(t) == [named |-> 1, other |-> t.other + t.named]

(* Mutant: a note sounds although a tone plays *)
HeardAnyway(note, slur) == lastTc # note.pitch \/ ~slur

(* a slurred note of the same pitch goes on, the output is not set again *)
Heard(note, slur) == ~playing /\ (lastTc # note.pitch \/ ~slur)

NextNote(left, slur, t) ==
    /\ left # <<>>
    /\ notes' = Tail(left)
    /\ slurNext' = Head(left).slur
    /\ recovery' = Head(left).pitch
    /\ pwm' = IF Heard(Head(left), slur) THEN Head(left).pitch ELSE pwm
    /\ lastTc' = Head(left).pitch
    /\ noteTimers' = NoteArmed(t)

(* Mutant: the note that ended is still what a tone recovers *)
EndTuneRecovering(left, slur, t) ==
    /\ left = <<>>
    /\ pwm' = IF playing THEN pwm ELSE Off
    /\ notes' = left
    /\ slurNext' = slur
    /\ noteTimers' = t
    /\ UNCHANGED <<recovery, lastTc>>

EndTune(left, slur, t) ==
    /\ left = <<>>
    /\ recovery' = Off
    /\ pwm' = IF playing THEN pwm ELSE Off
    /\ notes' = left
    /\ slurNext' = slur
    /\ noteTimers' = t
    /\ UNCHANGED lastTc

(* _play_next_note, with the notes left, slur_next and the timers t: the   *)
(* next note, not heard while a tone plays, or the end of the tune.        *)
PlayNextNote(left, slur, t) == NextNote(left, slur, t) \/ EndTune(left, slur, t)

Chains(t) == t.named + t.other + (IF "note" \in sounds THEN 1 ELSE 0)

(* piezzo_play, called by main and by on_beep_input: a notification of the *)
(* tune before, if one is pending, plays the notes of this one too.        *)
Play(tune) ==
    /\ Chains(NoteCancelled(noteTimers)) < MaxChains
    /\ PlayNextNote(tune, FALSE, NoteCancelled(noteTimers))
    /\ silenced' = FALSE
    /\ UNCHANGED <<playing, stops, sounds>>

(* piezzo_stop, which no program calls *)
Stop ==
    /\ noteTimers' = NoteCancelled(noteTimers)
    /\ pwm' = Off
    /\ silenced' = TRUE
    /\ UNCHANGED <<notes, slurNext, lastTc, playing, recovery, stops, sounds>>

(* piezzo_start_tone for a duration: the limit of errors in on_i2c_error,  *)
(* called as a handler or by on_send_i2c_command                           *)
StartTimedTone(tone) ==
    /\ stops < MaxChains
    /\ pwm' = tone
    /\ playing' = TRUE
    /\ stops' = stops + 1
    /\ UNCHANGED <<notes, slurNext, lastTc, recovery, noteTimers, sounds, silenced>>

(* piezzo_start_tone with a duration of 0, by on_sounder *)
StartTone(tone) ==
    /\ sounds = {}
    /\ pwm' = tone
    /\ playing' = TRUE
    /\ UNCHANGED <<notes, slurNext, lastTc, recovery, noteTimers, stops, sounds,
                   silenced>>

(* _stop_tone *)
EndTone ==
    /\ playing' = FALSE
    /\ pwm' = recovery
    /\ recovery' = Off
    /\ UNCHANGED <<notes, slurNext, lastTc, noteTimers, stops, silenced>>

(* piezzo_stop_tone, by on_sounder *)
StopTone == sounds = {} /\ EndTone /\ UNCHANGED sounds

(* Mutant: a note that is due while a tone plays is dropped *)
OnNoteUnlessTone ==
    /\ "note" \in sounds
    /\ IF playing THEN UNCHANGED <<notes, slurNext, lastTc, pwm, recovery, noteTimers>>
                  ELSE PlayNextNote(notes, slurNext, noteTimers)
    /\ sounds' = sounds \ {"note"}
    /\ UNCHANGED <<playing, stops, silenced>>

(* the reactor calls the two handlers *)
OnNote ==
    /\ "note" \in sounds
    /\ PlayNextNote(notes, slurNext, noteTimers)
    /\ sounds' = sounds \ {"note"}
    /\ UNCHANGED <<playing, stops, silenced>>

OnToneStop ==
    /\ "tone_stop" \in sounds
    /\ EndTone
    /\ sounds' = sounds \ {"tone_stop"}

(* timer_dispatch *)
ExpireNote(t) ==
    /\ noteTimers[t] > 0
    /\ noteTimers' = [noteTimers EXCEPT ![t] = @ - 1]
    /\ sounds' = sounds \cup {"note"}
    /\ UNCHANGED <<notes, slurNext, lastTc, pwm, playing, recovery, stops, silenced>>

ExpireTone ==
    /\ stops > 0
    /\ stops' = stops - 1
    /\ sounds' = sounds \cup {"tone_stop"}
    /\ UNCHANGED <<notes, slurNext, lastTc, pwm, playing, recovery, noteTimers, silenced>>

ExpireSound == ExpireTone \/ \E t \in {"named", "other"} : ExpireNote(t)

SoundNext ==
    \/ \E tune \in Tunes : Play(tune)
    \/ Stop
    \/ \E tone \in Tones : StartTimedTone(tone) \/ StartTone(tone)
    \/ StopTone
    \/ OnNote \/ OnToneStop
    \/ ExpireSound

SoundSpec == SoundInit /\ [][SoundNext]_soundVars

(* Timers that are not cancelled expire, and the handlers are called. *)
SoundFairness ==
    /\ WF_soundVars(OnNote) /\ WF_soundVars(OnToneStop)
    /\ WF_soundVars(ExpireTone)
    /\ \A t \in {"named", "other"} : WF_soundVars(ExpireNote(t))

-----------------------------------------------------------------------------
(* Every variable keeps its range. *)
SoundTypeOK ==
    /\ notes \in Seq(Notes)
    /\ slurNext \in BOOLEAN
    /\ lastTc \in Pitches \cup {Off}
    /\ pwm \in Pitches \cup Tones \cup {Off}
    /\ playing \in BOOLEAN
    /\ recovery \in Pitches \cup {Off}
    /\ noteTimers \in [named : 0..1, other : 0..MaxChains]
    /\ stops \in 0..MaxChains
    /\ sounds \in SUBSET {"note", "tone_stop"}
    /\ silenced \in BOOLEAN

(* main.cpp:271, "This takes over every other sounds": no note of a tune   *)
(* is heard while a tone plays, however many chains of timers play notes.  *)
ToneOverTune == playing => pwm \notin Pitches

(* When the last note is over and nothing is on its way any more, the      *)
(* sounder is silent: no order of tones, tunes and late timers leaves a    *)
(* note sounding for ever.  (piezzo_stop would: it keeps the value a tone  *)
(* recovers.)                                                              *)
Over == notes = <<>> /\ Chains(noteTimers) = 0
SilentAtEnd == Over /\ ~playing /\ ~silenced => pwm = Off

(* "The tune is played once and only once" (piezzo.c:334): when no other   *)
(* is started it comes to its end, though tones and beeps cancelled or     *)
(* doubled its timers.                                                     *)
TuneEnds ==
    <>[][\A tune \in Tunes : ~Play(tune)]_soundVars => <>[](silenced \/ Over)
=============================================================================
