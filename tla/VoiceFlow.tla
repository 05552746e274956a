------------------------------ MODULE VoiceFlow ------------------------------
(***************************************************************************)
(* The microphone and the screen of the board (nsh_commands.c,             *)
(* hm_lcd_display.c).  A listener thread waits for the wake word and then  *)
(* records what is said, sends it and announces the answer; the console's  *)
(* thread does the same on `voice`, and records on its own on `wake_kws`,  *)
(* `wake_rec`, `wake_loop` and `audio_stream`.  Both write on the screen,  *)
(* which a third thread otherwise draws.                                   *)
(*                                                                         *)
(* What is said, heard and answered is a free choice.  A request may never *)
(* return (see Stuck in TlsClient).                                        *)
(***************************************************************************)
EXTENDS Naturals

CONSTANTS
    Workers,     \* threads that kws_listen start may create
    Cli,         \* the console's thread
    BlinkPeriod  \* BLINK_PERIOD, in ticks of the display thread

ASSUME VoiceAssumption == Cli \notin Workers /\ BlinkPeriod \in Nat \ {0, 1}

Users == Workers \cup {Cli}

VARIABLES
    at,      \* user -> where its thread is
    mic,     \* users that have /dev/audio/pcm_in0 open
    run,     \* g_kws_listen_run
    busy,    \* g_hm_voice_busy
    display, \* the display thread: "boot", "check" or "render"
    hold,    \* g_lcd_hold
    shown,   \* "nothing", "text" or "dashboard"
    tick,    \* of the display thread, modulo BlinkPeriod
    eyes     \* as last drawn: "none" (not yet), "open" or "closed"

screen    == <<hold, shown>>
clock     == <<display, tick, eyes>>
voiceVars == <<at, mic, run, busy, screen, clock>>

VoiceInit ==
    /\ at = [u \in Users |-> IF u = Cli THEN "ready" ELSE "off"]
    /\ mic = {}
    /\ run = FALSE /\ busy = FALSE
    /\ hold = FALSE /\ shown = "nothing"
    /\ display = "boot" /\ tick = 0 /\ eyes = "none"

MoveTo(u, stage) == at' = [at EXCEPT ![u] = stage]
OpenMic(u)  == mic' = mic \cup {u}
CloseMic(u) == mic' = mic \ {u}

(* hm_lcd_show_text; without a screen yet it does nothing. *)
ShowText ==
    IF display = "boot" THEN UNCHANGED screen
    ELSE hold' = TRUE /\ shown' = "text"

(* A text, and the screen released at once. *)
ShowThenRelease ==
    /\ hold' = FALSE
    /\ shown' = IF display = "boot" THEN shown ELSE "text"

-----------------------------------------------------------------------------
(* hm_voice_utterance_roundtrip, by the console or after a wake word *)

Back(u) == IF u = Cli THEN "ready" ELSE "reopen"

\* Mutant: the flag stays set.
LeaveBusy(u) == MoveTo(u, Back(u)) /\ UNCHANGED busy

Leave(u) == MoveTo(u, Back(u)) /\ busy' = FALSE

(* The flag is read in one step and set in a later one. *)
Check(u) ==
    /\ at[u] = "check"
    /\ MoveTo(u, IF busy THEN Back(u) ELSE "enter")
    /\ UNCHANGED <<mic, run, busy, screen, clock>>

(* SPEAK NOW and open the microphone.  No token or no memory ends the      *)
(* round; a microphone that does not open is a recording of nothing.       *)
Enter(u) ==
    /\ at[u] = "enter"
    /\ \/ ShowText /\ OpenMic(u) /\ MoveTo(u, "record") /\ busy' = TRUE
       \/ (ShowThenRelease \/ UNCHANGED screen) /\ UNCHANGED mic /\ Leave(u)
    /\ UNCHANGED <<run, clock>>

(* MIC ERR, or THINKING. *)
Record(u) ==
    /\ at[u] = "record"
    /\ CloseMic(u)
    /\ \/ ShowThenRelease /\ Leave(u)
       \/ ShowText /\ MoveTo(u, "request") /\ UNCHANGED busy
    /\ UNCHANGED <<run, clock>>

(* Up to two requests; then NO SPEECH or DONE, after the release. *)
Request(u) ==
    /\ at[u] = "request"
    /\ IF display = "boot" THEN hold' = FALSE /\ UNCHANGED shown ELSE ShowText
    /\ \/ Leave(u)
       \/ MoveTo(u, "announce") /\ UNCHANGED busy
    /\ UNCHANGED <<mic, run, clock>>

Announce(u) ==
    /\ at[u] = "announce"
    /\ Leave(u)
    /\ UNCHANGED <<mic, run, screen, clock>>

(* A request that never returns. *)
Hang(u) ==
    /\ at[u] \in {"prompt", "request", "announce"}
    /\ MoveTo(u, "stuck")
    /\ UNCHANGED <<mic, run, busy, screen, clock>>

-----------------------------------------------------------------------------
(* kws_listen_worker *)

(* No memory or no microphone: the flag that other workers obey is reset. *)
StartListening(w) ==
    /\ at[w] = "opening"
    /\ \/ OpenMic(w) /\ ShowText /\ MoveTo(w, "listen") /\ UNCHANGED run
       \/ run' = FALSE /\ MoveTo(w, "off") /\ UNCHANGED <<mic, screen>>
    /\ UNCHANGED <<busy, clock>>

(* while (g_kws_listen_run) *)
Listen(w) ==
    /\ at[w] = "listen"
    /\ IF run THEN MoveTo(w, "hear") /\ UNCHANGED mic
              ELSE MoveTo(w, "off") /\ CloseMic(w)
    /\ UNCHANGED <<run, busy, screen, clock>>

\* Mutant: the microphone is kept for the next chunk.
HearKeeping(w) ==
    /\ at[w] = "hear"
    /\ \/ MoveTo(w, "listen") /\ UNCHANGED screen
       \/ w \in mic /\ ShowText /\ (MoveTo(w, "prompt") \/ MoveTo(w, "report"))
    /\ UNCHANGED <<mic, run, busy, clock>>

(* A chunk; speech followed by silence is scored, and may be the wake      *)
(* word: SPEAK NOW, and with auto voice (which the console may switch at    *)
(* any time, and only this reads) the microphone is given up.              *)
Hear(w) ==
    /\ at[w] = "hear"
    /\ \/ MoveTo(w, "listen") /\ UNCHANGED <<mic, screen>>
       \/ /\ w \in mic
          /\ ShowText
          /\ \/ CloseMic(w) /\ MoveTo(w, "prompt")
             \/ UNCHANGED mic /\ MoveTo(w, "report")
    /\ UNCHANGED <<run, busy, clock>>

(* hm_voice_wake_prompt and the wait for the loudspeaker. *)
Prompt(w) ==
    /\ at[w] = "prompt"
    /\ MoveTo(w, "check")
    /\ UNCHANGED <<mic, run, busy, screen, clock>>

\* Mutant: a microphone that does not open again is no reason to stop.
ReopenAnyway(w) ==
    /\ at[w] = "reopen"
    /\ OpenMic(w) \/ UNCHANGED mic
    /\ MoveTo(w, "report")
    /\ UNCHANGED <<run, busy, screen, clock>>

Reopen(w) ==
    /\ at[w] = "reopen"
    /\ \/ OpenMic(w) /\ UNCHANGED run
       \/ run' = FALSE /\ UNCHANGED mic
    /\ MoveTo(w, "report")
    /\ UNCHANGED <<busy, screen, clock>>

\* Mutant: the loop goes on without looking at the flag.
ReportOn(w) ==
    /\ at[w] = "report"
    /\ ShowText
    /\ MoveTo(w, "hear")
    /\ UNCHANGED <<mic, run, busy, clock>>

(* The MQTT event, and KWS LISTEN. *)
Report(w) ==
    /\ at[w] = "report"
    /\ ShowText
    /\ MoveTo(w, "listen")
    /\ UNCHANGED <<mic, run, busy, clock>>

-----------------------------------------------------------------------------
(* Commands, one at a time *)

CliReady == at[Cli] = "ready"

KwsStart ==
    /\ CliReady /\ ~run
    /\ \E w \in Workers :
          /\ at[w] = "off"
          /\ MoveTo(w, "opening")
    /\ run' = TRUE
    /\ UNCHANGED <<mic, busy, screen, clock>>

KwsStop ==
    /\ CliReady /\ run
    /\ run' = FALSE
    /\ UNCHANGED <<at, mic, busy, screen, clock>>

Voice ==
    /\ CliReady
    /\ MoveTo(Cli, "check")
    /\ UNCHANGED <<mic, run, busy, screen, clock>>

(* wake_kws and wake_rec show a text before, and mostly after; nobody      *)
(* releases the screen.                                                    *)
Capture ==
    /\ CliReady
    /\ ShowText \/ UNCHANGED screen
    /\ \/ OpenMic(Cli) /\ MoveTo(Cli, "capture")
       \/ UNCHANGED <<at, mic>>
    /\ UNCHANGED <<run, busy, clock>>

Captured ==
    /\ at[Cli] = "capture"
    /\ CloseMic(Cli)
    /\ ShowText \/ UNCHANGED screen
    /\ MoveTo(Cli, "ready")
    /\ UNCHANGED <<run, busy, clock>>

-----------------------------------------------------------------------------
(* display_thread *)

\* Mutant: the eyes never close.
EyesOpen(t) == "open"

Eyes(t) == IF t = BlinkPeriod - 1 THEN "closed" ELSE "open"

OpenDisplay ==
    /\ display = "boot"
    /\ display' = "check"
    /\ UNCHANGED <<at, mic, run, busy, screen, tick, eyes>>

(* Drawn when something has changed: the network, the model's key, the     *)
(* LED, or the eyes.                                                       *)
Tick ==
    /\ display = "check"
    /\ \/ ~hold /\ display' = "render" /\ UNCHANGED tick
       \/ /\ hold \/ Eyes(tick) = eyes
          /\ tick' = (tick + 1) % BlinkPeriod
          /\ UNCHANGED display
    /\ UNCHANGED <<at, mic, run, busy, screen, eyes>>

Render ==
    /\ display = "render"
    /\ shown' = "dashboard"
    /\ eyes' = Eyes(tick)
    /\ tick' = (tick + 1) % BlinkPeriod
    /\ display' = "check"
    /\ UNCHANGED <<at, mic, run, busy, hold>>

-----------------------------------------------------------------------------
Round(u) ==
    Check(u) \/ Enter(u) \/ Record(u) \/ Request(u) \/ Announce(u)

Worker(w) ==
    StartListening(w) \/ Listen(w) \/ Hear(w) \/ Prompt(w) \/ Reopen(w) \/ Report(w)

Display == OpenDisplay \/ Tick \/ Render

Commands == KwsStart \/ KwsStop \/ Voice \/ Capture

VoiceNext ==
    \/ \E u \in Users : Round(u) \/ Hang(u)
    \/ \E w \in Workers : Worker(w)
    \/ Commands \/ Captured
    \/ Display

VoiceSpec == VoiceInit /\ [][VoiceNext]_voiceVars

(* Listeners run, with recordings bounded by their budget, and so does the *)
(* display; nobody has to type a command, and a capture need not end.      *)
(* Calls of the audio driver are taken to return, also where two threads   *)
(* have the microphone open at once, which the code's comments doubt.      *)
VoiceFairSpec ==
    /\ VoiceSpec
    /\ \A w \in Workers : WF_voiceVars(Round(w) \/ Worker(w))
    /\ WF_voiceVars(Display)

-----------------------------------------------------------------------------
(* Properties *)

MicStages == {"record", "listen", "hear", "report", "capture"}

(* The threads are at stages they have, and the blinking stays in phase. *)
VoiceTypeOK ==
    /\ at \in [Users -> MicStages \cup {"ready", "off", "opening", "prompt", "check",
                  "enter", "request", "announce", "reopen", "stuck"}]
    /\ mic \in SUBSET Users
    /\ run \in BOOLEAN /\ busy \in BOOLEAN
    /\ display \in {"boot", "check", "render"}
    /\ hold \in BOOLEAN
    /\ shown \in {"nothing", "text", "dashboard"}
    /\ tick \in 0..BlinkPeriod - 1
    /\ eyes \in {"none", "open", "closed"}

(* A thread has the microphone open only where it records or listens, or   *)
(* between two chunks publishes a wake word by MQTT: it is closed on every *)
(* path out of a capture, and no request of a round trip, which may never  *)
(* return, is made with it open.                                           *)
MicOnlyInUse == \A u \in mic : at[u] \in MicStages

(* After `kws_listen stop`, or a microphone that could not be opened, the  *)
(* listeners give the microphone back, unless listening is started again.  *)
StopIsObeyed == ~run ~> (run \/ mic \cap Workers = {})

(* The flag of a round trip is reset on every path: it is never left set   *)
(* with nobody inside.  (That round trips overlap it does not prevent.)    *)
VoiceNotLockedOut ==
    busy => \E u \in Users : at[u] \in {"record", "request", "announce", "stuck"}

(* After a wake word the listener listens again, or listening has stopped, *)
(* or its request never returns.                                           *)
ListensAgain ==
    \A w \in Workers : at[w] = "prompt" ~>
        (at[w] = "listen" /\ w \in mic) \/ ~run \/ at[w] = "stuck"

(* A screen that is released and stays so shows the dashboard again        *)
(* although nothing it shows has changed: because the eyes blink.  A text  *)
(* put up after the release holds the screen anew, and may stay.           *)
ReleasedScreenReturns ==
    (~hold /\ display # "boot") ~> (shown = "dashboard" \/ hold)

=============================================================================
