-------------------------------- MODULE Music --------------------------------
(* The sound of the doom port (doom/src/neutrino_sound.cpp): effects mixed  *)
(* with a score that the program plays itself, event by event, into chunks  *)
(* for the audio device that both share.                                    *)
(*                                                                         *)
(* External: the game, which calls one function at a time; the device, which *)
(* may have played any part of what it was given, and may refuse to open or *)
(* to take a chunk.  Samples, gains and pitches are left out: a sound is    *)
(* its length in frames, a voice its note, its envelope and its age.        *)
EXTENDS Naturals, Sequences, FiniteSets, SequencesExt, FiniteSetsExt

CONSTANTS
  Scores,            \* sequences of tokens, malformed ones too
  Lengths,           \* lengths of effects
  kMixerChannels, kMusicVoices,
  kOutputRate, kMusTicksPerSecond,
  kFramesPerChunk,
  Target,            \* chunks that the device is given in advance
  Steps,             \* frames that a released voice is still heard
  DrumFrames,        \* frames until a drum is released
  MaxGroups          \* groups of events without a delay in between (1024)

MusicAssumption ==
  /\ kMusTicksPerSecond \in Nat \ {0} /\ kOutputRate \in Nat \ {0}
  /\ kMusicVoices \in Nat \ {0} /\ MaxGroups \in Nat \ {0} /\ kFramesPerChunk \in Nat \ {0}

VARIABLES
  audio,     \* the device is open; sound and music are initialized
  channels,  \* of the mixer
  songs,     \* registered
  g_song,    \* 0, or the one that was started last
  cursor,    \* g_song_cursor
  until,     \* g_samples_until_event
  remainder, \* g_tick_remainder
  voices,
  music,     \* playing, paused, looping
  at,        \* "idle", or the place in update_sound()
  frame, queued, groups,  \* its local variables
  played     \* history: frames of the song that were mixed

vars == <<audio, channels, songs, g_song, cursor, until, remainder, voices, music, at, frame, queued, groups, played>>
score == <<g_song, cursor, until, remainder, voices, music, played>>
loop == <<at, frame, queued, groups>>

Drums == 15
Silent == [len |-> 0, pos |-> 0, playing |-> FALSE]
NoVoice == [channel |-> 0, note |-> 0, left |-> 0, age |-> 0, releasing |-> FALSE]
Active(v) == v.left # 0
NoVoices == [i \in 1..kMusicVoices |-> NoVoice]

Init ==
  /\ audio = [open |-> FALSE, sound |-> FALSE, music |-> FALSE]
  /\ channels = [c \in 1..kMixerChannels |-> Silent]
  /\ songs = {} /\ g_song = 0 /\ cursor = 1 /\ until = 0 /\ remainder = 0 /\ voices = NoVoices
  /\ music = [playing |-> FALSE, paused |-> FALSE, looping |-> FALSE]
  /\ at = "idle" /\ frame = 0 /\ queued = 0 /\ groups = 0 /\ played = 0

-----------------------------------------------------------------------------
(* The functions that the game calls.                                      *)

Closed(a) == [a EXCEPT !.open = a.sound \/ a.music]

\* open_audio() may fail.
InitSound ==
  /\ at = "idle" /\ audio' = [audio EXCEPT !.open = TRUE, !.sound = TRUE]
  /\ channels' = [c \in 1..kMixerChannels |-> Silent]
  /\ UNCHANGED <<songs, score, loop>>

ShutdownSound ==
  /\ at = "idle" /\ audio' = Closed([audio EXCEPT !.sound = FALSE])
  /\ channels' = [c \in 1..kMixerChannels |-> Silent]
  /\ UNCHANGED <<songs, score, loop>>

\* The game starts no sound on a channel that does not exist.
StartSound ==
  /\ at = "idle" /\ audio.open
  /\ \E c \in 1..kMixerChannels, n \in Lengths :
       channels' = [channels EXCEPT ![c] = [len |-> n, pos |-> 0, playing |-> TRUE]]
  /\ UNCHANGED <<audio, songs, score, loop>>

StopSound ==
  /\ at = "idle"
  /\ \E c \in 1..kMixerChannels : channels' = [channels EXCEPT ![c].playing = FALSE]
  /\ UNCHANGED <<audio, songs, score, loop>>

InitMusic ==
  /\ at = "idle" /\ audio' = [audio EXCEPT !.open = TRUE, !.music = TRUE]
  /\ UNCHANGED <<channels, songs, score, loop>>

\* stop_music_state() and restart_song().
Stopped ==
  /\ music' = [music EXCEPT !.playing = FALSE, !.paused = FALSE]
  /\ until' = 0 /\ voices' = NoVoices
Restarted ==
  /\ cursor' = 1 /\ until' = 0 /\ remainder' = 0 /\ voices' = NoVoices /\ played' = 0

ShutdownMusic ==
  /\ at = "idle" /\ Stopped /\ g_song' = 0
  /\ audio' = Closed([audio EXCEPT !.music = FALSE])
  /\ UNCHANGED <<channels, songs, cursor, remainder, played, loop>>

RegisterSong ==
  /\ at = "idle" /\ \E s \in 1..Len(Scores) : songs' = songs \cup {s}
  /\ UNCHANGED <<audio, channels, score, loop>>

UnregisterSong ==
  /\ at = "idle"
  /\ \E s \in songs :
       /\ songs' = songs \ {s}
       /\ IF g_song = s THEN Stopped /\ g_song' = 0 ELSE UNCHANGED <<music, until, voices, g_song>>
  /\ UNCHANGED <<audio, channels, cursor, remainder, played, loop>>

PlaySong ==
  /\ at = "idle" /\ audio.music
  /\ \E s \in songs, looping \in BOOLEAN :
       /\ g_song' = s /\ music' = [music EXCEPT !.playing = TRUE, !.looping = looping]
       /\ Restarted
  /\ UNCHANGED <<audio, channels, songs, loop>>

StopSong ==
  /\ at = "idle" /\ Stopped /\ UNCHANGED <<audio, channels, songs, g_song, cursor, remainder, played, loop>>

PauseMusic ==
  /\ at = "idle" /\ music' = [music EXCEPT !.paused = TRUE]
  /\ UNCHANGED <<audio, channels, songs, g_song, cursor, until, remainder, voices, played, loop>>

ResumeMusic ==
  /\ at = "idle" /\ music.playing /\ music' = [music EXCEPT !.paused = FALSE]
  /\ UNCHANGED <<audio, channels, songs, g_song, cursor, until, remainder, voices, played, loop>>

-----------------------------------------------------------------------------
(* update_sound(), and poll_music() without effects.                       *)

AnyPlaying == (\E c \in DOMAIN channels : channels[c].playing) \/ (music.playing /\ ~music.paused)

Update ==
  /\ at = "idle" /\ audio.open /\ AnyPlaying
  /\ queued' \in 0..(Target - 1) /\ at' = "effects" /\ frame' = 0
  /\ UNCHANGED <<audio, channels, songs, score, groups>>

\* mix_chunk(), a frame of it.
NextSample(c) ==
  IF ~c.playing THEN c ELSE IF c.pos >= c.len THEN [c EXCEPT !.playing = FALSE] ELSE [c EXCEPT !.pos = c.pos + 1]

MixEffects ==
  /\ at = "effects" /\ channels' = [c \in DOMAIN channels |-> NextSample(channels[c])]
  /\ at' = "music" /\ UNCHANGED <<audio, songs, score, frame, queued, groups>>

\* mix_music_frame(): events first, as long as one is due.
Token == IF g_song # 0 /\ cursor =< Len(Scores[g_song]) THEN Scores[g_song][cursor] ELSE [kind |-> "none"]

Due ==
  /\ at = "music" /\ music.playing /\ ~music.paused /\ until = 0
  /\ at' = "event" /\ groups' = 0 /\ UNCHANGED <<audio, channels, songs, score, frame, queued>>

Released(vs, channel, notes) ==
  [i \in DOMAIN vs |->
     IF Active(vs[i]) /\ vs[i].channel = channel /\ vs[i].note \in notes
       THEN [vs[i] EXCEPT !.releasing = TRUE] ELSE vs[i]]

\* note_on(): a free voice, or the one that is heard least, of those the oldest.
Quieter(v, w) == v.left < w.left \/ (v.left = w.left /\ v.age > w.age)
Chosen(vs) ==
  LET free == {i \in DOMAIN vs : ~Active(vs[i])} IN
  IF free # {} THEN Min(free)
  ELSE Min({i \in DOMAIN vs : \A j \in DOMAIN vs : ~Quieter(vs[j], vs[i])})

NoteOn(vs, channel, note) ==
  LET r == Released(vs, channel, {note}) IN
  [r EXCEPT ![Chosen(r)] = [channel |-> channel, note |-> note, left |-> Steps, age |-> 0, releasing |-> FALSE]]

VoicesAfter(t) ==
  CASE t.kind = "release" -> Released(voices, t.channel, {t.note})
    [] t.kind = "play" -> NoteOn(voices, t.channel, t.note)
    [] t.kind = "off" -> Released(voices, t.channel, {v.note : v \in Range(voices)})
    [] OTHER -> voices

Malformed ==
  /\ Stopped /\ at' = "music"
  /\ UNCHANGED <<audio, channels, songs, g_song, cursor, remainder, played, frame, queued, groups>>

Event ==
  /\ at = "event" /\ Token.kind \in {"release", "play", "off", "control"}
  /\ voices' = VoicesAfter(Token) /\ cursor' = cursor + 1
  /\ at' = IF Token.last THEN "delay" ELSE "event"
  /\ UNCHANGED <<audio, channels, songs, g_song, until, remainder, music, played, frame, queued, groups>>

BadEvent == at = "event" /\ Token.kind \in {"none", "delay", "bad"} /\ Malformed

EndOfScore ==
  /\ at = "event" /\ Token.kind = "end"
  /\ IF music.looping
       THEN /\ Restarted /\ at' = "music"
            /\ UNCHANGED <<audio, channels, songs, g_song, music, frame, queued, groups>>
       ELSE Malformed

\* The delay, in samples; what is left of a sample is kept for the next.
Scaled == Token.ticks * kOutputRate + remainder

Delay ==
  /\ at = "delay" /\ Token.kind = "delay"
  /\ LET samples == Scaled \div kMusTicksPerSecond IN
     IF samples = 0 /\ groups + 1 = MaxGroups
       THEN Malformed
       ELSE /\ until' = samples /\ remainder' = Scaled % kMusTicksPerSecond /\ cursor' = cursor + 1
            /\ groups' = groups + 1 /\ at' = IF samples = 0 THEN "event" ELSE "music"
            /\ UNCHANGED <<audio, channels, songs, g_song, voices, music, played, frame, queued>>

BadDelay == at = "delay" /\ Token.kind # "delay" /\ Malformed

Heard(v) ==
  LET releasing == v.releasing \/ (v.channel = Drums /\ v.age + 1 > DrumFrames)
      left == IF releasing THEN v.left - 1 ELSE v.left
  IN IF ~Active(v) \/ left = 0 THEN NoVoice
     ELSE [v EXCEPT !.age = @ + 1, !.releasing = releasing, !.left = left]

MixMusic ==
  /\ at = "music" /\ ~(music.playing /\ ~music.paused /\ until = 0)
  /\ IF music.playing /\ ~music.paused
       THEN until' = until - 1 /\ voices' = [i \in DOMAIN voices |-> Heard(voices[i])] /\ played' = played + 1
       ELSE UNCHANGED <<until, voices, played>>
  /\ frame' = frame + 1 /\ at' = IF frame + 1 = kFramesPerChunk THEN "write" ELSE "effects"
  /\ UNCHANGED <<audio, channels, songs, g_song, cursor, remainder, music, queued, groups>>

\* A chunk that the device does not take is lost.
Write ==
  /\ at = "write"
  /\ \/ queued' = queued + 1 /\ at' = IF queued + 1 < Target /\ AnyPlaying THEN "effects" ELSE "idle"
     \/ queued' = queued /\ at' = "idle"
  /\ frame' = 0 /\ UNCHANGED <<audio, channels, songs, score, groups>>

Mix == MixEffects \/ Due \/ Event \/ BadEvent \/ EndOfScore \/ Delay \/ BadDelay \/ MixMusic \/ Write

Next ==
  \/ InitSound \/ ShutdownSound \/ StartSound \/ StopSound \/ InitMusic \/ ShutdownMusic
  \/ RegisterSong \/ UnregisterSong \/ PlaySong \/ StopSong \/ PauseMusic \/ ResumeMusic
  \/ Update \/ Mix

Spec == Init /\ [][Next]_vars

\* update_sound() does not wait for anything.
FairSpec == Spec /\ WF_vars(Mix)

-----------------------------------------------------------------------------
TypeOK ==
  /\ at \in {"idle", "effects", "music", "event", "delay", "write"}
  /\ frame \in 0..kFramesPerChunk /\ queued \in 0..Target /\ groups \in 0..MaxGroups
  /\ at = "event" => groups < MaxGroups
  /\ g_song \in songs \cup {0} /\ \A i \in DOMAIN voices : voices[i].left \in 0..Steps

\* What the score says up to the cursor.
Past == IF g_song = 0 THEN <<>> ELSE SubSeq(Scores[g_song], 1, cursor - 1)
Ticks == FoldLeft(LAMBDA n, t : IF t.kind = "delay" THEN n + t.ticks ELSE n, 0, Past)
Held ==
  FoldLeft(LAMBDA held, t :
             CASE t.kind = "play" -> held \cup {<<t.channel, t.note>>}
               [] t.kind = "release" -> held \ {<<t.channel, t.note>>}
               [] t.kind = "off" -> {h \in held : h[1] # t.channel}
               [] OTHER -> held, {}, Past)

\* Every event is played at its sample: delays that are no whole number of
\* samples do not add up to a drift, over pauses, chunks and repetitions
\* (neutrino_sound.cpp:279-293, 386-401).
OnTime == music.playing => until + played = (Ticks * kOutputRate) \div kMusTicksPerSecond

\* What sounds is what the score holds, once for each note, whatever voices
\* are taken away for others, and nothing sounds of a song that is over
\* (neutrino_sound.cpp:225-260, 272-277).
NoNoteHangs ==
  LET on == {i \in DOMAIN voices : Active(voices[i]) /\ ~voices[i].releasing}
      note(i) == <<voices[i].channel, voices[i].note>>
  IN /\ \A i \in on : note(i) \in Held /\ \A j \in on : note(i) = note(j) => i = j
     /\ ~music.playing => \A i \in DOMAIN voices : ~Active(voices[i])

\* The device is open as long as one of both uses it, and only then
\* (neutrino_sound.cpp:104-132).
OpenWhileUsed == audio.open <=> audio.sound \/ audio.music

\* "Bound work here so malformed WAD data cannot trap the audio update loop."
\* (neutrino_sound.cpp:317-318): an update comes to its end.
UpdateReturns == at # "idle" ~> at = "idle"
=============================================================================
