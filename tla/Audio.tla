------------------------------- MODULE Audio -------------------------------
(***************************************************************************)
(* The audio system as a whole: core.cpp (opening, closing and restarting  *)
(* the device), every Sound and Music, and updateAll(), which App::run     *)
(* calls once per main-loop cycle.  All Makai calls come from the main     *)
(* thread, so each is one step; the mixer thread ends chunks and music     *)
(* between any two of them.                                                *)
(***************************************************************************)
EXTENDS Sound, Music

coreVars == <<audioOpen>>

vars == <<audioOpen, mixerVars, playableVars, soundVars, musicVars>>

Init ==
  /\ MixerInit
  /\ PlayableInit
  /\ SoundInit
  /\ MusicInit

\* The main thread is not blocked inside Mix_PlayMusic.
MainThreadRuns == waiting = None

-----------------------------------------------------------------------------
(* core.cpp *)

\* Audio::open(): nothing when already open, nothing when SDL refuses (the
\* exception leaves audioOpen FALSE).
Open ==
  /\ ~audioOpen
  /\ audioOpen' = TRUE
  /\ KeepSounds
  /\ UNCHANGED <<mixerVars, playableVars, musicVars>>

\* Audio::stopAll().
StopAll ==
  /\ SilenceStream
  /\ HaltChannels(Channels)

\* Audio::close(): stopAll() and the device itself.
CloseDevice(open) ==
  /\ audioOpen
  /\ StopAll
  /\ audioOpen' = open
  /\ KeepSounds
  /\ UNCHANGED <<playableVars, musicVars>>

Close == CloseDevice(FALSE)

\* Audio::restart() of an open device: close() and then open().  Where open()
\* fails, or the device was closed, the call is Close or Open.
Restart == CloseDevice(TRUE)

CoreStopAll ==
  /\ StopAll
  /\ KeepSounds
  /\ UNCHANGED <<audioOpen, playableVars, musicVars>>

CoreStep == Open \/ Close \/ Restart \/ CoreStopAll

-----------------------------------------------------------------------------
(* Calls on one Sound, calls on the music system *)

SoundStarts(s) ==
  /\ \E force \in BOOLEAN :
       \/ Play(s, force)
       \/ PlayOnceThisFrame(s, force)
       \/ \E cycles \in 0 .. MaxCycles : PlayOnceAndWait(s, force, cycles)
  /\ UNCHANGED <<audioOpen, streamVars, playableVars, musicVars>>

SoundControls(s) ==
  /\ Stop(s) \/ Pause(s) \/ Resume(s)
  /\ UNCHANGED <<audioOpen, streamVars, playableVars, musicVars>>

AllSounds ==
  /\ StopAllSounds \/ PauseAllSounds \/ ResumeAllSounds
  /\ UNCHANGED <<audioOpen, streamVars, playableVars, musicVars>>

SoundLives(s) ==
  /\ \/ SoundConstruct(s) /\ UNCHANGED channelVars
     \/ (Destruct(s) \/ Create(s)) /\ KeepSounds /\ UNCHANGED channelVars
     \/ SoundDestroy(s)
  /\ UNCHANGED <<audioOpen, streamVars, musicVars>>

MusicCall ==
  /\ \/ \E m \in Musics : PlayMusic(m) \/ QueueMusic(m)
     \/ \E m \in Musics, fade \in BOOLEAN : SwitchInto(m, fade)
     \/ \E fade \in BOOLEAN : StopMusic(fade)
     \/ PauseMusic
     \/ ResumeMusic
  /\ KeepSounds
  /\ UNCHANGED <<audioOpen, channelVars, playableVars>>

MusicLives(m) ==
  /\ \/ (Construct(m) \/ Destruct(m)) /\ UNCHANGED <<musicVars, streamVars>>
     \/ MusicCreate(m)
     \/ MusicDestroy(m)
  /\ KeepSounds
  /\ UNCHANGED <<audioOpen, channelVars>>

\* Audio::updateAll(): Music::update() and then Playable::update().
UpdateAll ==
  /\ MainThreadRuns
  /\ UpdateMusic
  /\ UpdateSounds
  /\ UNCHANGED <<audioOpen, channelVars, playableVars>>

MainStep ==
  /\ MainThreadRuns
  /\ \/ CoreStep
     \/ AllSounds
     \/ MusicCall
     \/ \E s \in Sounds : SoundStarts(s) \/ SoundControls(s) \/ SoundLives(s)
     \/ \E m \in Musics : MusicLives(m)

-----------------------------------------------------------------------------
(* The mixer thread, and the blocked call it lets return *)

MixerStep ==
  /\ MusicEnds \/ \E c \in Channels : ChannelEnds(c)
  /\ KeepSounds
  /\ UNCHANGED <<playableVars, musicVars>>

BlockedCallReturns ==
  /\ PlayMusicReturns
  /\ KeepSounds
  /\ UNCHANGED <<audioOpen, channelVars, playableVars>>

Next ==
  \/ MainStep
  \/ UpdateAll
  \/ MixerStep
  \/ BlockedCallReturns

\* The main loop reaches updateAll() again and again unless it is blocked,
\* a fade-out that is not paused completes, and a blocked call returns.
FadeCompletes ==
  /\ fading
  /\ MusicEnds
  /\ KeepSounds
  /\ UNCHANGED <<playableVars, musicVars>>

Fairness ==
  /\ SF_vars(UpdateAll)
  /\ WF_vars(FadeCompletes)
  /\ WF_vars(BlockedCallReturns)

Spec == Init /\ [][Next]_vars

FairSpec == Spec /\ Fairness

-----------------------------------------------------------------------------
(* Properties *)

\* Every variable has its type.
TypeOK ==
  /\ MixerTypeOK
  /\ PlayableTypeOK
  /\ SoundTypeOK
  /\ MusicTypeOK

\* A channel never plays a chunk nobody can stop: its Sound is loaded and
\* still knows the channel, so no Sound plays on two channels at once and no
\* freed chunk is being mixed (sound.cpp, play methods and onDestroy).
ChannelOwned ==
  \A c \in Channels :
    channels[c] # None =>
      /\ Exists(channels[c])
      /\ channel[channels[c]] = c

\* A method called on one Sound never silences, replaces, pauses or resumes
\* another one, though the channel it remembers may be the other's by now
\* (sound.cpp, active()).
NoCrossTalk ==
  [][\A s, t \in Sounds, c \in Channels :
       s # t /\ CallOn(s) /\ channels[c] = t =>
         /\ channels'[c] = t
         /\ (c \in pausedChannels') <=> (c \in pausedChannels)]_vars

\* No play method starts a Sound before the cycles its last playOnceAndWait
\* asked for have passed, whatever was called, destroyed or closed meanwhile
\* (sound.cpp, delay).
WaitRespected == [][\A s \in started' : owed[s] = 0]_vars

\* The stream plays a loaded Music, and current names it whenever the main
\* thread can look: the test in Music::onDestroy() is about the right music.
StreamOwned ==
  nowPlaying # None =>
    /\ Exists(nowPlaying)
    /\ MainThreadRuns => current = nowPlaying

\* Destroying one Music never stops the music of another (music.cpp,
\* onDestroy).
DestroyKeepsOthers ==
  [][\A m \in Musics : MusicDestroy(m) /\ nowPlaying # m => UNCHANGED streamVars]_vars

\* The queued callback belongs to a loaded Music, with one exception: a Music
\* destroyed while the device was closed stays queued, and its callback then
\* outlives it (music.cpp, onDestroy under isOpen()).
QueueValid ==
  queued # None => Exists(queued) \/ queued \in closedUnload

\* A closed device plays nothing.
ClosedSilent ==
  ~audioOpen => nowPlaying = None /\ \A c \in Channels : channels[c] = None

\* Only a music that plays can fade out.
FadingPlays == fading => nowPlaying # None

\* The Music a blocked play() waits for stays loaded and current.
WaitingLoaded ==
  waiting # None => audioOpen /\ Exists(waiting) /\ current = waiting

\* A Sound waits at least as long as it was asked to.
OwedCovered == \A s \in Sounds : owed[s] <= delay[s]

\* The inductive invariant of the audio system.  ChannelOwned needs
\* ClosedSilent, since a Sound forgets nothing when it is destroyed on a
\* closed device; StreamOwned needs the blocked play() to be accounted for.
IInv ==
  /\ ClosedSilent
  /\ FadingPlays
  /\ WaitingLoaded
  /\ ChannelOwned
  /\ StreamOwned
  /\ QueueValid
  /\ OwedCovered

\* While a Sound keeps sounding, the wait of its playOnceAndWait runs out.
WaitRunsOut ==
  \A s \in Sounds : (delay[s] > 0 /\ Active(s)) ~> (delay[s] = 0 \/ ~Active(s))

\* Issues.txt: an Audio::Sound object may lose sound forever.  What should
\* hold instead: a loaded Sound that waits becomes playable again, however long
\* the chunk it was started with lasted.
NeverLostForever ==
  \A s \in Sounds : (Exists(s) /\ delay[s] > 0) ~> (delay[s] = 0 \/ ~Exists(s))

\* The stream is silent or is about to be.
WindingDown == nowPlaying = None \/ (fading /\ ~musicPaused)

\* A Music queued on a stream that winds down is taken from the queue, or
\* something else was put on the stream or paused it in the meantime.
QueuedIsServed ==
  \A m \in Musics : (queued = m /\ WindingDown) ~> (queued # m \/ ~WindingDown)

=============================================================================
