---------------------------- MODULE AudioProofs ----------------------------
(***************************************************************************)
(* Proofs about the audio system, for any sets of Sounds and Musics, any   *)
(* channels and any bound on the cycles of playOnceAndWait.                *)
(***************************************************************************)
EXTENDS Audio, TLAPS

-----------------------------------------------------------------------------
(* Type correctness *)

\* Starting a chunk on a channel keeps the types of what it changes.
LEMMA StartTypes ==
  ASSUME TypeOK, NEW s \in Sounds, StartOnChannel(s)
  PROVE  /\ channels' \in [Channels -> Sounds \cup {None}]
         /\ pausedChannels' \subseteq Channels
         /\ channel' \in [Sounds -> Channels \cup {NoChannel}]
         /\ started' \subseteq Sounds
<1>1. PICK got \in Channels \cup {NoChannel} :
        /\ PlayChannel(GetChannel(s), s, got)
        /\ channel' = [channel EXCEPT ![s] = got]
        /\ started' = IF got = NoChannel THEN {} ELSE {s}
  BY DEF StartOnChannel
<1>2. channel' \in [Sounds -> Channels \cup {NoChannel}] /\ started' \subseteq Sounds
  BY <1>1 DEF TypeOK, SoundTypeOK
<1>3. /\ channels' \in [Channels -> Sounds \cup {None}]
      /\ pausedChannels' \subseteq Channels
  BY <1>1 DEF PlayChannel, TypeOK, MixerTypeOK, channelVars
<1> QED
  BY <1>2, <1>3

\* A call on one Sound that starts it keeps every type.
LEMMA SoundStartsTypes ==
  ASSUME TypeOK, NEW s \in Sounds, SoundStarts(s)
  PROVE  TypeOK'
<1> USE DEF TypeOK, MixerTypeOK, PlayableTypeOK, SoundTypeOK, MusicTypeOK,
            streamVars, playableVars, musicVars
<1>1. ASSUME NEW force \in BOOLEAN, Play(s, force)
      PROVE  TypeOK'
  BY <1>1, StartTypes DEF Play, SoundStarts
<1>2. ASSUME NEW force \in BOOLEAN, PlayOnceThisFrame(s, force)
      PROVE  TypeOK'
  BY <1>2, StartTypes DEF PlayOnceThisFrame, SpendFrame, SoundStarts
<1>3. ASSUME NEW force \in BOOLEAN, NEW cycles \in 0 .. MaxCycles,
             PlayOnceAndWait(s, force, cycles)
      PROVE  TypeOK'
  <2>1. cycles \in Nat
    BY MaxCyclesAssumption
  <2>2. delay' \in [Sounds -> Nat] /\ owed' \in [Sounds -> Nat]
    BY <1>3, <2>1 DEF PlayOnceAndWait
  <2> QED
    BY <1>3, <2>2, StartTypes DEF PlayOnceAndWait, SpendFrame, SoundStarts
<1> QED
  BY <1>1, <1>2, <1>3 DEF SoundStarts

\* updateAll() keeps every type.
LEMMA UpdateAllTypes ==
  ASSUME TypeOK, UpdateAll
  PROVE  TypeOK'
<1> USE DEF TypeOK, MixerTypeOK, PlayableTypeOK, SoundTypeOK, MusicTypeOK
<1>1. MixerTypeOK' /\ MusicTypeOK'
  BY DEF UpdateAll, UpdateMusic, PlayOnStream, SilenceStream, streamVars,
         channelVars
<1>2. \A s \in Sounds : /\ GetChannel(s) \in Channels \cup {NoChannel}
                        /\ DelayAfterUpdate(s) \in Nat
  BY DEF GetChannel, DelayAfterUpdate
<1>3. SoundTypeOK'
  BY <1>2 DEF UpdateAll, UpdateSounds
<1> QED
  BY <1>1, <1>3 DEF UpdateAll, playableVars

\* Every variable of the audio system keeps its type.
THEOREM TypeCorrect == Spec => []TypeOK
<1>1. Init => TypeOK
  <2> SUFFICES ASSUME Init
               PROVE  TypeOK
    OBVIOUS
  <2>1. MixerTypeOK
    BY DEF Init, MixerInit, MixerTypeOK
  <2>2. PlayableTypeOK
    BY DEF Init, PlayableInit, PlayableTypeOK
  <2>3. SoundTypeOK
    BY DEF Init, SoundInit, SoundTypeOK
  <2>4. MusicTypeOK
    BY DEF Init, MusicInit, MusicTypeOK
  <2> QED
    BY <2>1, <2>2, <2>3, <2>4 DEF TypeOK
<1>2. TypeOK /\ [Next]_vars => TypeOK'
  <2> SUFFICES ASSUME TypeOK, [Next]_vars
               PROVE  TypeOK'
    OBVIOUS
  <2> USE DEF TypeOK, MixerTypeOK, PlayableTypeOK, SoundTypeOK, MusicTypeOK,
              mixerVars, streamVars, channelVars, playableVars, soundVars,
              musicVars, KeepSounds, HaltChannels, SilenceStream
  <2>1. CASE CoreStep
    BY <2>1 DEF CoreStep, Open, Close, Restart, CloseDevice, CoreStopAll,
                StopAll
  <2>2. CASE AllSounds
    BY <2>2 DEF AllSounds, StopAllSounds, PauseAllSounds, ResumeAllSounds,
                PlayingChannels
  <2>3. CASE MusicCall
    BY <2>3 DEF MusicCall, PlayMusic, QueueMusic, SwitchInto, StopMusic,
                PauseMusic, ResumeMusic, PlayOnStream, StopStream
  <2>4. ASSUME NEW s \in Sounds, SoundStarts(s)
        PROVE  TypeOK'
    BY <2>4, SoundStartsTypes
  <2>5. ASSUME NEW s \in Sounds, SoundControls(s)
        PROVE  TypeOK'
    BY <2>5 DEF SoundControls, Stop, Pause, Resume, Active
  <2>6. ASSUME NEW s \in Sounds, SoundLives(s)
        PROVE  TypeOK'
    BY <2>6 DEF SoundLives, SoundConstruct, SoundDestroy, Construct,
                Destruct, Create, Unload, Exists, Playables
  <2>7. ASSUME NEW m \in Musics, MusicLives(m)
        PROVE  TypeOK'
    BY <2>7 DEF MusicLives, MusicCreate, MusicDestroy, Construct, Destruct,
                Create, Unload, Exists, Playables
  <2>8. CASE UpdateAll
    BY <2>8, UpdateAllTypes
  <2>9. CASE MixerStep
    BY <2>9 DEF MixerStep, MusicEnds, ChannelEnds
  <2>10. CASE BlockedCallReturns
    BY <2>10 DEF BlockedCallReturns, PlayMusicReturns, PlayOnStream
  <2>11. CASE UNCHANGED vars
    BY <2>11 DEF vars
  <2> QED
    BY <2>1, <2>2, <2>3, <2>4, <2>5, <2>6, <2>7, <2>8, <2>9, <2>10, <2>11
    DEF Next, MainStep
<1>3. QED
  BY <1>1, <1>2, PTL DEF Spec

-----------------------------------------------------------------------------
(* The inductive invariant *)

\* The part of IInv about the channels and the Sounds.
SoundInv ==
  /\ ~audioOpen => \A c \in Channels : channels[c] = None
  /\ ChannelOwned
  /\ OwedCovered

\* The part of IInv about the stream and the Musics.
StreamInv ==
  /\ ~audioOpen => nowPlaying = None
  /\ FadingPlays
  /\ WaitingLoaded
  /\ StreamOwned
  /\ QueueValid

\* The two parts make IInv.
LEMMA InvParts == IInv <=> SoundInv /\ StreamInv
BY DEF IInv, SoundInv, StreamInv, ClosedSilent

\* What the Sounds' part of the invariant reads, unchanged, keeps it.
LEMMA SoundFrame ==
  ASSUME SoundInv, UNCHANGED <<audioOpen, channels, created, channel, delay, owed>>
  PROVE  SoundInv'
BY DEF SoundInv, ChannelOwned, OwedCovered, Exists

\* What the Musics' part reads, unchanged, keeps it.
LEMMA StreamFrame ==
  ASSUME StreamInv,
         UNCHANGED <<audioOpen, nowPlaying, fading, created, musicVars>>
  PROVE  StreamInv'
BY DEF StreamInv, FadingPlays, WaitingLoaded, StreamOwned, QueueValid, Exists,
       MainThreadRuns, musicVars

\* Starting a Sound on a channel keeps every channel owned: a channel the
\* Sound left behind no longer plays it, because a channel that does is the
\* one active() finds.
LEMMA StartKeepsOwned ==
  ASSUME TypeOK, SoundInv, NEW s \in Sounds, Exists(s), StartOnChannel(s),
         UNCHANGED <<audioOpen, created>>
  PROVE  /\ ChannelOwned'
         /\ ~audioOpen' => \A c \in Channels : channels'[c] = None
<1> USE DEF TypeOK, MixerTypeOK, SoundTypeOK
<1>1. PICK got \in Channels \cup {NoChannel} :
        /\ PlayChannel(GetChannel(s), s, got)
        /\ channel' = [channel EXCEPT ![s] = got]
  BY DEF StartOnChannel
<1>2. NoChannel \notin Channels
  BY ChannelsAssumption DEF NoChannel
<1>3. s # None
  BY NoneAssumption
<1>4. CASE got = NoChannel
  <2>1. UNCHANGED channels
    BY <1>1, <1>2, <1>4 DEF PlayChannel, channelVars
  <2>2. \A c \in Channels : channels[c] # s
    <3> SUFFICES ASSUME NEW c \in Channels, channels[c] = s
                 PROVE  FALSE
      OBVIOUS
    <3>1. channel[s] = c /\ audioOpen
      BY <1>3 DEF SoundInv, ChannelOwned
    <3>2. GetChannel(s) # NoChannel
      BY <3>1, <1>2 DEF GetChannel, Active
    <3> QED
      BY <3>1, <3>2, <1>1, <1>2, <1>4 DEF PlayChannel
  <2> QED
    BY <1>1, <2>1, <2>2 DEF SoundInv, ChannelOwned, Exists
<1>5. CASE got \in Channels
  <2>1. audioOpen /\ channels' = [channels EXCEPT ![got] = s]
    BY <1>1, <1>2, <1>5 DEF PlayChannel
  <2>2. \A c \in Channels : channels[c] = s => c = got
    <3> SUFFICES ASSUME NEW c \in Channels, channels[c] = s
                 PROVE  c = got
      OBVIOUS
    <3>1. channel[s] = c
      BY <1>3 DEF SoundInv, ChannelOwned
    <3>2. GetChannel(s) = c
      BY <3>1, <1>2 DEF GetChannel, Active
    <3> QED
      BY <3>2, <1>1, <1>2, <1>5 DEF PlayChannel
  <2>3. ASSUME NEW c \in Channels, channels'[c] # None
        PROVE  channels'[c] \in created' /\ channel'[channels'[c]] = c
    <3>1. CASE c = got
      BY <3>1, <2>1, <1>1, <1>5 DEF Exists
    <3>2. CASE c # got
      <4>1. channels'[c] = channels[c] /\ channels[c] # s
        BY <3>2, <2>1, <2>2
      <4> QED
        BY <4>1, <2>3, <1>1 DEF SoundInv, ChannelOwned, Exists
    <3> QED
      BY <3>1, <3>2
  <2> QED
    BY <2>1, <2>3 DEF ChannelOwned, Exists
<1> QED
  BY <1>1, <1>4, <1>5

\* A call that starts a Sound keeps the Sounds' part.
LEMMA SoundStartsInv ==
  ASSUME TypeOK, SoundInv, NEW s \in Sounds, SoundStarts(s)
  PROVE  SoundInv'
<1> USE DEF SoundStarts, MayStart, playableVars
<1>1. Exists(s) /\ StartOnChannel(s)
  BY DEF Play, PlayOnceThisFrame, PlayOnceAndWait
<1>2. ChannelOwned' /\ (~audioOpen' => \A c \in Channels : channels'[c] = None)
  BY <1>1, StartKeepsOwned
<1>3. OwedCovered'
  <2>1. CASE UNCHANGED <<delay, owed>>
    BY <2>1 DEF SoundInv, OwedCovered
  <2>2. ASSUME NEW force \in BOOLEAN, NEW cycles \in 0 .. MaxCycles,
               PlayOnceAndWait(s, force, cycles)
        PROVE  OwedCovered'
    BY <2>2, MaxCyclesAssumption
    DEF PlayOnceAndWait, SoundInv, OwedCovered, TypeOK, SoundTypeOK
  <2> QED
    BY <2>1, <2>2 DEF Play, PlayOnceThisFrame
<1> QED
  BY <1>2, <1>3 DEF SoundInv

\* Construction, loading and unloading of a Sound keep the Sounds' part.
LEMMA SoundLivesInv ==
  ASSUME TypeOK, SoundInv, NEW s \in Sounds, SoundLives(s)
  PROVE  SoundInv'
<1> USE DEF TypeOK, MixerTypeOK, PlayableTypeOK, SoundTypeOK, SoundInv,
            ChannelOwned, OwedCovered, Exists, SoundLives, channelVars
<1>1. CASE SoundConstruct(s) /\ UNCHANGED channelVars
  <2>1. \A c \in Channels : channels[c] # s
    BY <1>1, NoneAssumption DEF SoundConstruct, Construct
  <2> QED
    BY <1>1, <2>1 DEF SoundConstruct, Construct
<1>2. CASE (Destruct(s) \/ Create(s)) /\ KeepSounds /\ UNCHANGED channelVars
  BY <1>2 DEF Destruct, Create, KeepSounds
<1>3. CASE SoundDestroy(s)
  BY <1>3 DEF SoundDestroy, Unload, KeepSounds, HaltChannels
<1> QED
  BY <1>1, <1>2, <1>3

\* updateAll() keeps the Sounds' part: a Sound that plays keeps its channel,
\* and its wait runs down no faster than the cycles pass.
LEMMA UpdateAllInv ==
  ASSUME TypeOK, SoundInv, UpdateAll
  PROVE  SoundInv'
<1> USE DEF UpdateAll, UpdateSounds, TypeOK, MixerTypeOK, SoundTypeOK,
            channelVars, playableVars
<1>1. ChannelOwned'
  <2> SUFFICES ASSUME NEW c \in Channels, channels[c] # None
               PROVE  channels[c] \in created /\ channel'[channels[c]] = c
    BY DEF ChannelOwned, Exists
  <2>1. /\ channels[c] \in Sounds
        /\ channels[c] \in created
        /\ channel[channels[c]] = c
    BY DEF SoundInv, ChannelOwned, Exists
  <2>2. GetChannel(channels[c]) = c
    BY <2>1, ChannelsAssumption DEF GetChannel, Active, Exists, NoChannel
  <2> QED
    BY <2>1, <2>2
<1>2. OwedCovered'
  BY DEF OwedCovered, SoundInv, DelayAfterUpdate
<1> QED
  BY <1>1, <1>2 DEF SoundInv

\* Every step keeps the Sounds' part of the invariant.
LEMMA SoundSteps == TypeOK /\ SoundInv /\ [Next]_vars => SoundInv'
<1> SUFFICES ASSUME TypeOK, SoundInv, [Next]_vars
             PROVE  SoundInv'
  OBVIOUS
<1> USE DEF KeepSounds, playableVars, channelVars
<1>1. CASE CoreStep
  <2>1. CASE Open
    BY <2>1 DEF Open, SoundInv, ChannelOwned, OwedCovered, Exists, mixerVars
  <2>2. ASSUME NEW open \in BOOLEAN, CloseDevice(open)
        PROVE  SoundInv'
    BY <2>2 DEF CloseDevice, StopAll, SoundInv, ChannelOwned, OwedCovered,
                Exists, HaltChannels
  <2>3. CASE CoreStopAll
    BY <2>3 DEF CoreStopAll, StopAll, SoundInv, ChannelOwned, OwedCovered,
                Exists, HaltChannels
  <2> QED
    BY <1>1, <2>1, <2>2, <2>3 DEF CoreStep, Close, Restart
<1>2. CASE AllSounds
  BY <1>2 DEF AllSounds, StopAllSounds, PauseAllSounds, ResumeAllSounds,
              SoundInv, ChannelOwned, OwedCovered, Exists, HaltChannels
<1>3. CASE MusicCall
  BY <1>3, SoundFrame DEF MusicCall
<1>4. ASSUME NEW s \in Sounds, SoundStarts(s)
      PROVE  SoundInv'
  BY <1>4, SoundStartsInv
<1>5. ASSUME NEW s \in Sounds, SoundControls(s)
      PROVE  SoundInv'
  BY <1>5 DEF SoundControls, Stop, Pause, Resume, SoundInv, ChannelOwned,
              OwedCovered, Exists, HaltChannels
<1>6. ASSUME NEW s \in Sounds, SoundLives(s)
      PROVE  SoundInv'
  BY <1>6, SoundLivesInv
<1>7. ASSUME NEW m \in Musics, MusicLives(m)
      PROVE  SoundInv'
  <2>1. \A c \in Channels : channels[c] # m
    BY DistinctAssumption, NoneAssumption DEF TypeOK, MixerTypeOK
  <2> QED
    BY <1>7, <2>1 DEF MusicLives, MusicCreate, MusicDestroy, Construct,
        Destruct, Create, Unload, SoundInv, ChannelOwned, OwedCovered, Exists
<1>8. CASE UpdateAll
  BY <1>8, UpdateAllInv
<1>9. CASE MixerStep
  BY <1>9 DEF MixerStep, MusicEnds, ChannelEnds, HaltChannels, SoundInv,
              ChannelOwned, OwedCovered, Exists
<1>10. CASE BlockedCallReturns
  BY <1>10, SoundFrame DEF BlockedCallReturns
<1>11. CASE UNCHANGED vars
  BY <1>11, SoundFrame DEF vars, mixerVars, soundVars
<1> QED
  BY <1>1, <1>2, <1>3, <1>4, <1>5, <1>6, <1>7, <1>8, <1>9, <1>10, <1>11
  DEF Next, MainStep

\* Calls on the music system keep the Musics' part.
LEMMA MusicCallInv ==
  ASSUME TypeOK, StreamInv, MainThreadRuns, MusicCall
  PROVE  StreamInv'
<1> USE DEF TypeOK, MixerTypeOK, MusicTypeOK, StreamInv, FadingPlays,
            WaitingLoaded, StreamOwned, QueueValid, Exists, MainThreadRuns,
            MusicCall, playableVars, streamVars, musicVars, SilenceStream
<1>1. ASSUME NEW m \in Musics, PlayMusic(m)
      PROVE  StreamInv'
  <2>1. m # None
    BY NoneAssumption
  <2>2. CASE audioOpen /\ fading
    BY <1>1, <2>1, <2>2 DEF PlayMusic
  <2>3. CASE ~(audioOpen /\ fading)
    BY <1>1, <2>1, <2>3 DEF PlayMusic, PlayOnStream
  <2> QED
    BY <2>2, <2>3
<1>2. ASSUME NEW m \in Musics, QueueMusic(m)
      PROVE  StreamInv'
  BY <1>2 DEF QueueMusic
<1>3. ASSUME NEW m \in Musics, NEW fade \in BOOLEAN, SwitchInto(m, fade)
      PROVE  StreamInv'
  BY <1>3 DEF SwitchInto, StopStream
<1>4. ASSUME NEW fade \in BOOLEAN, StopMusic(fade)
      PROVE  StreamInv'
  BY <1>4 DEF StopMusic, StopStream
<1>5. CASE PauseMusic \/ ResumeMusic
  BY <1>5 DEF PauseMusic, ResumeMusic
<1> QED
  BY <1>1, <1>2, <1>3, <1>4, <1>5

\* Construction, loading and unloading of a Music keep the Musics' part.
LEMMA MusicLivesInv ==
  ASSUME TypeOK, StreamInv, MainThreadRuns, NEW m \in Musics, MusicLives(m)
  PROVE  StreamInv'
<1> USE DEF TypeOK, MixerTypeOK, MusicTypeOK, PlayableTypeOK, StreamInv,
            FadingPlays, WaitingLoaded, StreamOwned, QueueValid, Exists,
            MainThreadRuns, MusicLives, streamVars, musicVars, SilenceStream
<1>1. CASE (Construct(m) \/ Destruct(m)) /\ UNCHANGED <<musicVars, streamVars>>
  BY <1>1 DEF Construct, Destruct
<1>2. CASE MusicCreate(m)
  BY <1>2 DEF MusicCreate, Create
<1>3. CASE MusicDestroy(m)
  <2>1. CASE audioOpen
    BY <1>3, <2>1 DEF MusicDestroy, Unload, HaltsOnDestroy
  <2>2. CASE ~audioOpen
    BY <1>3, <2>2 DEF MusicDestroy, Unload
  <2> QED
    BY <2>1, <2>2
<1> QED
  BY <1>1, <1>2, <1>3

\* Every step keeps the Musics' part of the invariant.
LEMMA StreamSteps == TypeOK /\ StreamInv /\ [Next]_vars => StreamInv'
<1> SUFFICES ASSUME TypeOK, StreamInv, [Next]_vars
             PROVE  StreamInv'
  OBVIOUS
<1> USE DEF playableVars, streamVars
<1>1. CASE MainThreadRuns /\ CoreStep
  <2> USE DEF StreamInv, FadingPlays, WaitingLoaded, StreamOwned, QueueValid,
              Exists, MainThreadRuns, musicVars, mixerVars, StopAll,
              SilenceStream
  <2> QED
    BY <1>1 DEF CoreStep, Open, Close, Restart, CloseDevice, CoreStopAll
<1>2. CASE AllSounds
  BY <1>2, StreamFrame DEF AllSounds
<1>3. CASE MainThreadRuns /\ MusicCall
  BY <1>3, MusicCallInv
<1>4. ASSUME NEW s \in Sounds, SoundStarts(s) \/ SoundControls(s)
      PROVE  StreamInv'
  BY <1>4, StreamFrame DEF SoundStarts, SoundControls
<1>5. ASSUME NEW s \in Sounds, SoundLives(s)
      PROVE  StreamInv'
  <2>1. s \notin Musics /\ \A m \in Musics : m \in created => m \in created'
    BY <1>5, DistinctAssumption
    DEF SoundLives, SoundConstruct, SoundDestroy, Construct, Destruct, Create,
        Unload
  <2> QED
    BY <1>5, <2>1 DEF SoundLives, StreamInv, FadingPlays, WaitingLoaded,
        StreamOwned, QueueValid, Exists, MainThreadRuns, musicVars, TypeOK,
        MixerTypeOK, MusicTypeOK
<1>6. ASSUME NEW m \in Musics, MainThreadRuns, MusicLives(m)
      PROVE  StreamInv'
  BY <1>6, MusicLivesInv
<1>7. CASE UpdateAll
  <2> USE DEF UpdateAll, UpdateMusic, StreamInv, FadingPlays, WaitingLoaded,
              StreamOwned, QueueValid, Exists, MainThreadRuns
  <2>1. CASE nowPlaying # None
    BY <1>7, <2>1
  <2>2. CASE nowPlaying = None /\ queued \in created
    BY <1>7, <2>2 DEF PlayOnStream, SilenceStream
  <2>3. CASE nowPlaying = None /\ queued \notin created
    BY <1>7, <2>3
  <2> QED
    BY <2>1, <2>2, <2>3
<1>8. CASE MixerStep
  <2>1. CASE MusicEnds
    BY <1>8, <2>1 DEF MixerStep, MusicEnds, SilenceStream, StreamInv,
        FadingPlays, WaitingLoaded, StreamOwned, QueueValid, Exists, musicVars
  <2>2. ASSUME NEW c \in Channels, ChannelEnds(c)
        PROVE  StreamInv'
    BY <1>8, <2>2, StreamFrame DEF MixerStep, ChannelEnds
  <2> QED
    BY <1>8, <2>1, <2>2 DEF MixerStep
<1>9. CASE BlockedCallReturns
  BY <1>9 DEF BlockedCallReturns, PlayMusicReturns, PlayOnStream,
      SilenceStream, StreamInv, FadingPlays, WaitingLoaded, StreamOwned,
      QueueValid, Exists, MainThreadRuns, musicVars
<1>10. CASE UNCHANGED vars
  BY <1>10, StreamFrame DEF vars, mixerVars
<1> QED
  BY <1>1, <1>2, <1>3, <1>4, <1>5, <1>6, <1>7, <1>8, <1>9, <1>10
  DEF Next, MainStep

\* The inductive invariant holds in every reachable state.
THEOREM Invariance == Spec => []IInv
<1>1. Init => IInv
  BY DEF Init, MixerInit, PlayableInit, SoundInit, MusicInit, IInv,
         ClosedSilent, FadingPlays, WaitingLoaded, ChannelOwned, StreamOwned,
         QueueValid, OwedCovered
<1>2. TypeOK /\ IInv /\ [Next]_vars => IInv'
  <2> SUFFICES ASSUME TypeOK, IInv, [Next]_vars
               PROVE  IInv'
    OBVIOUS
  <2>1. SoundInv' /\ StreamInv'
    BY InvParts, SoundSteps, StreamSteps
  <2> QED
    BY <2>1 DEF IInv, SoundInv, StreamInv, ClosedSilent
<1> QED
  BY <1>1, <1>2, TypeCorrect, PTL DEF Spec

-----------------------------------------------------------------------------
(* What the invariant gives *)

\* No channel plays a chunk its Sound has lost track of, or one that was
\* freed (sound.cpp).
THEOREM ChannelsOwned == Spec => []ChannelOwned
BY Invariance, PTL DEF IInv

\* The stream plays a loaded Music, the one current names (music.cpp).
THEOREM StreamsOwned == Spec => []StreamOwned
BY Invariance, PTL DEF IInv

\* The queued callback belongs to a loaded Music, or to one destroyed while
\* the device was closed (music.cpp, onDestroy).
THEOREM QueuesValid == Spec => []QueueValid
BY Invariance, PTL DEF IInv

\* No play method starts a Sound before the wait it was asked for is over.
THEOREM WaitsRespected == Spec => WaitRespected
<1>1. TypeOK /\ IInv /\ [Next]_vars
        => [\A s \in started' : owed[s] = 0]_vars
  <2> SUFFICES ASSUME TypeOK, IInv, Next, NEW s \in started'
               PROVE  owed[s] = 0
    OBVIOUS
  <2>1. PICK t \in Sounds : SoundStarts(t)
    BY DEF Next, MainStep, CoreStep, Open, Close, Restart, CloseDevice,
        CoreStopAll, AllSounds, StopAllSounds, PauseAllSounds,
        ResumeAllSounds, MusicCall, SoundControls, Stop, Pause, Resume,
        SoundLives, SoundConstruct, SoundDestroy, MusicLives, UpdateAll,
        UpdateSounds, MixerStep, BlockedCallReturns, KeepSounds
  <2>2. StartOnChannel(t) /\ delay[t] = 0
    BY <2>1 DEF SoundStarts, Play, PlayOnceThisFrame, PlayOnceAndWait, MayStart
  <2>3. s = t
    BY <2>2 DEF StartOnChannel
  <2> QED
    BY <2>2, <2>3 DEF IInv, OwedCovered, TypeOK, SoundTypeOK
<1> QED
  BY <1>1, TypeCorrect, Invariance, PTL DEF Spec, WaitRespected

\* A method called on one Sound leaves the channels of every other one alone,
\* though the channel it remembers may be the other's by now (sound.cpp,
\* active).
THEOREM NoSoundCrossesAnother == Spec => NoCrossTalk
<1>1. TypeOK =>
        [\A s, t \in Sounds, c \in Channels :
           s # t /\ CallOn(s) /\ channels[c] = t =>
             /\ channels'[c] = t
             /\ (c \in pausedChannels') <=> (c \in pausedChannels)]_vars
  <2> SUFFICES ASSUME TypeOK, NEW s \in Sounds, NEW t \in Sounds,
                      NEW c \in Channels, s # t, CallOn(s), channels[c] = t
               PROVE  /\ channels'[c] = t
                      /\ (c \in pausedChannels') <=> (c \in pausedChannels)
    OBVIOUS
  <2> USE DEF TypeOK, MixerTypeOK, SoundTypeOK, channelVars
  <2>1. t # None
    BY NoneAssumption
  <2>2. CASE StartOnChannel(s)
    <3>1. GetChannel(s) # c
      BY ChannelsAssumption DEF GetChannel, Active, NoChannel
    <3>2. PICK got \in Channels \cup {NoChannel} : PlayChannel(GetChannel(s), s, got)
      BY <2>2 DEF StartOnChannel
    <3>3. CASE UNCHANGED channelVars
      BY <3>3
    <3>4. CASE /\ got # c
               /\ channels' = [channels EXCEPT ![got] = s]
               /\ pausedChannels' = pausedChannels \ {got}
      BY <3>4
    <3> QED
      BY <2>1, <3>1, <3>2, <3>3, <3>4 DEF PlayChannel, FreeChannels
  <2>3. CASE Stop(s) \/ Pause(s) \/ Resume(s)
    BY <2>3 DEF Stop, Pause, Resume, Active, HaltChannels
  <2>4. CASE SoundDestroy(s)
    BY <2>4 DEF SoundDestroy, Active, HaltChannels
  <2> QED
    BY <2>2, <2>3, <2>4 DEF CallOn, Play, PlayOnceThisFrame, PlayOnceAndWait
<1> QED
  BY <1>1, TypeCorrect, PTL DEF NoCrossTalk

\* Destroying one Music never stops the music of another (music.cpp,
\* onDestroy).
THEOREM DestroyingKeepsOthers == Spec => DestroyKeepsOthers
<1>1. TypeOK /\ IInv /\ [Next]_vars =>
        [\A m \in Musics :
           MusicDestroy(m) /\ nowPlaying # m => UNCHANGED streamVars]_vars
  <2> SUFFICES ASSUME TypeOK, IInv, Next, NEW m \in Musics, MusicDestroy(m),
                      nowPlaying # m
               PROVE  UNCHANGED streamVars
    OBVIOUS
  <2>1. m \in created /\ m \notin created'
    BY DEF MusicDestroy, Unload, Exists
  <2>2. MainThreadRuns
    BY <2>1 DEF Next, MainStep, UpdateAll, MixerStep, BlockedCallReturns,
        playableVars
  <2>3. ~HaltsOnDestroy(m)
    BY <2>2 DEF HaltsOnDestroy, IInv, StreamOwned
  <2> QED
    BY <2>3 DEF MusicDestroy, streamVars
<1> QED
  BY <1>1, TypeCorrect, Invariance, PTL DEF Spec, DestroyKeepsOthers
=============================================================================
