----------------------------- MODULE SdlMixer -----------------------------
(***************************************************************************)
(* The part of SDL_mixer that Makai::Audio talks to: a fixed set of mixing *)
(* channels for sound chunks and the one music stream.  SDL_mixer is not   *)
(* Makai's own code; it is modelled from the calls in src/src/new/audio    *)
(* and the contract of each call in the vendored SDL_mixer.h.              *)
(*                                                                         *)
(* A chunk is identified by the Sound that loaded it and a Mix_Music by    *)
(* the Music that loaded it.  Every operator below is what one Mix_ call   *)
(* does to the channels or to the music stream; the steps the mixer thread *)
(* takes by itself are ChannelEnds and MusicEnds.                          *)
(***************************************************************************)
EXTENDS Integers

CONSTANTS
  Sounds,     \* Makai::Audio::Sound objects
  Musics,     \* Makai::Audio::Music objects
  Channels,   \* mixer channels, numbered from 0
  None        \* the null pointer

ASSUME ChannelsAssumption == Channels \subseteq Nat
ASSUME NoneAssumption == None \notin Sounds \cup Musics
ASSUME DistinctAssumption == Sounds \cap Musics = {}

NoChannel == -1

VARIABLES
  audioOpen,       \* audioOpen of core.cpp: the device is open
  channels,        \* chunk each channel plays, None when it is free
  pausedChannels,  \* channels that hold their position
  nowPlaying,      \* the music of the stream, None when it is silent
  fading,          \* the music of the stream is fading out
  musicPaused      \* the music of the stream holds its position

channelVars == <<channels, pausedChannels>>
streamVars  == <<nowPlaying, fading, musicPaused>>
mixerVars   == <<channels, pausedChannels, nowPlaying, fading, musicPaused>>

MixerTypeOK ==
  /\ audioOpen \in BOOLEAN
  /\ channels \in [Channels -> Sounds \cup {None}]
  /\ pausedChannels \subseteq Channels
  /\ nowPlaying \in Musics \cup {None}
  /\ fading \in BOOLEAN
  /\ musicPaused \in BOOLEAN

MixerInit ==
  /\ audioOpen = FALSE
  /\ channels = [c \in Channels |-> None]
  /\ pausedChannels = {}
  /\ nowPlaying = None
  /\ fading = FALSE
  /\ musicPaused = FALSE

FreeChannels == {c \in Channels : channels[c] = None}

PlayingChannels == {c \in Channels : channels[c] # None}

\* The channels left after every channel of the set cs was halted.
HaltChannels(cs) ==
  /\ channels' = [c \in Channels |-> IF c \in cs THEN None ELSE channels[c]]
  /\ pausedChannels' = pausedChannels \ cs

\* Mix_PlayChannel(requested, chunk of s) answers got: the requested channel,
\* else the first free one, else NoChannel when there is none or no device.
PlayChannel(requested, s, got) ==
  \/ /\ got = NoChannel
     /\ ~audioOpen \/ (requested = NoChannel /\ FreeChannels = {})
     /\ UNCHANGED channelVars
  \/ /\ audioOpen
     /\ got \in Channels
     /\ \/ requested = got
        \/ /\ requested = NoChannel
           /\ got \in FreeChannels
           /\ \A c \in FreeChannels : got <= c
     /\ channels' = [channels EXCEPT ![got] = s]
     /\ pausedChannels' = pausedChannels \ {got}

\* Mix_HaltMusic, and what is left of the stream when its music is over.
SilenceStream ==
  /\ nowPlaying' = None
  /\ fading' = FALSE
  /\ musicPaused' = FALSE

\* Mix_PlayMusic(m) on a stream that is not fading out: the music that was
\* playing is halted and m replaces it, or the call fails and nothing plays.
PlayOnStream(m) ==
  \/ /\ audioOpen
     /\ nowPlaying' = m
     /\ fading' = FALSE
     /\ musicPaused' = FALSE
  \/ SilenceStream

\* Mix_FadeOutMusic when fade is TRUE, Mix_HaltMusic when it is FALSE.
StopStream(fade) ==
  IF fade
    THEN /\ fading' = (fading \/ nowPlaying # None)
         /\ UNCHANGED <<nowPlaying, musicPaused>>
    ELSE SilenceStream

\* The mixer thread reaches the end of a chunk (it was played often enough,
\* or its fade-out is complete) on a channel that is not paused.
ChannelEnds(c) ==
  /\ channels[c] # None
  /\ c \notin pausedChannels
  /\ HaltChannels({c})
  /\ UNCHANGED <<audioOpen, streamVars>>

\* The mixer thread reaches the end of the music or of its fade-out.
MusicEnds ==
  /\ nowPlaying # None
  /\ ~musicPaused
  /\ SilenceStream
  /\ UNCHANGED <<audioOpen, channelVars>>
=============================================================================
