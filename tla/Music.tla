------------------------------- MODULE Music -------------------------------
(***************************************************************************)
(* Makai::Audio::Music: the objects that share the one music stream, and   *)
(* the two static pointers of music.cpp, current (the source play() was    *)
(* last called for) and queued (the callback of the Music to start as soon *)
(* as the stream falls silent).                                            *)
(*                                                                         *)
(* Mix_PlayMusic blocks its caller while the stream fades out, so play()   *)
(* may leave the main thread waiting until the mixer thread is done:       *)
(* waiting is the Music whose play() has not returned yet.                 *)
(***************************************************************************)
EXTENDS Playable

VARIABLES
  current,       \* static current: the source of a Music, None for nullptr
  queued,        \* static queued: the Music of the callback, None for nullptr
  waiting,       \* Music the main thread is blocked for in Mix_PlayMusic
  closedUnload   \* history: Musics whose last destroy() ran on a closed device

musicVars == <<current, queued, waiting, closedUnload>>

MusicTypeOK ==
  /\ current \in Musics \cup {None}
  /\ queued \in Musics \cup {None}
  /\ waiting \in Musics \cup {None}
  /\ closedUnload \subseteq Musics

MusicInit ==
  /\ current = None
  /\ queued = None
  /\ waiting = None
  /\ closedUnload = {}

\* Mutant of play(): current is not assigned.
MutPlayMusic(m) ==
  /\ Exists(m)
  /\ IF audioOpen /\ fading
       THEN waiting' = m /\ UNCHANGED streamVars
       ELSE PlayOnStream(m) /\ UNCHANGED waiting
  /\ UNCHANGED <<current, queued, closedUnload>>

\* Music::play() up to Mix_PlayMusic, which returns at once when the stream
\* is not fading out and else leaves the caller waiting.
PlayMusic(m) ==
  /\ Exists(m)
  /\ current' = m
  /\ IF audioOpen /\ fading
       THEN waiting' = m /\ UNCHANGED streamVars
       ELSE PlayOnStream(m) /\ UNCHANGED waiting
  /\ UNCHANGED <<queued, closedUnload>>

\* Mix_PlayMusic returns to the waiting caller once the fade is complete.
PlayMusicReturns ==
  /\ waiting # None
  /\ nowPlaying = None
  /\ PlayOnStream(waiting)
  /\ waiting' = None
  /\ UNCHANGED <<current, queued, closedUnload>>

\* Music::stop().
StopMusic(fade) ==
  /\ StopStream(fade)
  /\ UNCHANGED musicVars

PauseMusic ==
  /\ musicPaused' = (nowPlaying # None)
  /\ UNCHANGED <<nowPlaying, fading, musicVars>>

ResumeMusic ==
  /\ musicPaused' = FALSE
  /\ UNCHANGED <<nowPlaying, fading, musicVars>>

\* Music::queueMusic().
QueueMusic(m) ==
  /\ Exists(m)
  /\ queued' = m
  /\ UNCHANGED <<current, waiting, closedUnload, streamVars>>

\* Music::switchInto(): queue this music, then stop the stream.
SwitchInto(m, fade) ==
  /\ Exists(m)
  /\ queued' = m
  /\ StopStream(fade)
  /\ UNCHANGED <<current, waiting, closedUnload>>

\* Playable::create() of a Music.
MusicCreate(m) ==
  /\ Create(m)
  /\ closedUnload' = closedUnload \ {m}
  /\ UNCHANGED <<current, queued, waiting, streamVars>>

\* Mutant of onDestroy(): current is not compared.
MutHaltsOnDestroy(m) == nowPlaying # None

\* Music::onDestroy() halts the stream when it is this music's, and then
\* Mix_FreeMusic stops the stream if it still plays the freed source.
HaltsOnDestroy(m) == nowPlaying # None /\ current = m

\* Mutant of onDestroy(): the queue entry is never cleared.
MutMusicDestroy(m) ==
  /\ Unload(m)
  /\ IF audioOpen /\ (HaltsOnDestroy(m) \/ nowPlaying = m)
       THEN SilenceStream
       ELSE UNCHANGED streamVars
  /\ closedUnload' = IF audioOpen THEN closedUnload ELSE closedUnload \cup {m}
  /\ UNCHANGED <<current, queued, waiting>>

\* Music::onDestroy().  On a closed device it does nothing at all: the queue
\* entry stays.
MusicDestroy(m) ==
  /\ Unload(m)
  /\ IF audioOpen
       THEN /\ queued' = IF queued = m THEN None ELSE queued
            /\ IF HaltsOnDestroy(m) \/ nowPlaying = m
                 THEN SilenceStream
                 ELSE UNCHANGED streamVars
            /\ UNCHANGED closedUnload
       ELSE /\ closedUnload' = closedUnload \cup {m}
            /\ UNCHANGED <<queued, streamVars>>
  /\ UNCHANGED <<current, waiting>>

\* Mutant of update(): the queued callback waits for current to be cleared by
\* a cycle of its own, and that cycle never runs it.
MutUpdateMusic ==
  /\ IF nowPlaying # None \/ current = None
       THEN UNCHANGED <<current, queued, streamVars>>
       ELSE /\ current' = None
            /\ UNCHANGED <<queued, streamVars>>
  /\ UNCHANGED <<waiting, closedUnload>>

\* Music::update(): on a silent stream, forget current and run the queued
\* callback, play(), which does nothing for an object that is not loaded.
\* The callback of an object that is gone altogether (the exception in
\* QueueValid) reads freed memory: either it finds nothing loaded there, or
\* the process dies and takes no further step.
UpdateMusic ==
  /\ IF nowPlaying # None
       THEN UNCHANGED <<current, queued, streamVars>>
       ELSE /\ queued' = None
            /\ IF queued \in created
                 THEN current' = queued /\ PlayOnStream(queued)
                 ELSE current' = None /\ UNCHANGED streamVars
  /\ UNCHANGED <<waiting, closedUnload>>
=============================================================================
