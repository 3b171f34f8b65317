------------------------------- MODULE Sound -------------------------------
(***************************************************************************)
(* Makai::Audio::Sound: a loaded chunk that remembers the mixer channel it *)
(* was last started on, may be started by three play methods, and can ask  *)
(* to be left alone for a number of main-loop cycles (delay).              *)
(*                                                                         *)
(* The channel a Sound remembers goes stale as soon as the mixer ends the  *)
(* chunk: another Sound may be given the same channel before this one is   *)
(* updated.  Everything a Sound does to a channel is therefore behind      *)
(* active(), which asks the mixer whether the channel still plays this     *)
(* Sound's own chunk.                                                      *)
(***************************************************************************)
EXTENDS Playable

CONSTANT MaxCycles   \* bound on the cycles a caller asks playOnceAndWait for

ASSUME MaxCyclesAssumption == MaxCycles \in Nat

VARIABLES
  channel,            \* Sound::channel, NoChannel when it has none
  delay,              \* Sound::delay, cycles still to wait
  canPlayThisFrame,   \* Sounds whose once-per-cycle right is unspent
  owed,               \* history: cycles still owed to the last playOnceAndWait
  started             \* history: Sounds the last step started on a channel

soundVars == <<channel, delay, canPlayThisFrame, owed, started>>

SoundTypeOK ==
  /\ channel \in [Sounds -> Channels \cup {NoChannel}]
  /\ delay \in [Sounds -> Nat]
  /\ canPlayThisFrame \subseteq Sounds
  /\ owed \in [Sounds -> Nat]
  /\ started \subseteq Sounds

SoundInit ==
  /\ channel = [s \in Sounds |-> NoChannel]
  /\ delay = [s \in Sounds |-> 0]
  /\ canPlayThisFrame = Sounds
  /\ owed = [s \in Sounds |-> 0]
  /\ started = {}

\* Mutant of active(): the chunk on the channel is not compared.
MutActive(s) ==
  /\ Exists(s)
  /\ channel[s] # NoChannel
  /\ channels[channel[s]] # None

\* Sound::active().
Active(s) ==
  /\ Exists(s)
  /\ channel[s] # NoChannel
  /\ channels[channel[s]] = s

\* Mutant of getChannel(): every start asks for the first free channel.
MutGetChannel(s) == NoChannel

\* Sound::getChannel().
GetChannel(s) == IF Active(s) THEN channel[s] ELSE NoChannel

\* Mutant of the early returns: the delay is not looked at.
MutMayStart(s, force) ==
  /\ Exists(s)
  /\ Active(s) => force

\* The early returns the three play methods share.
MayStart(s, force) ==
  /\ Exists(s)
  /\ delay[s] = 0
  /\ Active(s) => force

\* The Mix_PlayChannel (or Mix_FadeInChannel) call the play methods end with.
StartOnChannel(s) ==
  \E got \in Channels \cup {NoChannel} :
    /\ PlayChannel(GetChannel(s), s, got)
    /\ channel' = [channel EXCEPT ![s] = got]
    /\ started' = IF got = NoChannel THEN {} ELSE {s}

SpendFrame(s) ==
  /\ s \in canPlayThisFrame
  /\ canPlayThisFrame' = canPlayThisFrame \ {s}

Play(s, force) ==
  /\ MayStart(s, force)
  /\ StartOnChannel(s)
  /\ UNCHANGED <<delay, canPlayThisFrame, owed>>

PlayOnceThisFrame(s, force) ==
  /\ MayStart(s, force)
  /\ SpendFrame(s)
  /\ StartOnChannel(s)
  /\ UNCHANGED <<delay, owed>>

PlayOnceAndWait(s, force, cycles) ==
  /\ MayStart(s, force)
  /\ SpendFrame(s)
  /\ delay' = [delay EXCEPT ![s] = cycles]
  /\ owed' = [owed EXCEPT ![s] = cycles]
  /\ StartOnChannel(s)

\* What a Sound method that starts nothing leaves as it is.
KeepSounds ==
  /\ started' = {}
  /\ UNCHANGED <<channel, delay, canPlayThisFrame, owed>>

\* Sound::stop(0).  With a fade-out the channel plays on until ChannelEnds.
Stop(s) ==
  /\ Active(s)
  /\ HaltChannels({channel[s]})
  /\ KeepSounds

Pause(s) ==
  /\ Active(s)
  /\ pausedChannels' = pausedChannels \cup {channel[s]}
  /\ UNCHANGED channels
  /\ KeepSounds

Resume(s) ==
  /\ Active(s)
  /\ pausedChannels' = pausedChannels \ {channel[s]}
  /\ UNCHANGED channels
  /\ KeepSounds

\* Sound::stopAll(0), Sound::pauseAll() and Sound::resumeAll().
StopAllSounds == HaltChannels(Channels) /\ KeepSounds

PauseAllSounds ==
  /\ pausedChannels' = pausedChannels \cup PlayingChannels
  /\ UNCHANGED channels
  /\ KeepSounds

ResumeAllSounds ==
  /\ pausedChannels' = {}
  /\ UNCHANGED channels
  /\ KeepSounds

\* Sound::onDestroy(): the chunk is freed, which stops the channels that play
\* it, but only while the device is open.  channel and delay keep their values.
SoundDestroy(s) ==
  /\ Unload(s)
  /\ IF audioOpen
       THEN HaltChannels({c \in Channels : \/ channels[c] = s
                                           \/ Active(s) /\ c = channel[s]})
       ELSE UNCHANGED channelVars
  /\ KeepSounds

\* A new Sound object: the member initialisers of sound.hpp.
SoundConstruct(s) ==
  /\ Construct(s)
  /\ channel' = [channel EXCEPT ![s] = NoChannel]
  /\ delay' = [delay EXCEPT ![s] = 0]
  /\ canPlayThisFrame' = canPlayThisFrame \cup {s}
  /\ owed' = [owed EXCEPT ![s] = 0]
  /\ started' = {}

\* Mutant of onUpdate(): the delay of an active Sound is left alone.
MutDelayAfterUpdate(s) ==
  IF ~Active(s) /\ delay[s] > 0 THEN delay[s] - 1 ELSE delay[s]

\* The delay onUpdate() leaves: it runs down only while the Sound is active.
DelayAfterUpdate(s) ==
  IF Active(s) /\ delay[s] > 0 THEN delay[s] - 1 ELSE delay[s]

\* Sound::onUpdate() of every live Sound.
UpdateSounds ==
  LET live == Sounds \cap updateQueue
  IN  /\ canPlayThisFrame' = canPlayThisFrame \cup live
      /\ channel' = [s \in Sounds |->
                       IF s \in live THEN GetChannel(s) ELSE channel[s]]
      /\ delay' = [s \in Sounds |->
                     IF s \in live THEN DelayAfterUpdate(s) ELSE delay[s]]
      /\ owed' = [s \in Sounds |-> IF owed[s] > 0 THEN owed[s] - 1 ELSE 0]
      /\ started' = {}

\* Any call of a method of the object s that may reach the mixer.
CallOn(s) ==
  \/ \E force \in BOOLEAN :
       \/ Play(s, force)
       \/ PlayOnceThisFrame(s, force)
       \/ \E n \in 0 .. MaxCycles : PlayOnceAndWait(s, force, n)
  \/ Stop(s)
  \/ Pause(s)
  \/ Resume(s)
  \/ SoundDestroy(s)
=============================================================================
