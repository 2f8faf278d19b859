------------------------------ MODULE Platform ------------------------------
(***************************************************************************)
(* Parts of the platform that share no state here, side by side: a queue   *)
(* of the kernel, a stream of the sound core, and transfers of the SPI     *)
(* driver by DMA.  A behaviour exercises one of them; the others stay in   *)
(* their initial states.                                                   *)
(***************************************************************************)
EXTENDS KernelQueue

CONSTANTS
    (* of the stream *)
    PcmStreams, PcmBuffer, PcmPeriod, PcmBoundary, PcmSizes, PcmMaxTokens,
    PcmMaxControl, PcmSilence,
    (* of the transfers *)
    SpiNrMaxChan, SpiPort, SpiSound, SpiKinds, SpiMaxFailures

VARIABLES
    exercised,     \* which part this behaviour is one of
    pRt, pRing, pApp, pControl,
    tChan, tDmac, tSpi, tBus, tStream

Pcm == INSTANCE SndPcm WITH
    Streams <- PcmStreams, Buffer <- PcmBuffer, Period <- PcmPeriod,
    Boundary <- PcmBoundary, Sizes <- PcmSizes, MaxTokens <- PcmMaxTokens,
    MaxControl <- PcmMaxControl, Silence <- PcmSilence,
    rt <- pRt, ring <- pRing, app <- pApp, control <- pControl

Spi == INSTANCE HalSpi WITH
    NrMaxChan <- SpiNrMaxChan, Port <- SpiPort, Sound <- SpiSound,
    Kinds <- SpiKinds, MaxFailures <- SpiMaxFailures,
    chan <- tChan, dmac <- tDmac, spi <- tSpi, bus <- tBus, stream <- tStream

pvars == <<pRt, pRing, pApp, pControl>>
tvars == <<tChan, tDmac, tSpi, tBus, tStream>>
allVars == <<exercised, vars, pvars, tvars>>

PlatformInit ==
    /\ exercised \in {"queue", "stream", "transfers"}
    /\ Init
    /\ Pcm!Init
    /\ Spi!Init
    (* choices that do not matter where they are not exercised *)
    /\ exercised # "stream" => pRt.stream = "playback"
    /\ exercised # "queue" => sched.current = "a" /\ taken = 1

Exercise(name) == exercised = name /\ UNCHANGED exercised

PlatformNext ==
    \/ Exercise("queue") /\ Next /\ UNCHANGED <<pvars, tvars>>
    \/ Exercise("stream") /\ Pcm!Next /\ UNCHANGED <<vars, tvars>>
    \/ /\ Exercise("transfers") /\ Spi!Next
       /\ UNCHANGED <<vars, pvars>>

(* The fairness of the stream, when it is exercised. *)
PlatformFairness ==
    /\ WF_pvars(exercised = "stream" /\ Pcm!SystemStep)
    /\ WF_pvars(exercised = "stream" /\ Pcm!Release)

PlatformSpec == PlatformInit /\ [][PlatformNext]_allVars /\ PlatformFairness

-----------------------------------------------------------------------------
(* The properties of the instances: see their modules.  The variables of a *)
(* part that is not exercised keep their initial values, and are looked at *)
(* where it is.                                                            *)
InPart(name, property) == exercised = name => property

(* The variables of the three parts keep their types. *)
PlatformTypeOK ==
    /\ InPart("queue", KqTypeOK)
    /\ InPart("stream", Pcm!PcmTypeOK)
    /\ InPart("transfers", Spi!SpiTypeOK)
(* No frame is overwritten before it has been played or read. *)
NothingOverwritten == InPart("stream", Pcm!NothingOverwritten)
(* hw_ptr is where the DMA is. *)
HwPtrTracks == InPart("stream", Pcm!HwPtrTracks)
(* A stream that has run dry is stopped. *)
UnderrunStops == InPart("stream", Pcm!UnderrunStops)
(* The DMA runs in the states in which the core thinks it does. *)
DmaFollowsState == InPart("stream", Pcm!DmaFollowsState)
(* A drain returns only when everything has been played. *)
DrainPlaysAll == Pcm!DrainPlaysAll
(* A call of the task returns. *)
CallsReturn == Pcm!CallsReturn
(* A channel of the DMA calls back who has it, and rests when it is free. *)
ChannelsOwned == InPart("transfers", Spi!ChannelsOwned)
(* A transfer that succeeds is over when its call returns. *)
DoneWhenReturned == Spi!DoneWhenReturned
(* hal_spi_xfer waits "for done completion" (hal_spi.c:1502).  *)
WaitsForDone == Spi!WaitsForDone
=============================================================================
