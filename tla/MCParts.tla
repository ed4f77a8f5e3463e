------------------------------ MODULE MCParts ------------------------------
(***************************************************************************)
(* The components that share no state with one another, checked in one     *)
(* run: "part" says which of them runs in a behaviour, and the others stay *)
(* where they begin.                                                       *)
(***************************************************************************)
EXTENDS Settings, NetSink, TcpClients, MediaFileList, AviReader, CycFiles,
        Talk, UserRecs, SpiCam, PlayOut, Screen

\* When the files of PlayOut were made, one after the other.
PlayTimes == [f \in PlayFiles |-> f]

\* The clock near the end of its fields, where stepping them turns round.
ScreenClock == [year |-> 2021, month |-> 12, day |-> 30, hour |-> 0, min |-> 59]

VARIABLE part

Parts == {"settings", "sink", "tcp", "media", "avi", "cyc", "talk", "recs", "spi", "play", "screen"}

mcVars == <<part, vars, sinkVars, tcpVars, mediaVars, aviVars, cycVars, talkVars,
            recsVars, spiVars, playVars, screenVars>>

\* The part that runs starts in one of its initial states, any other in a chosen
\* one where it has several.
MCInit ==
    /\ part \in Parts
    /\ Init /\ TcpInit /\ MediaInit /\ CycInit /\ TalkInit /\ RecsInit /\ SpiInit /\ ScreenInit
    /\ SinkInit /\ (part # "sink" => kind = "usr")
    /\ AviInit /\ (part # "avi" => index = <<>>)
    /\ PlayInit /\ (part # "play" => \A k \in 2..Len(vf_list) : vf_list[k - 1] < vf_list[k])

Others(p) ==
    /\ UNCHANGED part
    /\ p # "settings" => UNCHANGED vars
    /\ p # "sink" => UNCHANGED sinkVars
    /\ p # "tcp" => UNCHANGED tcpVars
    /\ p # "media" => UNCHANGED mediaVars
    /\ p # "avi" => UNCHANGED aviVars
    /\ p # "cyc" => UNCHANGED cycVars
    /\ p # "talk" => UNCHANGED talkVars
    /\ p # "recs" => UNCHANGED recsVars
    /\ p # "spi" => UNCHANGED spiVars
    /\ p # "play" => UNCHANGED playVars
    /\ p # "screen" => UNCHANGED screenVars

MCNext ==
    \/ part = "settings" /\ Next /\ Others(part)
    \/ part = "sink" /\ SinkNext /\ Others(part)
    \/ part = "tcp" /\ TcpNext /\ Others(part)
    \/ part = "media" /\ MediaNext /\ Others(part)
    \/ part = "avi" /\ AviNext /\ Others(part)
    \/ part = "cyc" /\ CycNext /\ Others(part)
    \/ part = "talk" /\ TalkNext /\ Others(part)
    \/ part = "recs" /\ RecsNext /\ Others(part)
    \/ part = "spi" /\ SpiNext /\ Others(part)
    \/ part = "play" /\ PlayNext /\ Others(part)
    \/ part = "screen" /\ ScreenNext /\ Others(part)

MCSpec == MCInit /\ [][MCNext]_mcVars

=============================================================================
