-------------------------- MODULE MCStreamingWorker --------------------------
(* Small instances of the playback stream for TLC.                            *)
EXTENDS StreamingWorkerProps

SeekOf(w, o) == [whence |-> w, offset |-> o]

\* Forward, backward, to the end, past the end, out of range at both ends.
MCSeeks == {SeekOf("Start", 2), SeekOf("End", 0), SeekOf("End", -4),
            SeekOf("Current", -2), SeekOf("Current", 3)}
NoSeeks == {}
=============================================================================
