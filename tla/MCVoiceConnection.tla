------------------------- MODULE MCVoiceConnection -------------------------
(* Listeners call back once the connection has settled: at ready and at      *)
(* disconnected, the last thing that the code does there.                    *)
EXTENDS VoiceConnection

SafeListeners == {"ready", "disconnected"} \X {"rejoin", "disconnect", "destroy"}
=============================================================================
