----------------------------- MODULE MCDecSync ------------------------------
(* Instances of MppDecSync for TLC, with what each application thread does.  *)
EXTENDS MppDecSync, TLC

CONSTANTS feeder, getter

\* One thread feeds, resets and stops the decoder, the other serves frames.
Serving == {"get", "release"}
OneFeeder ==
    feeder :> {"put", "command", "reset", "stop"} @@ getter :> Serving
=============================================================================
