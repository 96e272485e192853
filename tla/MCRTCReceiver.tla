--------------------------- MODULE MCRTCReceiver ---------------------------
(* RTCReceiver for TLC: connections and files are interchangeable.         *)
EXTENDS RTCReceiver, TLC

Symmetry == Permutations(Conn) \cup Permutations(File)
=============================================================================
