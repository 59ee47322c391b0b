----------------------------- MODULE MCStreamId -----------------------------
(* Instances of StreamId for TLC: three words and the low 16 bits of their *)
(* hashes, which are also the low bits of the 32-bit values.               *)
EXTENDS StreamId

(* "io", "rpc" and a word with a byte above 127.                           *)
Bytes(w) == CASE w = "io"   -> <<105, 111>>
              [] w = "rpc"  -> <<114, 112, 99>>
              [] w = "ms-1" -> <<194, 181, 115>>

Low16 == 0..15
Hash16 == [w \in Word |-> BitsOf(Djb2(Bytes(w), 16), 16)]
=============================================================================
