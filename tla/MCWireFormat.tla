---------------------------- MODULE MCWireFormat ----------------------------
(***************************************************************************)
(* Parts for the model checking of WireFormat.                             *)
(***************************************************************************)
EXTENDS WireFormat

\* "{}" and "{ }".
MCObjects == {<<123, 125>>, <<123, 32, 125>>}

\* An empty buffer, and one that takes the offset behind it past one byte.
MCBuffers == {<<>>, [i \in 1..200 |-> 1]}
==============================================================================
