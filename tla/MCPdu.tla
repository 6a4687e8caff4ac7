--------------------------------- MODULE MCPdu ---------------------------------
(***************************************************************************)
(* Values of CoapPdu's constants for TLC.                                  *)
(***************************************************************************)
EXTENDS CoapPdu

(* Bytes that look like the payload marker.                                *)
Bytes(n) == [i \in 1..n |-> Marker]

ShortValues == {<<>>, Bytes(1)}

SomePayload == {<<7>>}

ShortTokens == {<<>>, Bytes(2)}

(* A token of the greatest length that needs one byte more.                *)
LongTokens == {<<>>, Bytes(255)}

(* A path of two segments and a query, in the wrong order.                 *)
QueryFirst == {<<[number |-> 15, value |-> <<1>>], [number |-> 11, value |-> <<2>>],
                 [number |-> 11, value |-> <<3>>]>>}

NoLists == {}

(* No action reads which call was the last: states that differ in it alone
   need not be told apart.                                                 *)
WithoutCall == <<pdu, said, tokenRefused>>

=============================================================================
