------------------------------ MODULE MCScan ------------------------------
(* Names of usual length, of 128 characters (32 bytes that iw escapes), and *)
(* none.  A network with RSN or WPA has privacy.                            *)
EXTENDS Scan

MCLength == [home |-> 8, odd |-> 128, weak |-> 10, long |-> 15]

MCElements ==
  {<<>>, <<"RSN">>, <<"WPA">>, <<"RSN", "WPA">>, <<"WPA", "RSN">>,
   <<"BSS Load">>, <<"BSS Load", "RSN">>, <<"RSN", "BSS Load">>,
   <<"RSN", "BSS Load", "WPA">>, <<"BSS Load", "RSN", "WPA">>}
MCBsses ==
  {b \in [ssid : {"home", "odd", Hidden}, signal : {"weak", "long"}, privacy : BOOLEAN,
          elements : MCElements] :
     SelectSeq(b.elements, LAMBDA e : e # "BSS Load") # <<>> => b.privacy}
=============================================================================
