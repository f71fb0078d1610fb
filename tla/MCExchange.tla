------------------------------ MODULE MCExchange ------------------------------
(* Instances of Exchange for TLC: one request of every kind, with bodies just  *)
(* long enough for a write to be split and for a chunk to be empty.            *)
EXTENDS Exchange

Request(body, parts, secure, get) ==
  [body |-> body, parts |-> parts, https |-> secure, get |-> get]

AllRequests ==
  {Request("none", <<>>, FALSE, TRUE), Request("none", <<>>, TRUE, TRUE),
   Request("inline", <<2>>, FALSE, FALSE), Request("large", <<3>>, TRUE, FALSE),
   Request("stream", <<1, 0, 2>>, FALSE, FALSE), Request("stream", <<>>, TRUE, FALSE)}

PlainGet == {Request("none", <<>>, FALSE, TRUE)}
=============================================================================
