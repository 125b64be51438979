----------------------------- MODULE MCHandleRpc ----------------------------
(* Instances of HandleRpc for TLC.  One answer stands for each class (each  *)
(* rank, for the legs of a broadcast) that the code tells apart.            *)
EXTENDS HandleRpc

Text == OtherBody("text")
Rpc(code) == Http(200, ObjectBody(code, FALSE))
Result == Http(200, ObjectBody(NoError, TRUE))
Null == Http(200, ObjectBody(NoError, FALSE))

AllAnswers ==
    {TransportError, Result, Null, Rpc(NoCode),
     Http(429, Text), Http(503, Text), Http(501, Text), Http(403, Text), Http(400, Text),
     Rpc(-32602), Rpc(-32016), Rpc(-32004), Rpc(-32005), Rpc(-32000),
     Http(200, OtherBody("array1")), Http(200, OtherBody("arrayN"))}

RankedAnswers ==
    {TransportError, Result, Null, Http(429, Text), Http(400, Text),
     Rpc(-32602), Rpc(-32016), Rpc(-32004)}
=============================================================================
