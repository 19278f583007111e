----------------------------- MODULE MCDevices -----------------------------
EXTENDS Devices, TLC

MCCalls == ("p1" :> {"read"}) @@ ("p2" :> {"write", "sleep"})
=============================================================================
