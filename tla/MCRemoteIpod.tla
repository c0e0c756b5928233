---------------------------- MODULE MCRemoteIpod ----------------------------
EXTENDS RemoteIpod
=============================================================================
