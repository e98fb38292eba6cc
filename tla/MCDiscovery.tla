---------------------------- MODULE MCDiscovery ----------------------------
(* Instances of Discovery: a device without embedded devices that offers one
   service, and a control point that searches for its type or its service.  *)
EXTENDS Discovery, TLC

CONSTANTS root, light

SearchType == <<"type", root>>
SearchService == <<"service", light>>
=============================================================================
