--------------------------- MODULE MCConfigPubSub ---------------------------
EXTENDS ConfigPubSub

MCSegments == {"default", "0", "currency", "options", "base"}
PathA == <<"default", "0", "currency", "options", "base">>

(* A path with a route of three parts, and topics on two of its levels.     *)
MCPaths == {PathA}
MCTopics == {Level(PathA, 4), PathA}
=============================================================================
