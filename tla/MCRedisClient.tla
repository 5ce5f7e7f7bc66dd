---------------------------- MODULE MCRedisClient ----------------------------
(* Small instances of RedisClient: socket names are interchangeable, and so  *)
(* are the commands of one hop whose context never ends.                     *)
EXTENDS RedisClient, TLC

Symmetry == Permutations(Sockets) \cup Permutations(Commands \ (Groups \cup Scripts \cup Cancelled))

=============================================================================
