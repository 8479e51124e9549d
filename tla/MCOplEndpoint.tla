--------------------------- MODULE MCOplEndpoint ---------------------------
(* Small instances of OplEndpoint: the host knows one method, the enclave   *)
(* the other, so each of them also meets a selector it never registered.    *)
EXTENDS OplEndpoint

CONSTANTS ping, pong, HostPosts, EnclavePosts

MCMethods == {ping, pong}
MCRegistered == [e \in Endpoints |-> IF e = Host THEN {pong} ELSE {ping}]
MCMaxPosts == [e \in Endpoints |-> IF e = Host THEN HostPosts ELSE EnclavePosts]
=============================================================================
