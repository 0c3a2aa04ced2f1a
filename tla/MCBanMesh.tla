----------------------------- MODULE MCBanMesh -----------------------------
(* A chain: the player joins at c, which knows b, and at b, which knows a. *)
(* a may generate another key pair, and its first one may move to b.  A    *)
(* node that was added without a port is never reached.                    *)
EXTENDS BanMesh, TLC

CONSTANTS a, b, c, ka, kn, kb, kc

MCFirstKey == a :> ka @@ b :> kb @@ c :> kc
MCKeysOf == a :> {kn} @@ b :> {ka} @@ c :> {}
MCPeers == a :> {} @@ b :> {a} @@ c :> {b}
HTTP(host, port) == [scheme |-> "http", host |-> host, port |-> port]
Bare(host, port) == [scheme |-> "none", host |-> host, port |-> port]
MCListen == a :> {HTTP(a, 30000)} @@ b :> {HTTP(b, 30000)} @@ c :> {}
MCTyped == {Bare(a, None), Bare(a, 30000), Bare(b, 30000)}
=============================================================================
