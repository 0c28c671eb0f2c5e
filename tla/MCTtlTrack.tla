----------------------------- MODULE MCTtlTrack ------------------------------
(* Instances of TtlTrack for TLC: connections at the distances the         *)
(* configuration names, to servers with the usual initial TTLs; `odd` is   *)
(* one whose TTL tcp_get_auto_ttl cannot interpret.                        *)
EXTENDS TtlTrack, TLC

CONSTANTS nearby, distant, odd

NearAndFar == {nearby, distant}
Mixed      == (nearby :> 64) @@ (distant :> 128)
FourTwelve == (nearby :> 4) @@ (distant :> 12)
ThreeTwelve == (nearby :> 3) @@ (distant :> 12)

WithOdd     == {nearby, distant, odd}
MixedAndOdd == Mixed @@ (odd :> 255)
FourTwelveNine == FourTwelve @@ (odd :> 9)
=============================================================================
