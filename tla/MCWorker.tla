----------------------------- MODULE MCWorker -----------------------------
(* Constants and symmetry for model-checking Worker.                        *)
EXTENDS Worker, TLC

CONSTANTS a, b, c,              \* task ids
          u, v                  \* URLs

TwoIds == {a, b}
ThreeIds == {a, b, c}
OneUrl == {u}
TwoUrls == {u, v}
OneWork == {1}
TwoWorks == {1, 2}
ThreeWorks == {1, 2, 3}
HttpOnly == {"HTTP"}
HttpAndIcmp == {"HTTP", "ICMP"}
AllTypes == HandledTypes

Symmetric == Permutations(TaskIds) \cup Permutations(Urls)
=============================================================================
