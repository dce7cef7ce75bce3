----------------------------- MODULE MCUvServer -----------------------------
(* Small instances of UvServer for TLC.                                    *)
EXTENDS UvServerProps

CONSTANTS k1, k2, k3, c1, c2, f1, f2, f3

AnyKind      == {"tcp", "pipe"}
ThreeConns   == {k1, k2, k3}
TwoClients   == {c1, c2}
ThreeFds     == {f1, f2, f3}
AnyError     == {"ECONNABORTED", "ENFILE"}
=============================================================================
