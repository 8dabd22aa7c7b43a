--------------------------- MODULE MCCouponClaim ---------------------------
(* Small instances of CouponClaim for TLC.                                 *)
EXTENDS CouponClaim, TLC

CONSTANTS c1, c2
Alike == Permutations(Claims)
=============================================================================
