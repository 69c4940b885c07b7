-------------------------- MODULE MCLoadingBanner --------------------------
(* The banner on one window address, with the invariant of its proofs.      *)
EXTENDS LoadingBannerInv
=============================================================================
