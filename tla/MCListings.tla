----------------------------- MODULE MCListings -----------------------------
(***************************************************************************)
(* The specification for the TLC run of Listings: the orders are uploaded.  *)
(***************************************************************************)
EXTENDS Listings, MCGophermart

UploadedListingsSpec ==
  UploadedInit /\ ListingsInit /\ [][ListingsNext]_listingVars

UploadedListingsFairSpec == UploadedListingsSpec /\ Fairness
=============================================================================
