----------------------------- MODULE MCListing -----------------------------
(* The small maps of MCSupDemMap with listings.                            *)
EXTENDS Listing, MCSupDemMap
=============================================================================
