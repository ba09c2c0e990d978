----------------------------- MODULE MCReleases -----------------------------
(* Two Rust releases to switch between and two PHP ones, one of which is     *)
(* unpacked in between, newer or older than all others.                      *)
EXTENDS Releases

CONSTANTS r1, r2, p1, p2

MCFirst == [Nothing EXCEPT ![p1] = 2, ![r2] = 3, ![r1] = 4]
=============================================================================
